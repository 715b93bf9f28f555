# Muxloom, modelled and checked

Muxloom runs coding agents and shells on several machines. On each machine a
daemon (`muxloomd`) keeps the sessions, one small *keeper* process per session
owns its terminal, and a *controller* (the dashboard, or `muxloom mcp`) reaches
the daemons over persistent connections. What makes it hard is in one sentence of
its own README: quitting the dashboard, losing SSH, replacing `muxloomd`, or even
a daemon crash leaves the agent running. Several processes, each with several
threads, agree about a session none of them outlives for certain.

This directory holds TLA+ modules for the parts that carry that promise, the TLC
configurations that check them, and TLAPS proofs of most of their safety. Paths like
`keeper.rs:524` are under `src/src/`.

* [1. The system](#1-the-system): parts, state, operations, interactions
* [2. The plan](#2-the-plan): modules, done and to do
* [3. The modules](#3-the-modules): how they correspond to the code
* [4. What is checked](#4-what-is-checked): runs, bounds, fairness
* [5. What is proved](#5-what-is-proved)
* [6. What the checks found](#6-what-the-checks-found)
* [7. What is not modelled](#7-what-is-not-modelled)

## 1. The system

    controller (dashboard, worker.rs)           controller on another machine
      | bridge.rs: one connection a machine,          |
      | multiplexed streams                           |
      v                                               v
    muxloomd  -- the serving lock: one at a time per state directory --
      | sessions, records on disk, board, relay queue, outbox, triggers
      | keeper.rs protocol over a Unix socket, one client at a time
      v
    keeper  -- PTY -->  child (agent or shell)

### Parts that carry the core logic

**Session keeper** (`keeper.rs`). State: the child and its PTY; the `Relay`
(current client, history file and its length) under one mutex; the exit code;
`FirstClient` (claimed, orphaned since when); `done`. Threads: the reader (drains
the PTY, appends to the history, forwards, waits for the child, announces the
exit), the accept loop (evicts the client before, greets the new one with the
history's length), a thread per client (DATA, KILL, QUIT, PING, RESIZE). Hard:
a client greeted while output flows; the exit racing a new client; a client
replaced whose thread still runs; who leaves last. Correct when: history plus
forwarded output is the whole output; the exit is heard once and last; a client
replaced cannot evict its successor; the keeper leaves when, and only when,
nothing needs it.

**Generations and adoption** (`daemon.rs`: `serve_with_mode`,
`load_persisted_sessions`, `restore_live_session`, `handle_request`'s Launch,
Delete and Archive, `spawn_session_reader`). State: the maps of live and
persisted sessions, the metadata file of each, `draining`, `shutdown`, a handle
with its `discarded` gate. A daemon that is asked for a handover, signalled or
killed leaves records and keepers; the next one connects to each keeper, which
hangs up on the one before. Hard: the reader thread of the old daemon, which
outlives the lock, must tell a takeover from a crash; a launch or a retirement
cut short at any step. Correct when: a running session is never recorded dead,
the daemon that serves holds every running session, a record deleted is not
written again, a death gets on record and the keeper is dismissed.

**Talk board** (`talk.rs`, `worker.rs:1544`). State, per machine: for each origin
a log of numbered messages with a mark below which it was dropped, in memory and
in one file per origin. Operations: post, merge, clear, compaction by number and
age, load. Controllers replicate: read a machine's vector, pull what the own board
lacks and push what the machine lacks, a batch at a time. Hard: boards change
between the requests of a round; numbers must survive restarts of an emptied log;
gaps; files cut short. Correct when: an id names one message for ever, nothing
is asked for twice, every board catches up.

**Serving lock and client start-up** (`daemon.rs:2097-2411, 8569-9075`). State:
the lock, socket, pid and stamp files. Launchers race to start or replace a
daemon, callers ask whether one serves by taking the lock for a moment, stale
files are swept, an older build is asked to make way and, ten minutes later,
stopped. Hard: what a client saw is old when it acts on it; a killed daemon's
process number is given out again; two builds could replace each other for ever.
Correct when: never two daemons serve, no daemon's files are removed under it, no
stranger is signalled, only a better build retires a daemon, and a launcher ends
with one that answers.

**Revival** (`daemon.rs:4396-4480, 4885-5010`, `bridge.rs:2755-2836`). A launch
that names an archived record takes it out of the index, and either replaces it
by a live session or must put it back as it was; the client sends a launch again
when its bridge dies. Hard: readers, archivals, deletes and the daemon's own end
come between the steps of a launch, each of which may fail. Correct when: a number
has one child, a failed revival loses nothing, what was deleted stays so, and the
client is told the truth.

**Lineage and fleets** (`daemon.rs:4990-5336`). State: `parent` and `resumed_to`
of every record, whose conversation it holds, the two indexes. A conversation
that comes back under a new number takes the sessions it had started with it;
closing a session closes what is below it, leaves first. Hard: a conversation
that moves on twice, links that lead back up their own chain, launches between the
steps of a closing. Correct when: a conversation is in one place, its fleet hangs
off that place, and a closing leaves nothing running below.

**Relay and approval ledger** (`relay.rs`, `approvals.rs`). State: in the daemon
a queue of jobs (submitted, taken, answered) with expiry and the controllers'
reach; beside the controller a ledger of asks, standing grants and one-run grants
in one file. Operations: submit, poll, complete, result, expire; park, settle (at
the dashboard, in chat, from a forwarded verdict), spend, lapse. Hard: an agent
gives up before its controller does and asks again; two controllers come for the
same queue; numbers that name a job or an ask; an answer given elsewhere than the
ask. Correct when: a job runs at most once and its
answer goes to its asker, a write runs only on a grant, and a one-run grant lets
one run through.

**Direct messages and outbox** (`daemon.rs:1017-1560`). State: the outbox in memory and
on file, the flag that its one thread runs. Messages wait until the session's
prompt is free, and are typed, or bounced to their sender. Hard: the queue is
saved before its messages are typed, the thread stops when the queue is empty
while requests add to it, limits of age pass while sessions come and go. Correct
when: each is typed or bounced, never both, and not twice.

**Triggers** (`daemon.rs:864-1015`). Patterns armed on a screen, judged by reader
threads outside the lock that guards the list. Correct when: one fires on the way
into a match, never for text that was there when it was armed, and a one-shot
trigger once.

**Stream flow control** (`daemon.rs:677-735`, `bridge.rs`). State: for each connection the
credit of every stream, under one lock with a condition its pumps wait on, and a
bounded queue each way. One loop reads all frames and serves all streams. Hard:
credit for one stream queues behind data of another; a stream or the connection
ends with pumps in any state. Correct when: a window is never overrun and never
shrinks, no pump waits or lives on for ever, and an upload lands whole or not at
all. The end of the connection is told without that lock, which is where the second
can fail (section 6).

**Account lease** (`channel.rs:2815-3400`). Notes on the board elect the one
machine that answers a chat account, with the cursor to resume from. State: the
notes each board holds, and on every dashboard the cursor, its own last note and
what was handled. Hard: notes travel with rounds, a cursor is published before
what it passes over is dealt with, dashboards are opened and closed. Correct when:
no message is answered twice while boards are in touch, no cursor passes over an
unread one, and everything said is read.

**History backup** (`backup.rs`). State: an index with a record for every
session (cursors, the transcript it is paired with, a fingerprint of its opening)
and three copies each (capture, transcript, messages), as lists of compressed
chunks. A pass lists a machine's sessions and copies what was added. Hard: the
index is written after the copies and they are three files, sources grow, are
written anew and vanish during a pass, and which file is a session's changes.
Correct when: no record claims what its copies lack, a copy is its source, and all
of the source arrives.

### Parts around them

| part | files | role | why it is left out |
|---|---|---|---|
| bridge, runtime | `bridge.rs`, `runtime.rs` | connections over ssh, provisioning, file access | mostly I/O and generated shell; the reader of a connection is in `Streams`, the retry of a launch in `Revival` |
| protocol | `daemon_protocol.rs` | frames and JSON | values the modules use as steps |
| worker | `worker.rs` | one thread a request for the dashboard | its schedule of rounds is used by `Board` and `Lease` |
| native histories | `native_history.rs` | matches the agents' own transcripts to sessions | heuristics over foreign files |
| activity, recap | `activity.rs`, `recap.rs` | classify what a screen shows | functions without state |
| dashboard | `app.rs`, `ui.rs`, `main.rs`, `terminal_session.rs`, `qr.rs` | single-threaded screen state and drawing | one actor, mostly layout |
| control, MCP | `control.rs`, `mcp.rs`, `mcp_register.rs`, `moderator.rs` | tools over the other parts | one call each, configuration files |
| permissions | `permissions.rs` | tables of who may do what | tables; two answers of them are in `Relay` |
| chat protocols | `ilink.rs`, the rest of `channel.rs`, `lark_onboard.rs` | outside services | their behaviour is not in this code |
| the rest | `config.rs`, `model.rs`, `update.rs`, `ssh_config.rs`, `http.rs`, `media.rs`, `port_forward.rs`, `debug.rs`, `bin/muxloomd.rs` | settings, data, download, entry points | no protocol between actors |

How they interact: a daemon is a keeper's client, and replacing the client *is*
the handover; a keeper's greeting (child's pid, history length, exit if any) is
all an adopting daemon learns; a controller is a daemon's client, may run on the
same machine, and is the only thing that moves messages between boards, carries
relayed jobs, and holds the ledger.

The hazards of each part, with the line where each bites and the property that
would catch it, are listed in `PROJECT.json`; those without a property say why.

## 2. The plan

| order | module | composes | abstract specification | state |
|---|---|---|---|---|
| 1 | `Keeper` | | `SessionTranscript` | checked, proved |
| 2 | `Adoption` | the keeper as slot, child, up or gone | | checked, proved |
| 3 | `Board` | boards and controllers | | checked, proved |
| 4 | `Relay` | a daemon's queue, controllers and their ledgers, the person | | checked, safety proved |
| 5 | `Serving` | clients of several builds, daemons, lock and files | | checked, safety proved |
| 6 | `Revival` | clients, launches, keepers, readers, archivals, deletes | | checked, safety proved |
| 7 | `Lineage` | launches and closings over the links between records | | checked, safety proved |
| 8 | `Outbox` | requests, the drainer, sessions, daemons | | checked, safety proved |
| 9 | `Streams` | a client's reader, a daemon's loop and pumps, peers | | checked, safety proved |
| 10 | `Lease` | dashboards over a board that carries notes | | checked, safety proved |
| 11 | `Backup` | a pass, the machine it copies, the store | | checked, safety proved |

The order is by what a fault costs: a session lost, a conversation lost or mixed,
then a write done twice, a machine without a daemon, a message lost, and the rest.

Left: the lock step of `Adoption` implemented by `Serving`; an abstract job box for
`Relay`; two controllers over one ledger file; triggers, if their text is to be
modelled.

## 3. The modules

An action is what one thread or process does between two points where another can
act; `PROJECT.json`'s map gives the lines of each definition.

### Keeper, SessionTranscript

`Keeper` is one keeper process, its child, and every connection ever made to it.

| code | module |
|---|---|
| child, PTY (a grandchild may keep the PTY open) | `alive`, `ttyOpen`, `written` |
| `Relay`'s mutex where it is held across writes | `lock` (reader or accept loop) |
| `Relay.client`, `Relay.history_bytes` | `slot`, `history` |
| `exit_code`, `FirstClient`, `done` | `exitCode`, `claimed`, `orphaned`, `done` |
| reader: read, append, forward, wait, announce, check for orphans | `RelayOutput`, `Forward`, `ReadEof`, `ReapChild`, `AskForClient`, `TellExit`, `CheckForClient`, `NobodyLeftToTell` |
| accept loop: leave?, accept, evict, HELLO, repeat EXITED, install, claim | `CheckDone`, `Accept...`, `EvictPrevious`, `Greet`, `RepeatExit`, `Install`, `Claim` |
| client thread: frames, end of stream, leaving the slot | `Serve...`, `EndOfStream`, `LeaveSlot`, `FinishAfterLeaving` |
| daemons | `Connect`, `Send`, `HangUp` |

Output is counted in PTY chunks: the n-th chunk is n, the history is how many are
on file, a DATA frame is its chunk. `Read`ing and waiting are atomic, every write
to a client is a step that fails once the client has hung up. The wait for the
child keeps the child's mutex, so KILL is disabled meanwhile, as in the code.

`SessionTranscript` is what a daemon may rely on: one growing record, an attached
reader that gets all of it, an end announced after the last chunk.
`ImplementsTranscript` is the refinement: a chunk counts as recorded once it is
forwarded (the history is one ahead while the reader holds the lock), a client as
attached from its HELLO on.

### Adoption

One session and the generations `1..MaxGen` of the daemon that serve it.

| code | module |
|---|---|
| process: not started, scanning records, connected to the keeper, retiring a record, serving, lock released and threads running, gone | `pc`: unborn, scanning, greeted, burying, serving, ending, gone |
| `draining`, a signal caught, `shutdown` | `draining`, `signalled`, `shutdown` |
| live and persisted maps, metadata in memory, `discarded` | `holds`, `copy`, `discarded` |
| keeper connection and `spawn_session_reader` | `stream`, `reader`, `heard` |
| requests being answered | `work` |
| keeper | `keeper`, `claimed`, `client`, `child` |
| metadata file | `record` |

`Start` to `AdoptLive`/`DismissOrphan` are the load; `PrepareHandover`,
`AnswerHandover`, `CatchSignal`, `LeaveAcceptLoop`, `ProcessEnds` and `Crash` the
ways a daemon goes; `Launch...`, `Delete...`, `Archive...`, `Touch` the requests;
`ReaderHears`, `ReaderJudges`, `ReaderRemoves` the reader. The reader looks the
session up when its connection ends (`ReaderHears`) and decides later
(`ReaderJudges`), because the code does; a delete, an adoption or the end of the
accept loop may come in between. The keeper is seen from the daemon's side only:
slot, child, up or gone, which is what `Keeper` says a client can see of it.

### Board

Machines `1..Boards`, which are also the origins of messages, and `Controllers`.

| code | module |
|---|---|
| `OriginLog` in memory, `low_water` | `held`, `low` |
| the files: whole lines, header `dropped_through`, unfinished last line | `lines`, `through`, `torn` |
| clock, messages posted so far | `clock`, `minted` (the second only to bound the run and to tag messages) |
| `run_sync`: next machine, ask, fetch and file inbound, fetch and file outbound | `BeginRound`, `Ask`, `FetchInbound`, `FetchOutbound`, `FileNext`, `Carried`, `EndRound`, `Fail` |
| `post`, `clear`, a restart with `load_logs` and `compact` | `Post`, `Clear`, `Restart` (`CutShort`, `MarkOnFile`, `Aged`) |

`File` is one message filed into one log: refused when held or dropped, appended,
and the surplus cut and the file rewritten when the log is too long. The board's
lock is held for a whole page, and `FileNext` files one message of it a step, since
the daemon may die between two: nobody else gets at the board meanwhile (`filing`,
`Free`). `Fail` is a request that is lost, before or after the board carried it out.

### Relay

One daemon's queue, the agents beside it, the controllers that come for it, each
with a ledger, and the person who answers.

| code | module |
|---|---|
| `RelayQueue`: entries, next number, who has polled | `entries`, `next`, `seen` |
| an adapter's wait in `control.rs` | `waiting` |
| a round of `run_pump`: the jobs it was handed, the job at hand and how far it is | `round` |
| `Approvals`: open asks, one-run and standing grants, last number, answered asks | `pending`, `once`, `allow`, `minted`, `settled` |
| forwarded verdicts on the board | `notes` |
| nobody's knowledge: calls, how often each ran, which writes succeeded, every ask shown, every answer given | `calls`, `runs`, `done`, `cards`, `said` |
| `submit`, `result`, the end of `RELAY_WAIT`, a new daemon | `Submit`, `Result`, `GiveUp`, `Restart` |
| `poll`, `forget_stale`, the gate, a new ask, the call, the spent grant, `relay_complete` | `Poll`, `Tidy`, `Gate`, `Park`, `Run`, `Spend`, `Answer` |
| a controller that quits, or cannot set its tools up (`relay.rs:905`) | `Abandon` |
| dashboard, chat, `take_forwarded_verdicts` | `AnswerAtDashboard`, `AnswerInChat`, `TakeVerdicts` |

Each read-change-write of a ledger is one step, because the code takes the
ledger's lock for it and reads the file again under it; the gate reads without the
lock, so what it decided may be old when the round acts on it. A controller runs
one round at a time (`app.rs:7012`). Instead of a clock, any prefix of the queue
nobody waits for may have expired (an agent waits 60 s, a job lives 120 s), the
oldest asks may have lapsed, and of the notes on the board any may have arrived.
Any controller may be the chat's voice when a reply comes, since the lease moves.
A card in the chat stays after its answer: it may be answered again as it was, and
up to `MaxReplies` times otherwise, and a reply to a settled ask is told so,
settles nothing, or meets whatever ask has that number by then (`MayReply`).

### Outbox

One daemon at a time on a machine, its sessions, and the messages for them.

| code | module |
|---|---|
| `DaemonState::outbox`, `outbox.json`, `draining_outbox` | `outbox`, `file`, `flag` |
| the drainer thread, and threads that have lowered the flag and look again | `drainer`, `leaving` |
| what a pass took out: to type, to send back | `due`, `lost` |
| the request that brings a message | `request` |
| how long a message has waited, as the limits it has passed; what a session shows, as kinds of screen | `age`, `screen` |
| `deliver_direct`, `queue_seed_prompt` | `DeliverDirect`, `TypeNow`, `Queue`, `Spawn`, `QueueSeedPrompt` |
| `spawn_outbox_drainer`, `drain_outbox`, `bounce` | `SpawnOutboxDrainer`, `Look`, `Pick`, `TypeNext`, `Bounce`, `PassDone`, `LowerFlag`, `LookOnceMore` |
| handover, end and start of daemons | `StandDown`, `Stop`, `Start` |

`IsDue` is the code's rule of when a message goes in, over kinds of screen. What a
message became (`answer`, `typed`, `told`) is nobody's knowledge.

### Streams

One connection: its client, the frames each way, the daemon's loop and pumps.

| code | module |
|---|---|
| the client's streams and its bounded queue of frames | `holds`, `toSend`, `up` |
| frames to the client, by stream | `down`, `goodbye` |
| `serve_client`'s loop, its `subscriptions` | `loop`, `at`, `subscriptions` |
| `StreamFlow` | `entries`, `credit`, `closed` |
| the thread of each stream | `pump`, `remaining` |
| uploads under a temporary and a final name | `temporary`, `landed` |
| the peer of a forwarded connection and what the socket buffers | `peer`, `owes`, `inward`, `outward`, `shut` |
| frames in, by kind | `OnOpen`, `OnCredit`, `OnData`, `OnClose` (with `Activate`, `Land`), `WriteToPeer`, `EndOfFrames`, `Disconnect` |
| pumps | `ReadSocket`, `NextOfFile`, `Consume`, `StartWaiting`, `WriteChunk`, `FileIsShort`, `PumpEnds` |
| the client's reader | `ReadChunk`, `ReadGoodbye` |

Bytes are counted in chunks. `Consume` and `StartWaiting` are one hold of
`StreamFlow`'s lock taken apart between its look and its wait. Credit comes under
that lock and cannot fall in between; `Disconnect` takes no lock and can, and the
pump then hears nothing of it. An upload that is whole and cannot be synced or
renamed ends the loop and stays under its temporary name, as it has left
`subscriptions` by then (`Activate`).

### Serving

Daemons are process numbers, which the kernel gives out again; clients are callers
of `connect_or_start`, each of a build.

| code | module |
|---|---|
| the flock, the lock file's record, the socket's path, pid, stamp and handover files | `lock`, `record`, `socket`, `pid`, `stamp`, `noted` |
| `serve_with_mode`, its retirement watcher, its end | `TakeLock`, `Bind`, `WritePid`, `StartServing`, `Retire`, `DropGuard`, `Exit`, `Kill`, `Reap` |
| a client: connect, wait for the stamp, ask, defer, stop, sweep, start, wait | `Connect`, `Settle`, `Ask`, `Deferred`, `Broken`, `AskTheLock`, `Signal`, `GiveUpWaiting`, `Sweep`, `Spawn`, `Await`, `CallAgain` |

A wait ends when what it waits for has happened or cannot any more, so that no
clock is needed. A process remembers the last stamp it has waited out (`settled`,
the code's `SETTLED_GENERATION`): while it reads that stamp it does not wait again
(`WaitedOut`). `misjudged` is nobody's knowledge: whom such a process has reached
between bind and stamp, and so taken for the daemon before.

### Revival

One session number; runs of it are a keeper, its child and the daemon's handle.

| code | module |
|---|---|
| `sessions`, `persisted_sessions`, the metadata file | `mapped`, `filed`, `file` |
| a handle: metadata, `discarded`, connection, reader | `copy`, `shut`, `to`, `reader` |
| keepers, children, the slot, the socket's path | `keeper`, `child`, `client`, `path` |
| the launch behind `launch_gate`, those waiting | `job`, `queue` |
| `BridgePool::launch` | `AskToLaunch`, `LoseBridge`, `Look`, `LookAgain` |
| `launch_session`, `resume_in_place`, `RevivalRollback` | `Refuse`, `Take`, `WriteRecord`, `SpawnKeeper`, `ConnectToKeeper`, `Insert`, `FailEarly`, `FailToSpawn`, `GivesUp`, `FailOnceConnected`, `PutBack` |
| archive, delete, the reader's judgement | `Archive...`, `Delete`, `Discard`, `DeleteFiled`, `ReaderHears`, `MarkDead` |
| handover, kill, the next daemon's load and adoption | `HandOver`, `Killed`, `Start` |

A record is its two flags and the request that first made it, which stands for
what a revival has to keep. A launch may fail at every step. One that fails after
its keeper has greeted it, when the connection cannot be duplicated
(`daemon.rs:4775`) or the record not be written again (`daemon.rs:4831`), leaves a
keeper with a running child behind (`FailOnceConnected`, the mishap "fails once
connected"), and `late` remembers that this has happened.

### Lineage

Many numbers, the links between them, one launch behind the gate and one closing;
what `Revival` takes apart is one step here that succeeds, is refused or fails.

| code | module |
|---|---|
| the two indexes, stopped sessions | `live`, `filed`, `over` |
| `thread`, `parent`, `resumed_to` | the same, by number |
| `resume_in_place` | `TakeRecord`, `ReviveInPlace` |
| `archived_resume_match`, `resumed_successor` | `Matching`, `Newest`, `Match`, `Successor` |
| `mark_resumed_to`, `reparent_children` | `Repointed`, `Repoint` |
| `fleet_below`, `fleet_under`, `close_fleet_below` | `NextGeneration`, `Generations`, `FleetUnder`, `FindFleet`, `CloseNext` |

`Under` says what a fleet is meant to be, by its masters; `FleetUnder` walks down
as the code does. A launch under a new number is checked against stopped records of
its conversation only, never against one that runs. `MayReopen` says what clients
do: they reopen what does not run, or what has a stopped record that leads to where
it runs; anything else is the fault "asked for while it runs".

### Lease

Dashboards, one a machine, numbered in the order of their board names.

| code | module |
|---|---|
| the leases a board holds, the newest of each holder | `board` |
| `channel-inbox.json`: cursor, claim's time, own last note, handled messages | `inbox` |
| the worker's round, with the copy of the inbox it was handed | `round` |
| `talk::run_sync`, `lease_decision`, `adopt_newer_cursor` | `Carried`, `LeaseDecision`, `AdoptNewerCursor` |
| `lease_round` | `Begin`, `Decide`, `TakeAlone`, `Claim` |
| `run_inbox`, `refresh_lease`, `absorb`, `App::absorb_inbox` | `ReadChat`, `ReadFails`, `RefreshLease`, `Absorb`, `Finish` |

Times are counted down in ticks of five seconds, the longest time between two
rounds of a dashboard: `Settle` is 10 s and `Refresh` 15 s as in the code; the
life of a note is 25 s instead of 45 s, which only makes it run out sooner.
`TakeAlone` is a round without a board, or with one that cannot be read, which
answers without any election; it counts as a read that failed.

### Backup

One dashboard, the machine whose sessions it copies, and the store.

| code | module |
|---|---|
| `index.json`; a record's cursors, pairing, mark and fingerprint | `index` (`file`, `mark`, `synced`, `digest`, `lines`) |
| the three blobs of a session | `capture`, `transcript`, `messages`, lists of frames: a run of lines of one version of one source |
| `sync_target`: sessions still to come, `spoken_for`, the record in hand | `pass` |
| `run_sync`, `BackupIndex::upsert`, `save_index` | `Begin`, `TakeUp`, `Save` |
| `sync_capture`, `retain_capture` | `Count`, `Page`, `EndCapture`, `CaptureFails` |
| `pick_native_candidate`, a pairing that changes, `mirror_is_current` | `Candidates`, `PairedWith`, `Scan`, `Current` |
| `appended_transcript`, `whole_lines` | `CheckOpening`, `Resume`, `Added` |
| the rest of `sync_transcript` | `Download`, `AppendTranscript`, `AppendMessages`, `ReplaceTranscript`, `ReplaceMessages`, `ReadFails`, `WriteFails` |
| the agents, the daemon's matching, the dashboard closed | `BeginLine`, `EndLine`, `Rewrite`, `Vanish`, `PrintLine`, `Match`, `Quit` |

Sizes are counted in lines, and what bytes were for is kept as the half line at a
file's end. A guess of a transcript may be any file of the folder that is not
spoken for, or none. `slid` and `spoilt` are nobody's knowledge: which copies an
event the code does not guard against has touched since they were last whole.

## 4. What is checked

Every run ends with its state space exhausted.

| run | question | instance | states |
|---|---|---|---|
| `keeper` | transcript, exit and departure, under fairness | two connections (spawner, successor), two chunks, one frame a client | 426 809 |
| `adoption` | what daemons may do to a record; deaths recorded and keepers dismissed | two generations, crashes and handovers, fair | 17 902 |
| `board` | unique ids, nothing asked twice | two boards, one controller, logs of one, batches of one, three posts each, two times, clears, restarts | 483 381 |
| `board_catch_up` | convergence | three boards, one controller, batches of one, two posts each, a failed request, restarts, nothing dropped | 165 872 |
| `relay` | calls run once, writes only as allowed | one agent with a read and a write, two controllers of which one reaches the write's machine, a restart | 2 905 191 |
| `outbox` | messages typed once, never lost, never denied | one session, a message that waits for an idle prompt and a launch's first prompt, an outbox of one, three screens, three daemons | 287 616 |
| `streams` | credit, uploads, pumps | a forwarded connection, a download and an upload, two of them open, a window of one chunk, a queue of two frames | 177 164 |
| `serving` | strangers, builds taking turns, everyone served | an older client that calls once and a newer that calls twice, three process numbers, one kill | 185 761 |
| `revival` | one child, nothing forgotten, truthful answers | two clients, two runs, two generations, launches that fail at every step | 493 461 |
| `lineage` | one place, fleets that follow and close | four numbers, one conversation | 2 130 554 |
| `lease` | one voice, no message skipped | two machines in touch or not, one message, two dashboards closed, one read, of chat or board, failed | 809 277 |
| `backup` | what records claim, what copies hold | a shell that prints three lines or an agent with two transcripts; two changes of files or matching, one read, write or pass cut short | 1 038 577 |

Beside the runs, some configurations are kept that fail, each on a promise the
code does not keep: section 6 names them. `StreamsReleased.cfg` and
`ServingSettled.cfg` need no fault for it.

Properties, besides those named in the inventory:

* `ImplementsTranscript`: what a daemon receives from a keeper, greeting and frames
  together, is one record without gap or overlap (section 3).
  `LeavesOnlyWhenDone`: it leaves with its child reaped, and not while the daemon
  that started it still waits to be greeted. `ListenerHearsExit`: its listener hears
  of the exit. `NobodyElseEvicts`: a client replaced earlier does not evict its
  successor.
* `NeverBuriedAlive`: a running session is on record and not as dead, while the
  reader of a daemon that stood down sees its connection cut.
  `ServedByTheDaemon`: the daemon that serves holds each running session, on the
  connection the keeper listens to, with a reader. `DeletedStaysDeleted`: no
  handle writes a record that was deleted, the threads of an older daemon that is
  still ending excepted, whose gate is another process's. `DeathIsRecorded`,
  `KeepersLeave`: a death gets on record and stays there, and a keeper whose child
  is dead goes.
* `RunsOnce`, `OneRunPerYes`: no call is carried out twice, and a write succeeds no
  more often than the person said yes to it, a standing yes aside. The second
  relates what was run to what was answered, over the ask, the reply's way to the
  ledger, the grant, and the retry that uses it.
* `TypedOnce`, `NoFalseAlarm`, `NothingSwallowed`, `EveryMessageEnds`: a message
  is typed once at most, nobody is told of one that arrived that it did not, one
  that was accepted is somewhere, and none stays in the outbox for ever.
* `CreditConserved`: of each stream's window exactly the whole is accounted for,
  in the daemon, on its way, or on its way back. `UploadsAllOrNothing`: what has
  its final name is whole, and once the connection is over nothing is left under a
  temporary name but an upload that was whole too, one at most, whose sync or
  rename failed. `NoPumpWaitsForEver`, `PumpsEnd`: a pump comes to be woken, and to
  its end, provided it is not itself the one that misses the disconnect
  (`MissesIt`), whatever becomes of the others.
* `StrangersLeftAlone`, `RetiredByItsBetters`, `EveryoneIsServed`: no process that
  was given a dead daemon's number is signalled; a daemon is only replaced for a
  better build, unless by a process that knew the stamp before it and came between
  its bind and its own stamp (`misjudged`); a client that goes on calling is served.
* `OneChild`, `NothingForgotten`, `SameIdentity`: until a launch fails whose keeper
  had greeted it (`late`), at most one child of a number and the daemon on its
  connection; file and indexes agree between changes; a record is not written over
  by another conversation's. `DeletedStaysDeleted`, `AnsweredTruthfully`,
  `EveryRequestEnds`, over such failures too: nothing comes back after a delete;
  who is told "there" has had a launch of its own begun; and each client hears.
* `OnePlace`, `FleetFollows`, `FleetClosed`: while clients ask for what has stopped
  or leads to where it runs, no conversation runs twice and nothing
  hangs off a number its conversation has left; and when a closing is done nothing
  under its root runs.
* `SpokenOnce`, `NothingSkipped`, `EveryWordIsRead`: nothing is answered twice
  while machines are in touch and reads succeed; no published or kept cursor
  passes over a message nobody has dealt with or is about to; all that is said is
  read as long as a dashboard is open.
* `NothingMissing`: between passes every line up to a record's cursor is in both
  copies, however the last passes ended, as long as the file is still the one
  copied. `CopiesAreExact`: a copy is its source line by line unless something
  `slid` or `spoilt` it. `EveryLineIsMirrored`: all whole lines of a matched file
  come to be in both copies.

**Bounds.** Keeper: a takeover needs two clients, and a third repeats what the
second does to the first; two chunks put one before and one after any point of a
greeting; one frame a client is enough since frames of one thread only follow one
another. Adoption: with two generations a daemon adopts, buries or is crashed out
of whatever the first left; with three (`MaxGen = 3`, 1 219 550 states, passing,
too long for the routine run) a reader of the first meets the third. The last
generation does not stand down, so that something is there to observe. Board: two
boards have all interactions of a pair, which is all a round touches, and three are
needed for a message to travel through the controller's board; a log of one that is
compacted at its second message, with three posts, has every order of compaction,
clear and restart around a number. Relay: a write needs one call to be asked about
and another to run, and a third is what a grant that was not spent would let
through. A card answered once more, and otherwise, is beyond that run:
`RelayReplies.cfg` (455 059 states, passing) has it for one write and one slot, which
is what it takes for a late reply to meet an ask it was not given for. Outbox: room for one of two messages makes the outbox full as soon as it
is used; three daemons are a handover and what it left handed over again. Streams:
a window of one chunk and a queue of two frames make every send one that may have
to wait; two open streams are what it takes for one's credit to queue behind the
other's data. Serving: three numbers are the daemon replaced, the one that replaces
it and one killed, and numbers are reused in the run. Revival: two runs, two
daemons and a retry put a second launch against every step of the first. Lineage:
four numbers let a conversation move on twice from a record with a session under
it. Lease: one message suffices, since skipping or repeating is one message's fate;
two closings let an account go there and back; two messages (2 083 674 states)
passed as well. Backup: one of the two sources at a time, as a pass treats each
session apart from the others but for `spoken_for`, which `BackupTwo.cfg` covers
with two agents (675 920 states, passing); two troubles instead of one (2 696 290
states) passed as well. A window and a size of one line make every copy one that
needs several pages and is trimmed, and two moves let a file be written anew, or a
pairing change, before and after a cut-short pass.

**Deadlock** is checked in the keeper, board, lease and backup runs, where a
stopped system only stutters explicitly. The others do not check it: their calls,
messages, numbers and streams are counted and may be used up.

**Fairness.** A thread that can go on does: reader, accept loop and client threads
of the keeper, the loads, exits and readers of daemons, the drainer, loop, pumps
and readers of a connection, a launch, a client in the middle of a call (`WF`:
operating system threads and no lock held for ever, but the child's in the keeper,
which is modelled). Rounds and passes are begun again, since the dashboard's timer
does so. A waiting launch is served (`SF`: the gate is a mutex handed out again and
again). `Start` is fair: a machine in use gets its next daemon, since every client
that reaches it starts one if none serves. Nothing is assumed of a child, except
that one asked to die does; nor of users, restarts, clears, or the peers of
forwarded connections, beyond reading what they can. Failures are bounded
(`MaxFails`, `MaxTroubles`, `MaxKills`, ...): what must happen in the end happens
once they are over. The two properties of pumps are conditional,
`[]~MissesIt(s) => ...`, as no fairness brings back a wake-up that is missed.

**Faults.** What the code does not defend against is a named fault of a constant
(`Faults`, in `Revival` `Mishaps`), which the runs leave out, so that the rest can
be checked, and which section 6 tells about; `revival` takes one in, "fails once
connected".

**Each property can fail.** For each, `PROJECT.json` names a definition and a
changed form of it, such as a client thread that clears a slot not its own, a
reader that looks at the signal only, or a cursor that moves before its second
copy is written, under which TLC finds it violated.

## 5. What is proved

TLAPS checks these for every value of the constants, within the assumptions named.

| module | theorem | says | assumes |
|---|---|---|---|
| `KeeperProofs` | `TypeCorrect`, `GreetingSplit`, `ExitIsLast`, `EveryListenerTold`, `NoEarlyDeparture`, `ReplacementKept` | `TypeOK`, `NoGapNoOverlap`, `ExitComesLast`, `NobodyIsLeftUntold`, `LeavesOnlyWhenDone`, `NobodyElseEvicts` | the constants' assumptions |
| | `Implementation` | `Keeper` implements `SessionTranscript` | |
| | `WindowsStayWhole`, `WholeOrNothing` | `CreditConserved`, `UploadsAllOrNothing` of `Streams`: every file under its name is whole, and of those left under a temporary name there is at most one, whole, that could not be synced or renamed | the constants' assumptions |
| `AdoptionProofs` | `TypeCorrect`, `NeverBuried`, `ServedAlways` | `TypeOK`, `NeverBuriedAlive`, `ServedByTheDaemon` | `Environment`: accept does not fail for good; a keeper comes up while its launch waits, or not at all |
| | `DeletedForGood` | `DeletedStaysDeleted`: after a delete the daemon that carried it out, and every later one, leaves the record alone. Excepted: the threads of an older daemon still ending, and temporary sessions | |
| | `InOnePlace`, `FleetsFollow` | `OnePlace`, `FleetFollows` of `Lineage` | `Undisturbed`: clients go on from a conversation's last record, and ask under a new number for what does not run or has a stopped record that leads to where it runs; no launch fails once it has repointed a fleet, none is under way during a closing. The code checks none of these |
| `BoardProofs` | `TypeCorrect`, `UniqueIds`, `NeverAskedTwice` | `TypeOK`, `IdsAreUnique`, `NothingAskedTwice` | `NoTornLines`: no crash cuts a line short |
| `RelayProofs` | `TypeCorrect`, `RunsOnceAlways`, `AskedOnce`, `NumbersDiffer` | `TypeOK`, `RunsOnce`, `OneAskAtATime`, `CardsDiffer` | |
| | `WritesAsAllowed` | `OneRunPerYes` | `OneAsker`: no two controllers are asked for writes; and no controller dies between using a grant and spending it (`DiesUnspent`) |
| `OutboxProofs` | `TypeCorrect`, `AlwaysWatched` | `TypeOK`, `SomeoneWatches` | |
| | `NeverTypedTwice`, `NoMessageDenied` | `TypedOnce`, `NoFalseAlarm` | `FilesAreSaved`: the outbox's file can be written |
| | `NothingLost` | `NothingSwallowed` | no fault |
| `ServingProofs` | `TypeCorrect` | `TypeOK` | |
| | `FilesStayItsOwn` | `FilesAreItsOwn`: a daemon that serves holds the lock, and socket, pid file, record and stamp are its own | nobody sweeps late |
| | `BettersOnly` | `RetiredByItsBetters`: whoever has a daemon stand down is a better build, or had waited out the stamp before and reached it between bind and stamp | `Orderly`: no fault but a daemon gone before it is seen |
| | `StrangersSafe` | `StrangersLeftAlone` | `Orderly` |
| | `RevivalTypeCorrect` | `RevivalTypeOK` of `Revival` | |
| | `AnswersAreTrue` | `AnsweredTruthfully` of `Revival` | `BridgesHold`: no launch of a number that is taken is lost before it began |
| | `OneChildAtMost`, `NoneForgotten`, `NothingComesBack`, `IdentityKept` | `OneChild`, `NothingForgotten`, `DeletedStaysDeleted`, `SameIdentity` of `Revival` | `Calm`: of the mishaps of §6 only lost bridges and launches that fail once greeted; the first, second and last hold until the first such failure, the third where there is none |
| `LeaseProofs` | `TypeCorrect`, `SkippedNever` | `TypeOK`, `NothingSkipped` | `RoundsEnd`: no dashboard is closed while a round is out. Boards may be unreadable |
| | `OneAnswer` | `SpokenOnce` | `Faults = {}`, and `LongEnough`: a claim settles for two ticks or more, a lease is refreshed with three left or more |
| `BackupProofs` | `TypeCorrect` | `TypeOK` | |
| | `NothingIsMissing`, `CopiesStayExact` | `NothingMissing`, `CopiesAreExact` | `Guarded`: no lost connection is taken for the end of a file, no dashboard is closed between a pairing that moves and the index |

Properties in this table that no run names were checked by TLC before they were
proved, and are left to the proof since: `NoGapNoOverlap`, `ExitComesLast`,
`NobodyIsLeftUntold`, `OneAskAtATime`, `CardsDiffer`,
`SomeoneWatches`, `FilesAreItsOwn` and the types.

Each module proves `Spec => []IInv`, for an invariant that a step preserves, or
several in turn that each rest on the one before, and draws the rest from it.

* **Keeper.** The properties are not inductive: `NoGapNoOverlap` needs to know
  what the slot's client has compared with the history, which depends on who holds
  the lock (`LockInv`, `SplitInv`); that a client being greeted is new to the keeper
  (`GreetInv`); that after end of file nothing more comes (`ExitInv`). From there a
  client told has everything, and a client installed while the reader checks has
  been told by its greeting (`ToldInv`). `DoneInv` ties `claimed` to the spawner.
  The refinement maps every action to a step of the transcript or to none.
* **Streams** (second half of `KeeperProofs`, which extends both modules; names that
  both have carry this module's name here, as in `StreamsNext`). Frames on their way
  are part of a window and of an upload, so the proofs count them by kind and
  stream: one more at the end of the queue, or one less at its front, changes one
  count by one (`Counted`, `CountedOff`). A window is whole when it is opened only
  if nothing of that stream was about before, which takes the order of the queue:
  what opens a stream is its first frame and comes once (`OrderInv`, `FreshInv`). An
  upload's data in hand, on its way and missing balance while the loop reads
  (`UploadInv`), and behind the frame that closes a stream there is only credit, so
  an upload closed with nothing missing has all of it (`LandedInv`). A failing sync or
  rename ends the loop, so that it happens once. Neither needs an assumption on the
  peers or on wake-ups: those are about liveness.
* **Adoption.** What protects a running session is that everything a reader can
  hear has a cause: an exit only after the child died, a cut only when the keeper
  went or this daemon had been told to stand down (`StreamInv`). With it handles
  and record cannot say dead (`HandleInv`, `RecordInv`), given at most one daemon
  under the lock (`LockInv`) and nothing else at work during a launch (`LaunchInv`,
  `BirthInv`). That a delete is for good rests on who may still write a record: daemons
  serve in turn (`TurnInv`), nobody has anything of a session whose launch is not
  over but the launch (`FirstInv`), and no daemon younger than one that deleted
  the session has anything of it (`GoneInv`).
* **Lineage** (second half of `AdoptionProofs`, named in the same way). The two
  properties are one: of the records of a conversation only the last runs
  (`LastInv`), has sessions under it (`ParentInv`), or is what a launch goes on from
  (`SeedInv`, `FromInv`). A launch by number takes the last record, since `Known`
  has none later; a launch under a new number finds the newest that has stopped,
  and if a later one runs, the newest is marked with that one and no other
  (`MarkInv`), so the launch ends there. Numbers are not used again, which keeps a
  mark to a deleted record from ever leading to another conversation. Without
  the assumption TLC refutes them: an older record gone on from breaks `OnePlace`,
  a failure after the repointing `FleetFollows`, a launch under a closing both, a new
  number for a conversation that runs `OnePlace`.
* **Board.** One fact carries it (`Accounted`): after any step each message held
  before is held or below the mark, and marks do not fall. So the highest number a
  machine knows of its own never falls and bounds every number anywhere (`OwnInv`),
  which makes the next one new, and the vector never falls. `MarkInv` says why a
  restart keeps this: the mark is in the header when no line is left to show it.
* **Relay.** A call is in one place at a time: in the queue, in one round, or done
  with (`CallInv`), and the stage of a round says whether it was run (`StageInv`).
  `AskInv` and `CardInv` bound the numbers of a ledger by the last one given out.
  `OneRunPerYes` is a matter of counting: the runs a write had and the one a grant
  still allows are never more than the cards it was granted on (`BudgetInv`),
  since a grant is given with the settling of one card (`NoteInv`) and taken with
  the run it lets through (`GateInv`), unless it stands for good (`StandInv`).
  With two controllers asked, a reply meant for a card of one settles that of the
  other, a number being all it carries (§6), and the count fails.
* **Outbox.** `WatchInv` adds to the flag who may be about to look. `Placed` says
  where a message can be at each stage of its request and how often it was typed
  by then: in the queue it was not typed, out of the queue the file lacks it.
* **Serving.** Files belong to the daemon under the lock from the step that writes
  them to the guard's (`LockInv`). That nobody is stopped in another's place needs
  what a client that asks or stops knows of the daemon it means (`AskInv`,
  `StopInv`), and what a number in the pid file can stand for (`PidInv`). A client about to ask
  reads a stamp that is the daemon's own, since it waited, or is on record as having
  taken that daemon for the one before (`AskInv`).
* **Revival** (second half of `ServingProofs`). Under every mishap, whoever looks after
  a handle finds its record and a launch behind the gate has a request and a keeper
  (`SoundInv`), which is what the types need; and nothing is on record before the
  client that made the number up was served, while how far a client has come says
  whether its launch was begun (`BeganInv`), which makes its answers true. The rest
  follows a keeper: one at work is always in one of three hands, of the launch that
  started it, of the map, or of whoever puts its session down (`KeeperInv`,
  `JobInv`, `DownInv`). A launch takes the number when it finds it in none, since it
  waits for a keeper whose child is condemned or has ended to leave, so there is
  never a second; and a handle that is connected is connected to its own keeper
  (`HandleInv`, `MapInv`). The record goes through hands likewise: map, archive, or
  the launch that took it, and the file agrees with whichever has it (`FileInv`);
  what a launch took is what it would put back, and what it writes belongs to the
  same conversation (`TookInv`). All of it is kept by every step but a launch that
  fails late, which is a step no later one takes back (`LateStays`). The other
  mishaps break it where they bite: with TLC,
  one at a time on two runs and two daemons, `OneChild` fails with "old keeper
  lingers", "deleted under a launch", "killed as a keeper starts" and "slow keeper";
  `NothingForgotten` with "old keeper lingers", "archive overlaps", "deleted under a
  launch" and "fails over a live entry"; `DeletedStaysDeleted` with "old keeper
  lingers", "archive overlaps" and "deleted under a launch"; `AnsweredTruthfully` with "bridge lost under a revival".
* **Lease.** A worker past its read, and no other, has messages in hand
  (`HandInv`); what a dashboard marks handled was dealt with (`HandledInv`); and
  every cursor anyone may resume at, in a note, an inbox, or the copy of a round,
  passes over nothing else (`CursorInv`). `SpokenOnce` needs a second invariant,
  `OneVoice`, since a dashboard decides on a board as old as its round and may act
  on the decision later still. Of two that hold the account, whoever reads has a
  lease that has settled and comes first, and nobody else reads or is about to
  claim (`VoiceInv`). That nobody else can come to read is a matter of time: a lease is
  refreshed with more than a round to spare, by its holder or by the one it gave
  way to (`FirmInv`), so whoever decides sees every lease that lives, except one
  posted since its round began (`ViewInv`); and such a one has not settled, nor
  has the own lease of who decides. So a decision to read sees all rivals. That the one who reads
  next does not read again what was read takes the cursors: notes are
  ordered by time and cursor alike (`Sorted`), who reads has the newest cursor
  (`ReadingInv`), which whoever decides sees too or else sees a lease it gives way
  to (`SeenInv`), and a lease that settles carries it or comes after one that has
  settled (`LeadInv`). What was answered is then below a cursor of some note
  (`AnswerInv`) and in nobody's batch (`BatchInv`). The code's 10 s and 15 s are
  exactly two and three rounds of five seconds; with `Settle = 1`, or with
  `Refresh = 2`, TLC finds the property violated, so there is no margin in either.
* **Backup.** `Good` says what a record claims of its copies given the files as
  they are. The records of the pass are good (`PassInv`), and so are those on disk
  unless a pairing has moved (`DiskInv`), though the pass writes to copies both
  describe: record and record on disk claim the same until both copies are written
  (`LinkInv`), and what was read is at least as new and as long as what the record
  has (`StageInv`). A file that grows or is rewritten breaks no claim of a record
  taken before (`GoodAsFilesChange`). For `CopiesAreExact`: a capture
  counts on to where its record says (`CaptureInv`), and so do both copies of a
  transcript, in order and of one version, as the record on disk describes them
  (`DiskExact`) and as the records of the pass do (`PassExact`), which differ only
  where the pass has written already. A pass cut short marks those it wrote to as
  `slid` and `spoilt`, as do a log that grows while it is paged and a write that
  fails; a transcript is sound again when its file is next taken whole.

Existence of a maximum in a finite set is proved from well-foundedness of strict
inclusion (`FirstElement`), since the library's induction theorems take an
operator as a parameter, which the provers here cannot instantiate.

Only model-checked: every liveness property (fairness and `ENABLED` are beyond
the prover), and `FleetClosed` of `Lineage`, which is about an order computed by
recursion over generations. The modules have no recursive operator.

## 6. What the checks found

What follows are statements of the code's comments, or promises one would make
for it, that its steps do not keep. Each is reproduced either by a configuration
named here or by one change to the configuration of a run: the constant `Faults`
(`Mishaps`), or the property.

**Sessions**

* `KeeperParks.cfg` (`NeverParks`, `keeper.rs:524`): `claim()` after the relay lock
  is released can clear an orphaned mark set in between, and the keeper waits for a
  client for ever with a dead child. Needs a client that hangs up while greeted.
* `KeeperKill.cfg` (`KillEndsTheChild`, `keeper.rs:443`): a child that closes its
  terminal and runs on cannot be killed by a KILL frame: the reader waits for it
  under the mutex KILL needs.
* `AdoptionTemporary.cfg` (`TakenOverOnRecord`, `daemon.rs:5393`): the reader of a
  daemon that hands over removes the record and scratch folder of a temporary
  session the next daemon is serving.
* `Adoption` with `SlowKeeper` (`daemon.rs:4744`): a keeper that comes up after its
  launch stopped waiting is a keeper nothing knows about. `Revival` has the same
  case as "slow keeper", and as "killed as a keeper starts" that of a daemon killed
  before the keeper it started has its socket: `OneChild` fails with either.
* `Revival` with "bridge lost under a revival" (`AnsweredTruthfully`,
  `bridge.rs:2796-2810`): a launch lost before it began is looked up by its number;
  the list has the archive in it, so a revival is answered with the archived
  record, and nothing was started. The comment says that a session being there
  afterwards "means the first attempt did land".
* `Revival` with "old keeper lingers" (`daemon.rs:4946`): a session that was
  archived or died counts as over before its keeper has left, and a revival can
  connect to the old keeper (`OneChild`). With "archive overlaps", "deleted under a
  launch" or "fails over a live entry", requests that come between the steps of a
  launch leave a record in no index or in two, or bring a deleted one back
  (`NothingForgotten`, `DeletedStaysDeleted`).
* `RevivalLate.cfg` (`OneChildEvenThen`, `daemon.rs:4775-4777`, `4831`): once the
  keeper has greeted it, a launch can still fail to duplicate the connection or to
  write the record again. The keeper and its child stay. A new session's record
  stays on file and in neither index, a revived one's goes back into the archive;
  the next launch of the number then starts a second child beside the first, where
  `daemon.rs:4411-4414` promises "a refusal or a revival, never a second identity
  for one conversation". `NothingForgotten` and `SameIdentity` end there too, the
  latter because the next request finds nothing and writes over the record, the
  case `daemon.rs:4847-4854` warns of. The run `revival` shows that answers stay
  true, deleted records deleted, and requests answered.
* `LineageRunning.cfg` (`OnePlace`, `daemon.rs:4494`): a launch under a new number is
  looked up among stopped records only (`archived_resume_match`), so that a
  conversation that runs under one number and has no stopped record leading there
  is started again under another, against "one conversation never gets two ids"
  (`daemon.rs:4921-4922`). Two dashboards that reopen a stopped conversation, one by
  its number and one under a new one, are enough: the second waits behind the gate
  until the first has revived it.
* `Lineage` with "older record" (`OnePlace`, `daemon.rs:5064-5082`):
  `resumed_successor` follows one hop, and coming back in place marks none of the
  later numbers. A client that goes on from a record that is not the last starts
  the conversation a second time.
* `Lineage` with "fails after repointing" (`ParentsExist`, `daemon.rs:4653-4664`):
  a launch that fails after `reparent_children` leaves sessions whose parent is a
  number that never existed.
* `Lineage` with "launched under a closing" (`FleetClosed`, `daemon.rs:3754`): a
  launch in hand, or a replacement that a session further down starts when its own
  child dies first, is not on the list and runs on, against `daemon.rs:5216-5220`
  and `3754-3758`.

**Serving**

* `ServingSettled.cfg` (`NeverForItsBetters`, `daemon.rs:8697`): a process remembers
  the stamp it has waited out, and believes it at once when it reads it again,
  whichever daemon it is connected to then. If the daemon of that stamp has made
  way and its successor has bound and not stamped yet, the process takes the
  successor for it and asks it to stand down, be it of the same build or a better
  one, against "Never for one that outranks it" (`daemon.rs:8775-8778`). No fault is
  needed. `RetiredByItsBetters` and `BettersOnly` say that nothing else leads there.
* With "swept late" (`FilesAreItsOwn`, `daemon.rs:9071`): a client that saw nobody
  serving removes the socket and pid file of the daemon that came since.
* With "stopped for another" (`StrangersLeftAlone`, `daemon.rs:9037`): a client
  that means one daemon reads the pid file of the next, or of a stranger.
* "two ask at once", "stamped late", "killed unrecorded", "signalled late" and
  "gone before seen" admit two callers that take each other for a daemon, a stamp
  slower than the tenth of a second it is waited for, a kill between pid file and
  record, a number that changes hands between check and signal, and a daemon that
  comes and goes between two looks.

**Messages, boards, relay**

* `BoardBehind.cfg` (`EveryoneCatchesUp`, `talk.rs:706`): a board that first hears
  of an origin after its oldest messages were dropped never counts past the gap,
  and is sent the same batch in each round until its daemon restarts.
  `board_catch_up` therefore holds only while nothing is dropped.
* `BoardTorn.cfg` (`IdsAreUnique`, `talk.rs:1244`): a line cut short swallows the
  next record, whose number is then given away again.
* `RelayVerdicts.cfg` (`OneRunPerYes`, `channel.rs:3243`): asks are numbered by
  each controller, and a reply in chat names its ask by the number alone. With two
  controllers' asks of one number open, the yes to one runs the other's write.
  `relay` therefore has one controller that asks.
* `Relay` with `DiesUnspent` (`relay.rs:917`): a controller that dies between
  running a write and spending its grant leaves the grant to a second run.
* `Outbox` with "stops mid-delivery" (`NothingSwallowed`, `daemon.rs:1399`): a
  daemon that stops between saving the queue and typing what it took out loses the
  message, though its sender was told that it waits.
* `StreamsReleased.cfg` (`ReleasedByDisconnect`, `daemon.rs:731-734`): `disconnect`
  stores `closed` and notifies without the credits lock. A pump that looked at
  `closed` (`daemon.rs:710`) and does not wait yet (`daemon.rs:713`) is not woken, no
  credit comes any more, and its thread and socket stay for the life of the daemon,
  where `disconnect` is there to "release any forwarded socket still waiting on
  stream credit" (`daemon.rs:8200-8201`, the bridge's call of the same function).
* `Streams`, property `OneStreamEndsAlone` (`daemon.rs:2826`): a write to one
  forwarded peer that fails ends the loop all streams share, against the comment at
  `daemon.rs:8438`. "peer writes before it reads" admits a peer that reads nothing
  until it has written all: the loop writing to it and the pump reading from it
  then hold each other up for as long as it likes.

**Chat accounts** (`Lease`)

* "closed between two leases" (`SpokenOnce`): a machine that gives way does not
  refresh its own note and reads on, while another that starts decides on an older
  board, with an older cursor: a batch is answered twice although all machines are
  in touch (`channel.rs:2826-2828`).
* "started on an old lease" (`SpokenOnce`): a dashboard restarted while its own
  last note is live reads at once.
* "quit mid-round" (`NothingSkipped`, `SpokenOnce`): a dashboard closed between
  publishing the cursor and dealing with the batch; its successor skips messages
  nobody read, against "a round that is cut short loses nothing"
  (`channel.rs:2614`).
* "slow download" (`SpokenOnce`): an attachment fetched between read and refresh
  takes longer than the note has left.
* `SpokenOnce` also assumes that reads succeed and that machines are in touch. A
  chat that cannot be read skips the refresh; a board that cannot be read, or is not
  there, has the round answer without any election, whoever else does
  (`channel.rs:3318-3341`, "taking account alone"). That a partition doubles answers is
  the code's choice (`channel.rs:2817-2822`). `NothingSkipped` holds over all of these.

**Backup**

* "cut" (`EveryLineIsMirrored`, `bridge.rs:3058-3086`): a connection that is lost
  ends a file for its reader, silently; the mark of the whole file is filed, and
  the rest is not fetched until the file grows.
* "quit as a pairing moves" (`NothingMissing`, `backup.rs:1021`): the copies of the
  old pairing are removed at once and the index is written last; if the dashboard
  is closed in between, the index describes copies that are gone, and the next pass
  has no reason to make them again.
* `TranscriptIsTheFile` of `MCBackup`, against "mirrored byte for byte"
  (`backup.rs:58`): lines appended by a pass that was closed before the index was
  written, or whose second file could not be, are appended again.
* `CaptureIsTheLog`, against "only the delta beyond `ansi_lines_synced` is
  transferred" (`backup.rs:857`): a page is asked for by its distance from the end
  counted before; a session that prints meanwhile has lines left out and others
  copied twice.
* `GoneIsKept`, against "transcript vanished; leave prior backup intact"
  (`backup.rs:1124`): once another file is guessed in its place the copies of the
  vanished one are removed.
* `BackupShared.cfg` (`NoSharedHistory`, `backup.rs:1204-1207`): two sessions the
  daemon left unmatched can come to share a transcript: who goes first changes from
  pass to pass, and a guess is only spoken for within its pass.

## 7. What is not modelled

* Whole parts: those of section 1's second table, and **triggers**, which match
  patterns against the text of a screen, of which the modules keep nothing.
* **Keeper**: RESIZE, temporary sessions' lack of a history, writing to the history
  failing, `accept` failing for another reason than an empty backlog.
* **Adoption**: several sessions (they share only locks held for one step), a keeper
  that needs more than 500 ms to greet an adopting daemon, resize, requests that
  outlive the daemon's lock. `AcceptFails` admits an accept loop that ends on an
  error; `NeverBuriedAlive` fails with it (a daemon that stops so has not set
  `shutdown`), so no run sets it.
* **Board**: readers and their cursors, scopes, the duplicate check of `post`, the
  second log for muxloom's own traffic (another origin with its own limits), files
  that cannot be written, a request delivered after its round gave up on it, a
  crash between an append and the rewrite after it, and the double open of
  `daemon.rs:781`. `Troubles` admits clocks that step back; the theorems cover it
  for safety, no run sets it.
* **Relay**: several daemons in one round and several sessions of one controller's
  machine, two controllers over one ledger file (`approvals.rs:214`), a ledger that
  cannot be written, a controller that does not say what it reaches, being attached
  by time, the cap on answered asks kept, and the end of a session's approvals,
  which no caller uses. A job's number begins again with the daemon, and a late
  answer may meet the new job of that number: the steps are there, a property that
  says an answer is its asker's is not.
* **Outbox**: what a prompt looks like on a screen, the pause between two messages
  of a sender, and the notes to the board about what was bounced.
* **Streams**: terminals and requests, which spend no credit; the bridge's own
  forwarding, which has the same shape with the ends exchanged and uses the same
  `StreamFlow`, with the same missed wake-up; a part file that cannot be removed.
* **Serving**: daemons from before the lock or the handover request, Windows,
  provisioning over ssh, and the time a wait takes.
* **Revival, Lineage**: temporary sessions (deleted where others are archived),
  children on other machines, dashboards' own view of what runs before they ask for a
  new number (`MayReopen` stands for it), the history file of a screen, and the matching of a
  launch to a conversation by anything but its name.
* **Lease**: which of the two made a round answer alone, no board or one that cannot
  be read; routing a message to an agent, receipts, the Lark side, the chat
  protocols, clocks that disagree, and a list of handled messages that is cut.
* **Backup**: restoring, searching and reading what is stored; the identity of
  machines; OpenCode's exports; titles; temporary sessions; two dashboards over one
  store; a chunk of which only a part was written; logs that shrink.
