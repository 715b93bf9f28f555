------------------------------- MODULE Streams ------------------------------
(***************************************************************************)
(* The streams that share one connection between a client and a daemon:    *)
(* forwarded TCP connections, downloads and uploads.                       *)
(*                                                                         *)
(* One loop in the daemon reads every frame the client sends, in order,    *)
(* and does on the spot what the frame asks for.  Each connection that is  *)
(* forwarded and each file that is sent has a pump, a thread of its own,   *)
(* which spends credit on every chunk it sends and waits on a condition    *)
(* when there is none.  The client's reader gives back credit for each     *)
(* chunk as it comes in, over the same way as everything else it sends.    *)
(*                                                                         *)
(* Abstracted: bytes are counted in chunks; terminals, whose frames spend  *)
(* no credit, and requests are left out; an open that fails is answered    *)
(* and leaves nothing.  External: the peer a connection is forwarded to.   *)
(***************************************************************************)
EXTENDS Naturals, FiniteSets, Sequences

CONSTANTS
    Streams,
    Kind,           \* "tcp", "download" or "upload"
    Upstream,       \* chunks the client has for each
    Size,           \* chunks the peer or the file has, or the upload is said to have
    Window,         \* INITIAL_STREAM_WINDOW
    Room,           \* what a socket buffers each way
    QueueLimit,     \* WRITE_QUEUE_LIMIT: frames on their way to the daemon
    Faults,         \* a subset of KnownFaults
    MaxOpen         \* BOUND: streams opened

KnownFaults == {"peer writes before it reads"}

ASSUME StreamsAssumption ==
    /\ Streams # {}
    /\ Kind \in [Streams -> {"tcp", "download", "upload"}]
    /\ Upstream \in [Streams -> Nat] /\ Size \in [Streams -> Nat]
ASSUME LimitsAssumption ==
    /\ Window \in Nat \ {0} /\ Room \in Nat \ {0} /\ QueueLimit \in Nat \ {0}
    /\ MaxOpen \in Nat
ASSUME FaultsAssumption == Faults \subseteq KnownFaults

VARIABLES
    client,     \* "here" or "gone"
    holds,      \* each stream at the client: "unopened", "open", "ended", "closed"
    toSend,     \* what the client still has for each
    up,         \* frames on their way to the daemon
    down,       \* chunks of each stream on their way to the client
    goodbye,    \* streams whose last frame to the client is on its way
    loop,       \* serve_client's loop
    at,         \* the stream it is writing to
    subscriptions,
    entries,    \* the streams StreamFlow::credits has an entry for
    credit,     \* and what it says
    closed,     \* StreamFlow::closed
    pump,       \* the pump of each stream
    remaining,  \* what is left of each download or missing of each upload
    temporary, landed,  \* uploads under their temporary and their final name
    shut,       \* sockets the daemon shut down
    peer,       \* the other end of each: "up" or "closed"
    owes,       \* what it still has to write
    inward, outward     \* what its socket holds, each way

clientVars == <<client, holds, toSend, up>>
downVars   == <<down, goodbye>>
loopVars   == <<loop, at, subscriptions>>
flowVars   == <<entries, credit, closed>>
uploadVars == <<temporary, landed>>
farEndVars   == <<peer, owes, inward, outward>>
streamsVars == <<clientVars, downVars, loopVars, flowVars, pump, remaining, uploadVars,
          shut, farEndVars>>

Pump == {"none", "reading", "asking", "about to wait", "waiting", "writing",
         "ended", "failed", "over"}
Holds == {"unopened", "open", "ended", "closed"}
FrameOf(kind, s) == [kind |-> kind, stream |-> s]
Frame == [kind : {"open", "data", "credit", "close"}, stream : Streams]
Here == client = "here"

(***************************************************************************)
(* The client.  A frame is queued while there is room; who waits too long  *)
(* for it gives up, and the connection with it.                            *)
(***************************************************************************)
SendUp(frame) == Len(up) < QueueLimit /\ up' = Append(up, frame)

Open(s) ==
    /\ Here /\ holds[s] = "unopened"
    /\ Cardinality({t \in Streams : holds[t] # "unopened"}) < MaxOpen
    /\ SendUp(FrameOf("open", s))
    /\ holds' = [holds EXCEPT ![s] = "open"]
    /\ UNCHANGED <<client, toSend, downVars, loopVars, flowVars, pump, remaining,
                   uploadVars, shut, farEndVars>>

Write(s) ==
    /\ Here /\ holds[s] = "open" /\ toSend[s] > 0
    /\ SendUp(FrameOf("data", s))
    /\ toSend' = [toSend EXCEPT ![s] = @ - 1]
    /\ UNCHANGED <<client, holds, downVars, loopVars, flowVars, pump, remaining,
                   uploadVars, shut, farEndVars>>

\* Dropping a stream says goodbye, also of one the daemon has ended.
Drop(s) ==
    /\ Here /\ holds[s] \in {"open", "ended"}
    /\ SendUp(FrameOf("close", s))
    /\ holds' = [holds EXCEPT ![s] = "closed"]
    /\ UNCHANGED <<client, toSend, downVars, loopVars, flowVars, pump, remaining,
                   uploadVars, shut, farEndVars>>

\* Credit goes back for every chunk, whether anybody here still reads it or not.
ReadChunk(s) ==
    /\ Here /\ down[s] > 0
    /\ SendUp(FrameOf("credit", s))
    /\ down' = [down EXCEPT ![s] = @ - 1]
    /\ UNCHANGED <<client, holds, toSend, goodbye, loopVars, flowVars, pump, remaining,
                   uploadVars, shut, farEndVars>>

ReadGoodbye(s) ==
    /\ Here /\ down[s] = 0 /\ s \in goodbye
    /\ goodbye' = goodbye \ {s}
    /\ holds' = [holds EXCEPT ![s] = IF @ = "open" THEN "ended" ELSE @]
    /\ UNCHANGED <<client, toSend, up, down, loopVars, flowVars, pump, remaining,
                   uploadVars, shut, farEndVars>>

Leave ==
    /\ Here
    /\ client' = "gone"
    /\ down' = [s \in Streams |-> 0] /\ goodbye' = {}
    /\ UNCHANGED <<holds, toSend, up, loopVars, flowVars, pump, remaining, uploadVars,
                   shut, farEndVars>>

(***************************************************************************)
(* StreamFlow.  A pump that found no credit and the connection not closed  *)
(* holds the lock until it waits.  Whoever opens, adds to or closes an     *)
(* entry takes that lock; disconnect does not, and can come in between.    *)
(***************************************************************************)
LockFree == \A s \in Streams : pump[s] # "about to wait"

\* Every waiting pump looks again.
Woken(pumps) == [s \in Streams |-> IF pumps[s] = "waiting" THEN "asking" ELSE pumps[s]]

FlowOpen(s) ==
    entries' = entries \cup {s} /\ credit' = [credit EXCEPT ![s] = Window]

FlowAddTwice(s) ==
    /\ credit' = [credit EXCEPT ![s] = IF s \in entries THEN @ + 2 ELSE @]
    /\ pump' = IF s \in entries THEN Woken(pump) ELSE pump
FlowAddQuietly(s) ==
    credit' = [credit EXCEPT ![s] = IF s \in entries THEN @ + 1 ELSE @] /\ UNCHANGED pump

FlowAdd(s) ==
    /\ credit' = [credit EXCEPT ![s] = IF s \in entries THEN @ + 1 ELSE @]
    /\ pump' = IF s \in entries THEN Woken(pump) ELSE pump

(***************************************************************************)
(* The loop that reads the client's frames.                                *)
(***************************************************************************)
ReadsFrame(kind, s) ==
    /\ loop = "reading" /\ up # <<>>
    /\ Head(up) = FrameOf(kind, s)
    /\ up' = Tail(up)

OnOpen(s) ==
    /\ ReadsFrame("open", s) /\ LockFree
    /\ \/ /\ Kind[s] = "upload"
          /\ subscriptions' = subscriptions \cup {s}
          /\ temporary' = temporary \cup {s}
          /\ UNCHANGED <<entries, credit, pump>>
       \/ /\ Kind[s] = "tcp"
          /\ subscriptions' = subscriptions \cup {s}
          /\ FlowOpen(s) /\ pump' = [pump EXCEPT ![s] = "reading"]
          /\ UNCHANGED temporary
       \/ /\ Kind[s] = "download"
          /\ FlowOpen(s) /\ pump' = [pump EXCEPT ![s] = "reading"]
          /\ UNCHANGED <<subscriptions, temporary>>
    /\ UNCHANGED <<client, holds, toSend, downVars, loop, at, closed, remaining, landed,
                   shut, farEndVars>>

OnCredit(s) ==
    /\ ReadsFrame("credit", s) /\ LockFree
    /\ FlowAdd(s)
    /\ UNCHANGED <<client, holds, toSend, downVars, loopVars, entries, closed, remaining,
                   uploadVars, shut, farEndVars>>

\* More than an upload was said to have is an error, and so is a write to its file
\* that fails; an error ends the loop.
OnData(s) ==
    /\ ReadsFrame("data", s)
    /\ \/ /\ s \in subscriptions /\ Kind[s] = "tcp"
          /\ loop' = "writing" /\ at' = s
          /\ UNCHANGED remaining
       \/ /\ s \in subscriptions /\ Kind[s] = "upload"
          /\ IF remaining[s] > 0
               THEN remaining' = [remaining EXCEPT ![s] = @ - 1] /\ UNCHANGED loop
               ELSE loop' = "leaving" /\ UNCHANGED remaining
          /\ UNCHANGED at
       \/ /\ s \in subscriptions /\ Kind[s] = "upload" /\ remaining[s] > 0
          /\ loop' = "leaving" /\ UNCHANGED <<at, remaining>>
       \/ s \notin subscriptions /\ UNCHANGED <<loop, at, remaining>>
    /\ UNCHANGED <<client, holds, toSend, downVars, subscriptions, flowVars, pump,
                   uploadVars, shut, farEndVars>>

\* write_all waits for the peer to make room, and nothing else the client sent
\* is read meanwhile.  What is written to a peer that is gone is lost, or fails,
\* and the failure ends the loop.
WriteToPeer ==
    /\ loop = "writing"
    /\ \/ /\ peer[at] = "up" /\ inward[at] < Room
          /\ inward' = [inward EXCEPT ![at] = @ + 1]
          /\ loop' = "reading"
       \/ peer[at] = "closed" /\ loop' \in {"reading", "leaving"} /\ UNCHANGED inward
    /\ UNCHANGED <<clientVars, downVars, at, subscriptions, flowVars, pump, remaining,
                   uploadVars, shut, peer, owes, outward>>

Land(s) ==
    landed' = landed \cup {s} /\ temporary' = temporary \ {s} /\ UNCHANGED loop

ActivateAny(s) == Land(s)
\* An upload that is whole gets its name, unless it cannot be put on the disk or
\* cannot be renamed: it has left `subscriptions' by then, and stays under its
\* temporary name.  One cut short is removed.  Both are errors, and end the loop.
Activate(s) ==
    \/ /\ remaining[s] = 0
       /\ Land(s) \/ (loop' = "leaving" /\ UNCHANGED uploadVars)
    \/ /\ remaining[s] # 0
       /\ loop' = "leaving" /\ temporary' = temporary \ {s} /\ UNCHANGED landed

OnClose(s) ==
    /\ ReadsFrame("close", s)
    /\ subscriptions' = subscriptions \ {s}
    /\ IF s \in subscriptions /\ Kind[s] = "upload"
         THEN Activate(s)
         ELSE UNCHANGED <<loop, uploadVars>>
    /\ shut' = IF s \in subscriptions /\ Kind[s] = "tcp" THEN shut \cup {s} ELSE shut
    /\ UNCHANGED <<client, holds, toSend, downVars, at, flowVars, pump, remaining, farEndVars>>

\* The end of the connection: what is open is cleaned up, then the pumps told.
EndOfFrames ==
    /\ loop = "reading" /\ ~Here /\ up = <<>>
    /\ loop' = "leaving"
    /\ UNCHANGED <<clientVars, downVars, at, subscriptions, flowVars, pump, remaining,
                   uploadVars, shut, farEndVars>>

CleanUpNothing ==
    /\ loop = "leaving"
    /\ loop' = "cleaned" /\ subscriptions' = {}
    /\ UNCHANGED <<clientVars, downVars, at, flowVars, pump, remaining, uploadVars,
                   shut, farEndVars>>
CleanUp ==
    /\ loop = "leaving"
    /\ loop' = "cleaned" /\ subscriptions' = {}
    /\ temporary' = temporary \ subscriptions
    /\ shut' = shut \cup {s \in subscriptions : Kind[s] = "tcp"}
    /\ UNCHANGED <<clientVars, downVars, at, flowVars, pump, remaining, landed, farEndVars>>

\* It stores and notifies without the lock: a pump between its look at `closed'
\* and its wait hears nothing of this, and nothing comes after it.
Disconnect ==
    /\ loop = "cleaned"
    /\ loop' = "over" /\ closed' = TRUE
    /\ pump' = Woken(pump)
    /\ UNCHANGED <<clientVars, downVars, at, subscriptions, entries, credit, remaining,
                   uploadVars, shut, farEndVars>>

\* Every pump holds the way to the client; it closes with the last of them.
Idle(s) == pump[s] \in {"none", "over"}
CloseConnection ==
    /\ loop = "over" /\ Here /\ \A s \in Streams : Idle(s)
    /\ client' = "gone"
    /\ down' = [s \in Streams |-> 0] /\ goodbye' = {}
    /\ UNCHANGED <<holds, toSend, up, loopVars, flowVars, pump, remaining, uploadVars,
                   shut, farEndVars>>

(***************************************************************************)
(* The pumps.                                                              *)
(***************************************************************************)
Moves(s, from, to) == pump[s] = from /\ pump' = [pump EXCEPT ![s] = to]

\* stream_tcp reads first and then asks for what it has read.
ReadSocket(s) ==
    /\ Kind[s] = "tcp"
    /\ \/ /\ outward[s] > 0 /\ Moves(s, "reading", "asking")
          /\ outward' = [outward EXCEPT ![s] = @ - 1]
       \/ /\ s \in shut \/ (peer[s] = "closed" /\ outward[s] = 0)
          /\ Moves(s, "reading", "ended")
          /\ UNCHANGED outward
    /\ UNCHANGED <<clientVars, downVars, loopVars, flowVars, remaining, uploadVars, shut,
                   peer, owes, inward>>

NextPastTheEnd(s) ==
    /\ Kind[s] = "download"
    /\ Moves(s, "reading", "asking")
    /\ UNCHANGED <<clientVars, downVars, loopVars, flowVars, remaining, uploadVars, shut,
                   farEndVars>>
\* stream_file asks for what it is going to read.
NextOfFile(s) ==
    /\ Kind[s] = "download"
    /\ Moves(s, "reading", IF remaining[s] > 0 THEN "asking" ELSE "ended")
    /\ UNCHANGED <<clientVars, downVars, loopVars, flowVars, remaining, uploadVars, shut,
                   farEndVars>>

Consume(s) ==
    /\ pump[s] = "asking" /\ LockFree
    /\ IF s \in entries /\ credit[s] > 0
         THEN /\ credit' = [credit EXCEPT ![s] = @ - 1]
              /\ Moves(s, "asking", "writing")
         ELSE /\ Moves(s, "asking", IF closed THEN "failed" ELSE "about to wait")
              /\ UNCHANGED credit
    /\ UNCHANGED <<clientVars, downVars, loopVars, entries, closed, remaining, uploadVars,
                   shut, farEndVars>>

StartWaiting(s) ==
    /\ Moves(s, "about to wait", "waiting")
    /\ UNCHANGED <<clientVars, downVars, loopVars, flowVars, remaining, uploadVars, shut,
                   farEndVars>>

\* The file may have got shorter: what was asked for is then not given back.
FileIsShort(s) ==
    /\ Kind[s] = "download" /\ Moves(s, "writing", "ended")
    /\ UNCHANGED <<clientVars, downVars, loopVars, flowVars, remaining, uploadVars, shut,
                   farEndVars>>

WriteChunk(s) ==
    /\ Moves(s, "writing", IF Here THEN "reading" ELSE "failed")
    /\ down' = [down EXCEPT ![s] = IF Here THEN @ + 1 ELSE @]
    /\ remaining' = [remaining EXCEPT ![s] =
          IF Here /\ Kind[s] = "download" THEN @ - 1 ELSE @]
    /\ UNCHANGED <<clientVars, goodbye, loopVars, flowVars, uploadVars, shut, farEndVars>>

\* The pump that ended says goodbye, the one that failed does not; the entry goes.
PumpEnds(s) ==
    /\ LockFree
    /\ Moves(s, "ended", "over") \/ Moves(s, "failed", "over")
    /\ goodbye' = IF Here /\ pump[s] = "ended" THEN goodbye \cup {s} ELSE goodbye
    /\ entries' = entries \ {s}
    /\ UNCHANGED <<clientVars, down, loopVars, credit, closed, remaining, uploadVars, shut,
                   farEndVars>>

(***************************************************************************)
(* The peer of a forwarded connection.  It answers each chunk with another *)
(* on top of what it has, and may read only when it has nothing to write.  *)
(***************************************************************************)
PeerReads(s) ==
    /\ peer[s] = "up" /\ inward[s] > 0
    /\ "peer writes before it reads" \in Faults => owes[s] = 0
    /\ inward' = [inward EXCEPT ![s] = @ - 1]
    /\ owes' = [owes EXCEPT ![s] = @ + 1]
    /\ UNCHANGED <<clientVars, downVars, loopVars, flowVars, pump, remaining, uploadVars,
                   shut, peer, outward>>

PeerWrites(s) ==
    /\ peer[s] = "up" /\ owes[s] > 0 /\ outward[s] < Room
    /\ pump[s] # "none"
    /\ owes' = [owes EXCEPT ![s] = @ - 1]
    /\ outward' = [outward EXCEPT ![s] = @ + 1]
    /\ UNCHANGED <<clientVars, downVars, loopVars, flowVars, pump, remaining, uploadVars,
                   shut, peer, inward>>

\* It may close when it will, and does once it sees the connection shut.
PeerCloses(s) ==
    /\ Kind[s] = "tcp" /\ peer[s] = "up" /\ pump[s] # "none"
    /\ peer' = [peer EXCEPT ![s] = "closed"]
    /\ UNCHANGED <<clientVars, downVars, loopVars, flowVars, pump, remaining, uploadVars,
                   shut, owes, inward, outward>>

StreamsInit ==
    /\ client = "here" /\ holds = [s \in Streams |-> "unopened"]
    /\ toSend = Upstream /\ up = <<>>
    /\ down = [s \in Streams |-> 0] /\ goodbye = {}
    /\ loop = "reading" /\ at = (CHOOSE s \in Streams : TRUE)
    /\ subscriptions = {}
    /\ entries = {} /\ credit = [s \in Streams |-> 0] /\ closed = FALSE
    /\ pump = [s \in Streams |-> "none"]
    /\ remaining = Size
    /\ temporary = {} /\ landed = {} /\ shut = {}
    /\ peer = [s \in Streams |-> "up"]
    /\ owes = [s \in Streams |-> IF Kind[s] = "tcp" THEN Size[s] ELSE 0]
    /\ inward = [s \in Streams |-> 0] /\ outward = [s \in Streams |-> 0]

LoopStep == \/ \E s \in Streams : OnOpen(s) \/ OnCredit(s) \/ OnData(s) \/ OnClose(s)
            \/ WriteToPeer \/ EndOfFrames \/ CleanUp \/ Disconnect \/ CloseConnection
PumpStep(s) == \/ ReadSocket(s) \/ NextOfFile(s) \/ Consume(s) \/ StartWaiting(s)
               \/ FileIsShort(s) \/ WriteChunk(s) \/ PumpEnds(s)
ReaderStep(s) == ReadChunk(s) \/ ReadGoodbye(s)

StreamsNext ==
    \/ \E s \in Streams : \/ Open(s) \/ Write(s) \/ Drop(s) \/ ReaderStep(s)
                          \/ PumpStep(s)
                          \/ PeerReads(s) \/ PeerWrites(s) \/ PeerCloses(s)
    \/ Leave \/ LoopStep

StreamsSpec == StreamsInit /\ [][StreamsNext]_streamsVars

\* The daemon's threads and the client's reader run on; the peer reads what it
\* may and writes what it has. Nobody has to open, write, drop, close or leave.
StreamsFairness ==
    /\ WF_streamsVars(LoopStep)
    /\ \A s \in Streams :
          /\ WF_streamsVars(PumpStep(s)) /\ WF_streamsVars(ReaderStep(s))
          /\ WF_streamsVars(PeerReads(s)) /\ WF_streamsVars(PeerWrites(s))

StreamsFairSpec == StreamsSpec /\ StreamsFairness
(***************************************************************************)
(* Properties.                                                             *)
(***************************************************************************)
UnderWay(frame) == Cardinality({i \in DOMAIN up : up[i] = frame})
CreditsUnderWay(s) == UnderWay(FrameOf("credit", s))
Spent(s) == IF pump[s] = "writing" THEN 1 ELSE 0

\* Every variable keeps its type, and only what was opened is pumped or held.
StreamsTypeOK ==
    /\ client \in {"here", "gone"} /\ holds \in [Streams -> Holds]
    /\ toSend \in [Streams -> Nat] /\ up \in Seq(Frame)
    /\ down \in [Streams -> Nat] /\ goodbye \in SUBSET Streams
    /\ loop \in {"reading", "writing", "leaving", "cleaned", "over"} /\ at \in Streams
    /\ subscriptions \in SUBSET Streams
    /\ entries \in SUBSET Streams /\ credit \in [Streams -> Nat] /\ closed \in BOOLEAN
    /\ pump \in [Streams -> Pump] /\ remaining \in [Streams -> Nat]
    /\ temporary \in SUBSET Streams /\ landed \in SUBSET Streams
    /\ shut \in SUBSET Streams
    /\ peer \in [Streams -> {"up", "closed"}] /\ owes \in [Streams -> Nat]
    /\ inward \in [Streams -> Nat] /\ outward \in [Streams -> Nat]
    /\ Len(up) <= QueueLimit

\* While the client is there, a stream's window is never more and never less
\* than whole: what is left of it, the chunk its pump has spent for, the chunks
\* on their way and the credit on its way back (daemon.rs:684-735,
\* bridge.rs:1434-1439). A chunk that is counted twice overruns the client; one
\* that is lost stops the stream for good after a window of them.
CreditConserved ==
    \A s \in entries :
        Here /\ pump[s] \notin {"ended", "failed", "over"} =>
            credit[s] + Spent(s) + down[s] + CreditsUnderWay(s) = Window

\* All that was announced of an upload, and no more, was sent and came in.
Whole(s) == Upstream[s] - toSend[s] = Size[s] /\ remaining[s] = 0

\* A file gets its name only when it is whole, and never has both its names. When
\* the connection is cleaned up no part of a file is left: what is under a
\* temporary name is whole, one whose last step failed, and that failure was the
\* end of the loop, so it is one file at most (daemon.rs:2971-3031).
UploadsAllOrNothing ==
    /\ \A s \in landed : Whole(s)
    /\ temporary \cap landed = {}
    /\ loop \in {"cleaned", "over"} =>
          /\ \A s \in temporary : Whole(s)
          /\ \A s, t \in temporary : s = t

\* The disconnect came between the pump's look and its wait.
MissesIt(s) == closed /\ pump[s] = "about to wait"

\* No pump waits for ever for credit: it comes back, or the connection ends, unless
\* the pump is the one that misses the disconnect (daemon.rs:704-735).
NoPumpWaitsForEver ==
    \A s \in Streams : []~MissesIt(s) => (pump[s] = "waiting" ~> pump[s] # "waiting")

\* A stream the client has closed, or whose client has gone, comes to its end with
\* its thread, its socket and its entry, if its pump is not the one that misses the
\* disconnect, whatever becomes of the others' (daemon.rs:2848-2851).
PumpsEnd ==
    \A s \in Streams : []~MissesIt(s) => ((~Here \/ holds[s] = "closed") ~> Idle(s))

\* What disconnect is for: "Release any forwarded socket still waiting on stream
\* credit the client will now never send" (daemon.rs:8200-8201).
ReleasedByDisconnect ==
    \A s \in Streams : closed /\ pump[s] = "waiting" ~> pump[s] # "waiting"

\* The end of one stream is not the end of the connection it shares
\* (daemon.rs:8438-8439).
OneStreamEndsAlone == [][loop' = "leaving" => ~Here]_loop

=============================================================================
