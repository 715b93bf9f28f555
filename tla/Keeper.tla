------------------------------- MODULE Keeper -------------------------------
(***************************************************************************)
(* The process that owns one session: src/src/keeper.rs.                   *)
(*                                                                         *)
(* A keeper holds a child's PTY for as long as the child lives and serves  *)
(* one client at a time, the daemon generation that currently serves the   *)
(* machine.  Three kinds of thread share its state: the reader, which      *)
(* drains the PTY and then waits for the child; the accept loop, which     *)
(* greets clients; and one thread per greeted client, which obeys it.      *)
(*                                                                         *)
(* One action is what a thread does between two points where another       *)
(* thread can act.  The relay mutex is the variable lock, since the reader *)
(* and the accept loop hold it across several writes; the other mutexes    *)
(* guard single steps, except the child's, which the reader holds while it *)
(* waits (readerPc = "wait").                                              *)
(*                                                                         *)
(* Output is counted in PTY chunks: the n-th chunk the child writes is n.  *)
(* The RESIZE frame, which touches only the terminal's size, temporary     *)
(* sessions, which keep no history, and accept(2) failing for another      *)
(* reason than an empty backlog are left out.                              *)
(***************************************************************************)
EXTENDS Integers, Sequences

CONSTANTS
    Connections,   \* every connection made to the keeper's socket
    Spawner,       \* the connection of the daemon that started the keeper
    None,          \* an empty client slot
    MaxOutput,     \* bound: PTY chunks the child writes
    MaxRequests    \* bound: frames one client sends

ASSUME ConnectionsAssumption ==
    /\ Spawner \in Connections
    /\ None \notin Connections

ASSUME BoundsAssumption == MaxOutput \in Nat /\ MaxRequests \in Nat

VARIABLES
    \* The child and its terminal.
    alive,      \* the child has not exited
    ttyOpen,    \* some process still holds the terminal
    written,    \* chunks written to the terminal
    \* KeeperState and its Relay.
    lock,       \* who holds the relay mutex across steps
    slot,       \* Relay.client: the connection output is forwarded to
    history,    \* Relay.history_bytes, in chunks: the file holds 1..history
    exitCode,   \* KeeperState.exit_code is set
    claimed,    \* FirstClient.claimed
    orphaned,   \* FirstClient.orphaned_at is set
    done,       \* KeeperState.done
    \* The threads.
    readerPc, acceptPc, accepting, threadPc,
    \* The connections.
    link,       \* "new", "open" or "shut"; a write succeeds while it is open
    backlog,    \* connected and not yet accepted
    requests,   \* frames each client sent, unread
    sent,       \* how many frames each client has sent
    greeted,    \* the HELLO was written
    base,       \* the history_bytes that HELLO carried
    data,       \* the DATA frames written after it, by chunk
    told        \* EXITED was written

childVars  == <<alive, ttyOpen, written>>
relayVars  == <<lock, slot, history>>
exitVars   == <<exitCode, claimed, orphaned, done>>
streamVars == <<greeted, base, data, told>>
peerVars   == <<backlog, requests, sent>>
vars == <<childVars, relayVars, exitVars, readerPc, acceptPc, accepting,
          threadPc, link, peerVars, streamVars>>

Requests == {"DATA", "KILL", "QUIT", "PING"}

HasClient == slot # None
Writable(c) == c # None /\ link[c] = "open"

Init ==
    /\ alive = TRUE /\ ttyOpen = TRUE /\ written = 0
    /\ lock = "free" /\ slot = None /\ history = 0
    /\ exitCode = FALSE /\ claimed = FALSE /\ orphaned = FALSE /\ done = FALSE
    /\ readerPc = "reading" /\ acceptPc = "poll" /\ accepting = None
    /\ threadPc = [c \in Connections |-> "none"]
    /\ link = [c \in Connections |-> "new"]
    /\ backlog = {}
    /\ requests = [c \in Connections |-> <<>>]
    /\ sent = [c \in Connections |-> 0]
    /\ greeted = [c \in Connections |-> FALSE]
    /\ base = [c \in Connections |-> 0]
    /\ data = [c \in Connections |-> <<>>]
    /\ told = [c \in Connections |-> FALSE]

(***************************************************************************)
(* The child.  It may exit before or after its terminal closes: a process  *)
(* it started can keep the terminal open, and it can close its own.        *)
(***************************************************************************)
ChildWrites ==
    /\ ttyOpen /\ written < MaxOutput
    /\ written' = written + 1
    /\ UNCHANGED <<alive, ttyOpen, relayVars, exitVars, readerPc, acceptPc,
                   accepting, threadPc, link, peerVars, streamVars>>

ChildExits ==
    /\ alive
    /\ alive' = FALSE
    /\ UNCHANGED <<ttyOpen, written, relayVars, exitVars, readerPc, acceptPc,
                   accepting, threadPc, link, peerVars, streamVars>>

TerminalCloses ==
    /\ ttyOpen
    /\ ttyOpen' = FALSE
    /\ UNCHANGED <<alive, written, relayVars, exitVars, readerPc, acceptPc,
                   accepting, threadPc, link, peerVars, streamVars>>

(***************************************************************************)
(* The decisions the threads take, each after the form a slip in the code  *)
(* would give it.                                                          *)
(***************************************************************************)
RelayUnlocked == TRUE
RelayFree == lock = "free"

HasOutput == history < written

AtEof == history = written /\ ~ttyOpen

\* The greeting repeats an exit that is already known.
StaysSilent == FALSE
ExitKnown == exitCode

\* A client thread clears the slot only while the slot is its own.
AnyonesSlot(c) == HasClient
OwnsSlot(c) == slot = c

\* QUIT is obeyed only once the child is gone.
QuitAllowed == exitCode

\* nobody_left_to_tell leaves at once only if it has ever been greeted.
NothingOwed == TRUE
NothingOwedOnceClaimed == claimed

(***************************************************************************)
(* FIRST_CLIENT_GRACE (10 s from the child's death) is longer than the     *)
(* spawning daemon tries to connect (5 s) and then waits for its greeting  *)
(* (3 s), so the grace runs out only after the spawner stopped waiting.    *)
(***************************************************************************)
SpawnerWaits ==
    \/ link[Spawner] = "new"
    \/ link[Spawner] = "open" /\ Spawner \in backlog

\* Variant: it gives up on being asked as soon as the child is gone.
GivesUpAtOnce == orphaned
WaitedLongEnough == orphaned /\ ~SpawnerWaits

(***************************************************************************)
(* The reader thread.                                                      *)
(***************************************************************************)

\* relay_output, first half: take the relay lock and append to the history.
RelayOutput ==
    /\ readerPc = "reading" /\ HasOutput
    /\ RelayFree
    /\ lock' = "reader"
    /\ history' = history + 1
    /\ readerPc' = "forward"
    /\ UNCHANGED <<childVars, slot, exitVars, acceptPc, accepting, threadPc,
                   link, peerVars, streamVars>>

\* relay_output, second half: forward the chunk to whoever holds the slot; a
\* write that fails empties the slot.
Forward ==
    /\ readerPc = "forward"
    /\ IF Writable(slot)
       THEN data' = [data EXCEPT ![slot] = Append(@, history)] /\ slot' = slot
       ELSE slot' = None /\ data' = data
    /\ lock' = "free"
    /\ readerPc' = "reading"
    /\ UNCHANGED <<childVars, history, exitVars, acceptPc, accepting, threadPc,
                   link, peerVars, greeted, base, told>>

\* End of file on the PTY; the reader goes on to wait for the child, holding
\* the child's lock until the wait returns.
ReadEof ==
    /\ readerPc = "reading" /\ AtEof
    /\ readerPc' = "wait"
    /\ UNCHANGED <<childVars, relayVars, exitVars, acceptPc, accepting,
                   threadPc, link, peerVars, streamVars>>

ReapChild ==
    /\ readerPc = "wait" /\ ~alive
    /\ exitCode' = TRUE
    /\ readerPc' = "ask"
    /\ UNCHANGED <<childVars, relayVars, claimed, orphaned, done, acceptPc,
                   accepting, threadPc, link, peerVars, streamVars>>

\* has_client, before and after the exit is sent.
AskForClient ==
    /\ readerPc = "ask" /\ RelayFree
    /\ readerPc' = IF HasClient THEN "tell" ELSE "check"
    /\ UNCHANGED <<childVars, relayVars, exitVars, acceptPc, accepting,
                   threadPc, link, peerVars, streamVars>>

\* send_to_client(EXITED): to whoever holds the slot now.
TellExit ==
    /\ readerPc = "tell" /\ RelayFree
    /\ IF Writable(slot)
       THEN told' = [told EXCEPT ![slot] = TRUE] /\ slot' = slot
       ELSE slot' = None /\ told' = told
    /\ readerPc' = "check"
    /\ UNCHANGED <<childVars, lock, history, exitVars, acceptPc, accepting,
                   threadPc, link, peerVars, greeted, base, data>>

CheckForClient ==
    /\ readerPc = "check" /\ RelayFree
    /\ readerPc' = IF HasClient THEN "ended" ELSE "orphan"
    /\ UNCHANGED <<childVars, relayVars, exitVars, acceptPc, accepting,
                   threadPc, link, peerVars, streamVars>>

NobodyLeftToTell ==
    /\ readerPc = "orphan"
    /\ IF NothingOwedOnceClaimed
       THEN done' = TRUE /\ orphaned' = orphaned
       ELSE orphaned' = TRUE /\ done' = done
    /\ readerPc' = "ended"
    /\ UNCHANGED <<childVars, relayVars, exitCode, claimed, acceptPc,
                   accepting, threadPc, link, peerVars, streamVars>>

Reader ==
    \/ RelayOutput \/ Forward \/ ReadEof \/ ReapChild
    \/ AskForClient \/ TellExit \/ CheckForClient \/ NobodyLeftToTell

(***************************************************************************)
(* The accept loop.                                                        *)
(***************************************************************************)

\* The check at the top of the loop; leaving removes the socket.
CheckDone ==
    /\ acceptPc = "poll"
    /\ acceptPc' = IF done \/ WaitedLongEnough THEN "gone" ELSE "accept"
    /\ UNCHANGED <<childVars, relayVars, exitVars, readerPc, accepting,
                   threadPc, link, peerVars, streamVars>>

AcceptNobody ==
    /\ acceptPc = "accept" /\ backlog = {}
    /\ acceptPc' = "poll"
    /\ UNCHANGED <<childVars, relayVars, exitVars, readerPc, accepting,
                   threadPc, link, peerVars, streamVars>>

Accept(c) ==
    /\ acceptPc = "accept" /\ c \in backlog
    /\ backlog' = backlog \ {c}
    /\ accepting' = c
    /\ acceptPc' = "evict"
    /\ UNCHANGED <<childVars, relayVars, exitVars, readerPc, threadPc, link,
                   requests, sent, streamVars>>

\* Take the relay lock and hang up on the client that held the slot.
EvictPrevious ==
    /\ acceptPc = "evict" /\ RelayFree
    /\ lock' = "accept"
    /\ link' = IF HasClient THEN [link EXCEPT ![slot] = "shut"] ELSE link
    /\ slot' = None
    /\ acceptPc' = "hello"
    /\ UNCHANGED <<childVars, history, exitVars, readerPc, accepting, threadPc,
                   peerVars, streamVars>>

\* A greeting that cannot be written gives the lock up and is forgotten.
GreetingFails ==
    /\ lock' = "free" /\ acceptPc' = "poll"
    /\ UNCHANGED streamVars

Greet ==
    /\ acceptPc = "hello"
    /\ IF Writable(accepting)
       THEN /\ greeted' = [greeted EXCEPT ![accepting] = TRUE]
            /\ base' = [base EXCEPT ![accepting] = history]
            /\ acceptPc' = "repeat"
            /\ UNCHANGED <<lock, data, told>>
       ELSE GreetingFails
    /\ UNCHANGED <<childVars, slot, history, exitVars, readerPc, accepting,
                   threadPc, link, peerVars>>

\* Repeat an exit that is already known to a client that comes after it.
RepeatExit ==
    /\ acceptPc = "repeat"
    /\ \/ /\ ~ExitKnown
          /\ acceptPc' = "install"
          /\ UNCHANGED <<lock, streamVars>>
       \/ /\ ExitKnown /\ Writable(accepting)
          /\ told' = [told EXCEPT ![accepting] = TRUE]
          /\ acceptPc' = "install"
          /\ UNCHANGED <<lock, greeted, base, data>>
       \/ /\ ExitKnown /\ ~Writable(accepting)
          /\ GreetingFails
    /\ UNCHANGED <<childVars, slot, history, exitVars, readerPc, accepting,
                   threadPc, link, peerVars>>

Install ==
    /\ acceptPc = "install"
    /\ slot' = accepting
    /\ lock' = "free"
    /\ acceptPc' = "claim"
    /\ UNCHANGED <<childVars, history, exitVars, readerPc, accepting, threadPc,
                   link, peerVars, streamVars>>

\* claim, and the client's thread is spawned.
Claim ==
    /\ acceptPc = "claim"
    /\ claimed' = TRUE /\ orphaned' = FALSE
    /\ threadPc' = [threadPc EXCEPT ![accepting] = "serving"]
    /\ acceptPc' = "poll"
    /\ UNCHANGED <<childVars, relayVars, exitCode, done, readerPc, accepting,
                   link, peerVars, streamVars>>

AcceptLoop ==
    \/ CheckDone \/ AcceptNobody \/ (\E c \in Connections : Accept(c))
    \/ EvictPrevious \/ Greet \/ RepeatExit \/ Install \/ Claim

(***************************************************************************)
(* The thread of a greeted client.  Frames a client sent before it hung up *)
(* are still read.                                                         *)
(***************************************************************************)
Reads(c, kind) ==
    /\ threadPc[c] = "serving"
    /\ requests[c] # <<>> /\ Head(requests[c]) = kind
    /\ requests' = [requests EXCEPT ![c] = Tail(@)]
    /\ UNCHANGED <<backlog, sent>>

\* Input for the child.  Writing it may fail once the terminal has closed,
\* and then the thread stops serving.
ServeData(c) ==
    /\ Reads(c, "DATA")
    /\ \/ threadPc' = threadPc
       \/ ~ttyOpen /\ threadPc' = [threadPc EXCEPT ![c] = "leaving"]
    /\ UNCHANGED <<childVars, relayVars, exitVars, readerPc, acceptPc,
                   accepting, link, streamVars>>

\* KILL needs the child's lock, which the reader keeps while it waits.
ServeKill(c) ==
    /\ readerPc # "wait"
    /\ Reads(c, "KILL")
    /\ alive' = FALSE
    /\ UNCHANGED <<ttyOpen, written, relayVars, exitVars, readerPc, acceptPc,
                   accepting, threadPc, link, streamVars>>

\* A QUIT for a living child is ignored.
ServeQuit(c) ==
    /\ Reads(c, "QUIT")
    /\ IF QuitAllowed
       THEN done' = TRUE /\ threadPc' = [threadPc EXCEPT ![c] = "leaving"]
       ELSE done' = done /\ threadPc' = threadPc
    /\ UNCHANGED <<childVars, relayVars, exitCode, claimed, orphaned, readerPc,
                   acceptPc, accepting, link, streamVars>>

\* PONG goes to whoever holds the slot; a write that fails empties it.
ServePing(c) ==
    /\ RelayFree
    /\ Reads(c, "PING")
    /\ slot' = IF Writable(slot) THEN slot ELSE None
    /\ UNCHANGED <<childVars, lock, history, exitVars, readerPc, acceptPc,
                   accepting, threadPc, link, streamVars>>

\* The stream ended: the client hung up or was replaced.
EndOfStream(c) ==
    /\ threadPc[c] = "serving" /\ requests[c] = <<>> /\ link[c] = "shut"
    /\ threadPc' = [threadPc EXCEPT ![c] = "leaving"]
    /\ UNCHANGED <<childVars, relayVars, exitVars, readerPc, acceptPc,
                   accepting, link, peerVars, streamVars>>

LeaveSlot(c) ==
    /\ threadPc[c] = "leaving" /\ RelayFree
    /\ slot' = IF OwnsSlot(c) THEN None ELSE slot
    /\ threadPc' = [threadPc EXCEPT ![c] = IF OwnsSlot(c) THEN "finishing"
                                                          ELSE "ended"]
    /\ link' = [link EXCEPT ![c] = "shut"]
    /\ UNCHANGED <<childVars, lock, history, exitVars, readerPc, acceptPc,
                   accepting, peerVars, streamVars>>

\* this_client_left: the work is over if the child is gone by now.
FinishAfterLeaving(c) ==
    /\ threadPc[c] = "finishing"
    /\ done' = (done \/ exitCode)
    /\ threadPc' = [threadPc EXCEPT ![c] = "ended"]
    /\ UNCHANGED <<childVars, relayVars, exitCode, claimed, orphaned, readerPc,
                   acceptPc, accepting, link, peerVars, streamVars>>

ClientThread(c) ==
    \/ ServeData(c) \/ ServeKill(c) \/ ServeQuit(c) \/ ServePing(c)
    \/ EndOfStream(c) \/ LeaveSlot(c) \/ FinishAfterLeaving(c)

(***************************************************************************)
(* The daemon generations on the other end of the connections.             *)
(***************************************************************************)
\* One daemon serves a machine at a time (its lock is daemon.rs'), so another
\* generation comes only after the spawner was greeted or is gone.
Connect(c) ==
    /\ link[c] = "new" /\ acceptPc # "gone"
    /\ c # Spawner => ~SpawnerWaits
    /\ link' = [link EXCEPT ![c] = "open"]
    /\ backlog' = backlog \cup {c}
    /\ UNCHANGED <<childVars, relayVars, exitVars, readerPc, acceptPc,
                   accepting, threadPc, requests, sent, streamVars>>

\* A client sends frames once it has been greeted.
Send(c) ==
    /\ link[c] = "open" /\ greeted[c] /\ sent[c] < MaxRequests
    /\ \E kind \in Requests :
          requests' = [requests EXCEPT ![c] = Append(@, kind)]
    /\ sent' = [sent EXCEPT ![c] = @ + 1]
    /\ UNCHANGED <<childVars, relayVars, exitVars, readerPc, acceptPc,
                   accepting, threadPc, link, backlog, streamVars>>

\* A daemon lets go of the session, is killed, or, as the spawner, gives up
\* connecting.
HangUp(c) ==
    /\ (link[c] = "open" \/ (c = Spawner /\ link[c] = "new"))
    /\ link' = [link EXCEPT ![c] = "shut"]
    /\ UNCHANGED <<childVars, relayVars, exitVars, readerPc, acceptPc,
                   accepting, threadPc, peerVars, streamVars>>

Peer(c) == Connect(c) \/ Send(c) \/ HangUp(c)

\* The keeper has left and its process with it; only the terminal of a child
\* it leaves behind could still change.
Departed ==
    /\ acceptPc = "gone"
    /\ UNCHANGED vars

Environment ==
    \/ ChildWrites \/ ChildExits \/ TerminalCloses
    \/ \E c \in Connections : Peer(c)

Next ==
    \/ Environment
    \/ Reader
    \/ AcceptLoop
    \/ \E c \in Connections : ClientThread(c)
    \/ Departed

\* Every thread of the keeper runs; the spawner does not connect forever.
\* The child, its terminal and the other daemons owe nothing.
Fairness ==
    /\ WF_vars(Reader)
    /\ WF_vars(AcceptLoop)
    /\ \A c \in Connections : WF_vars(ClientThread(c))
    /\ WF_vars(link[Spawner] = "new" /\ Peer(Spawner))

Spec == Init /\ [][Next]_vars
FairSpec == Spec /\ Fairness

-----------------------------------------------------------------------------
FlagsOK ==
    /\ alive \in BOOLEAN /\ ttyOpen \in BOOLEAN
    /\ exitCode \in BOOLEAN /\ claimed \in BOOLEAN
    /\ orphaned \in BOOLEAN /\ done \in BOOLEAN

ThreadsOK ==
    /\ lock \in {"free", "reader", "accept"}
    /\ slot \in Connections \cup {None}
    /\ readerPc \in {"reading", "forward", "wait", "ask", "tell", "check",
                     "orphan", "ended"}
    /\ acceptPc \in {"poll", "accept", "evict", "hello", "repeat", "install",
                     "claim", "gone"}
    /\ accepting \in Connections \cup {None}
    /\ threadPc \in [Connections -> {"none", "serving", "leaving",
                                     "finishing", "ended"}]

PeersOK ==
    /\ link \in [Connections -> {"new", "open", "shut"}]
    /\ backlog \in SUBSET Connections
    /\ requests \in [Connections -> Seq(Requests)]
    /\ sent \in [Connections -> 0..MaxRequests]

OutputOK ==
    /\ written \in 0..MaxOutput /\ history \in 0..written
    /\ greeted \in [Connections -> BOOLEAN]
    /\ base \in [Connections -> Nat]
    /\ data \in [Connections -> Seq(Nat)]
    /\ told \in [Connections -> BOOLEAN]

\* Every variable has its type, and no chunk is in the history that the child
\* has not written.
TypeOK == FlagsOK /\ ThreadsOK /\ PeersOK /\ OutputOK

\* The history up to the greeting's byte count and the DATA frames after it
\* are the session's output from its first chunk on, with no gap and no
\* overlap, whatever the reader was doing while the client was greeted.
NoGapNoOverlap ==
    \A c \in Connections : \A i \in 1..Len(data[c]) : data[c][i] = base[c] + i

\* A client told of the exit has all the output the session will ever have.
ExitComesLast ==
    \A c \in Connections : told[c] =>
        /\ ~ttyOpen
        /\ base[c] + Len(data[c]) = written

\* Once the reader is through with a dead child, a client that holds the slot
\* has been told of the exit: by the reader if it was there, by its greeting
\* if it came later, and by one of the two if it came in between.
NobodyIsLeftUntold ==
    readerPc = "ended" /\ slot # None => told[slot]

\* The keeper leaves only after its child was reaped, and never while the
\* daemon that started it still waits to be greeted.
LeavesOnlyWhenDone ==
    acceptPc = "gone" => exitCode /\ ~alive /\ ~SpawnerWaits

\* A client that is still there loses the slot only to its own thread or to
\* the client that replaces it: the thread of a client replaced earlier
\* cannot evict it.
NobodyElseEvicts ==
    [][\A c \in Connections :
          slot = c /\ slot' # c /\ link[c] = "open" =>
              threadPc[c] = "leaving" \/ acceptPc = "evict"]_vars

\* The keeper is a session transcript: a chunk counts as recorded once it was
\* forwarded, and a client as attached from its HELLO on.
Transcript == INSTANCE SessionTranscript WITH
    Readers  <- Connections,
    Nobody   <- None,
    record   <- IF lock = "reader" THEN history - 1 ELSE history,
    over     <- exitCode,
    attached <- IF acceptPc \in {"repeat", "install"} THEN accepting ELSE slot,
    joined   <- greeted,
    seen     <- [c \in Connections |-> base[c] + Len(data[c])],
    heard    <- told

\* Every step of the keeper's threads is a step of the transcript or none.
ImplementsTranscript == Transcript!Spec

\* A client that holds the slot when the child is reaped hears of the exit,
\* unless its stream ends first.
ListenerHearsExit ==
    \A c \in Connections :
        (exitCode /\ slot = c) ~> (told[c] \/ link[c] = "shut")

\* "A keeper with a dead child and nobody listening has nothing left to wait
\* for; leave rather than park forever" (keeper.rs, the reader thread).
NeverParks ==
    <>[](exitCode /\ \A c \in Connections : link[c] # "open")
        => <>(acceptPc = "gone")

\* "killing the session is what KILL is for" (keeper.rs, the QUIT handler): a
\* KILL its thread gets to ends the child.
KillEndsTheChild ==
    \A c \in Connections :
        (threadPc[c] = "serving" /\ requests[c] # <<>> /\ Head(requests[c]) = "KILL")
            ~> ~alive
=============================================================================
