---------------------------- MODULE KeeperProofs ----------------------------
(***************************************************************************)
(* Proofs about Keeper, for any number of connections, any amount of       *)
(* output and any number of frames; the second half is about Streams.      *)
(*                                                                         *)
(* The argument: the relay lock is held by exactly the thread whose pc     *)
(* says so (LockInv); a connection is greeted once, while no client holds  *)
(* the slot (GreetInv); whoever holds the slot has everything relayed so   *)
(* far (SplitInv); an exit is known only when all output was relayed       *)
(* (ExitInv), so telling it comes last and finds nobody missing            *)
(* (ToldInv); and the keeper is done only once the spawner was answered    *)
(* (DoneInv).                                                              *)
(***************************************************************************)
EXTENDS Keeper, Streams, FiniteSetTheorems, SequenceTheorems, TLAPS

Entering == acceptPc \in {"evict", "hello", "repeat", "install", "claim"}
Greeting == acceptPc \in {"hello", "repeat", "install"}
ExitSet  == readerPc \in {"ask", "tell", "check", "orphan", "ended"}

LockInv ==
    /\ lock = "reader" <=> readerPc = "forward"
    /\ lock = "accept" <=> Greeting

\* Nothing was written to c yet.
Ungreeted(c) == ~greeted[c] /\ data[c] = <<>> /\ ~told[c]

GreetInv ==
    /\ Greeting => slot = None
    /\ Entering => accepting \in Connections /\ accepting \notin backlog
                   /\ link[accepting] # "new"
    /\ acceptPc \in {"evict", "hello"} => Ungreeted(accepting)
    /\ acceptPc \in {"repeat", "install"} => greeted[accepting]
    /\ slot # None => greeted[slot]
    /\ \A c \in Connections :
          link[c] = "new" \/ c \in backlog => Ungreeted(c)
    /\ \A c \in Connections : link[c] = "new" => c \notin backlog

SplitInv ==
    /\ slot # None => base[slot] + Len(data[slot]) =
                        IF lock = "reader" THEN history - 1 ELSE history
    /\ acceptPc \in {"repeat", "install"} =>
          base[accepting] = history /\ data[accepting] = <<>>
    /\ NoGapNoOverlap

ExitInv ==
    /\ readerPc \notin {"reading", "forward"} => ~ttyOpen /\ history = written
    /\ exitCode <=> ExitSet
    /\ exitCode => ~alive

ToldInv ==
    /\ \A c \in Connections :
          told[c] => exitCode /\ base[c] + Len(data[c]) = written
    /\ readerPc \in {"check", "orphan", "ended"} =>
          /\ slot # None => told[slot]
          /\ acceptPc = "install" => told[accepting]

DoneInv ==
    /\ done \/ orphaned \/ acceptPc = "gone" => exitCode
    /\ \A c \in Connections : threadPc[c] # "none" => claimed
    /\ \A c \in Connections : c # Spawner /\ link[c] # "new" => ~SpawnerWaits
    /\ claimed \/ done \/ acceptPc = "gone" => ~SpawnerWaits

IInv == TypeOK /\ LockInv /\ GreetInv /\ SplitInv /\ ExitInv /\ ToldInv /\ DoneInv

-----------------------------------------------------------------------------
\* What a client thread leaves unread is still a sequence of frames.
LEMMA TailOfRequests ==
    ASSUME NEW s \in Seq(Requests), s # <<>>
    PROVE  Tail(s) \in Seq(Requests)
BY HeadTailProperties

\* Every variable has its type in the initial state.
LEMMA TypeInit == Init => TypeOK
<1> SUFFICES ASSUME Init PROVE TypeOK
  OBVIOUS
<1>1. FlagsOK
  BY DEF Init, FlagsOK
<1>2. ThreadsOK
  BY DEF Init, ThreadsOK
<1>3. PeersOK
  BY BoundsAssumption DEF Init, PeersOK
<1>4. OutputOK
  BY BoundsAssumption DEF Init, OutputOK
<1>5. QED
  BY <1>1, <1>2, <1>3, <1>4 DEF TypeOK

\* Steps keep the flags Boolean.
LEMMA FlagsStep == FlagsOK /\ [Next]_vars => FlagsOK'
<1> SUFFICES ASSUME FlagsOK, [Next]_vars PROVE FlagsOK'
  OBVIOUS
<1> USE DEF FlagsOK, childVars, relayVars, exitVars, streamVars, peerVars
<1>1. CASE ChildWrites
  BY <1>1 DEF ChildWrites
<1>2. CASE ChildExits
  BY <1>2 DEF ChildExits
<1>3. CASE TerminalCloses
  BY <1>3 DEF TerminalCloses
<1>4. CASE RelayOutput
  BY <1>4 DEF RelayOutput, HasOutput, RelayFree
<1>5. CASE Forward
  BY <1>5 DEF Forward, Writable
<1>6. CASE ReadEof
  BY <1>6 DEF ReadEof, AtEof
<1>7. CASE ReapChild
  BY <1>7 DEF ReapChild
<1>8. CASE AskForClient
  BY <1>8 DEF AskForClient, RelayFree, HasClient
<1>9. CASE TellExit
  BY <1>9 DEF TellExit, RelayFree, Writable
<1>10. CASE CheckForClient
  BY <1>10 DEF CheckForClient, RelayFree, HasClient
<1>11. CASE NobodyLeftToTell
  BY <1>11 DEF NobodyLeftToTell, NothingOwedOnceClaimed
<1>12. CASE CheckDone
  BY <1>12 DEF CheckDone, WaitedLongEnough
<1>13. CASE AcceptNobody
  BY <1>13 DEF AcceptNobody
<1>14. ASSUME NEW c \in Connections, Accept(c) PROVE FlagsOK'
  BY <1>14 DEF Accept
<1>15. CASE EvictPrevious
  BY <1>15 DEF EvictPrevious, RelayFree, HasClient
<1>16. CASE Greet
  BY <1>16 DEF Greet, Writable, GreetingFails
<1>17. CASE RepeatExit
  BY <1>17 DEF RepeatExit, ExitKnown, Writable, GreetingFails
<1>18. CASE Install
  BY <1>18 DEF Install
<1>19. CASE Claim
  BY <1>19 DEF Claim
<1>20. ASSUME NEW c \in Connections, ServeData(c) PROVE FlagsOK'
  BY <1>20 DEF ServeData, Reads
<1>21. ASSUME NEW c \in Connections, ServeKill(c) PROVE FlagsOK'
  BY <1>21 DEF ServeKill, Reads
<1>22. ASSUME NEW c \in Connections, ServeQuit(c) PROVE FlagsOK'
  BY <1>22 DEF ServeQuit, Reads, QuitAllowed
<1>23. ASSUME NEW c \in Connections, ServePing(c) PROVE FlagsOK'
  BY <1>23 DEF ServePing, Reads, RelayFree, Writable
<1>24. ASSUME NEW c \in Connections, EndOfStream(c) PROVE FlagsOK'
  BY <1>24 DEF EndOfStream
<1>25. ASSUME NEW c \in Connections, LeaveSlot(c) PROVE FlagsOK'
  BY <1>25 DEF LeaveSlot, RelayFree, OwnsSlot
<1>26. ASSUME NEW c \in Connections, FinishAfterLeaving(c) PROVE FlagsOK'
  BY <1>26 DEF FinishAfterLeaving
<1>27. ASSUME NEW c \in Connections, Connect(c) PROVE FlagsOK'
  BY <1>27 DEF Connect
<1>28. ASSUME NEW c \in Connections, Send(c) PROVE FlagsOK'
  BY <1>28 DEF Send, Requests
<1>29. ASSUME NEW c \in Connections, HangUp(c) PROVE FlagsOK'
  BY <1>29 DEF HangUp
<1>30. CASE UNCHANGED vars
  BY <1>30 DEF vars
<1>31. QED
  BY <1>1, <1>2, <1>3, <1>4, <1>5, <1>6, <1>7, <1>8, <1>9, <1>10, <1>11, <1>12, <1>13, <1>14, <1>15, <1>16, <1>17, <1>18, <1>19, <1>20, <1>21, <1>22, <1>23, <1>24, <1>25, <1>26, <1>27, <1>28, <1>29, <1>30
  DEF Next, Environment, Reader, AcceptLoop, ClientThread, Peer, Departed

\* Steps keep every thread at one of its steps.
LEMMA ThreadsStep == ThreadsOK /\ [Next]_vars => ThreadsOK'
<1> SUFFICES ASSUME ThreadsOK, [Next]_vars PROVE ThreadsOK'
  OBVIOUS
<1> USE ConnectionsAssumption DEF ThreadsOK, childVars, relayVars, exitVars, streamVars, peerVars
<1>1. CASE ChildWrites
  BY <1>1 DEF ChildWrites
<1>2. CASE ChildExits
  BY <1>2 DEF ChildExits
<1>3. CASE TerminalCloses
  BY <1>3 DEF TerminalCloses
<1>4. CASE RelayOutput
  BY <1>4 DEF RelayOutput, HasOutput, RelayFree
<1>5. CASE Forward
  BY <1>5 DEF Forward, Writable
<1>6. CASE ReadEof
  BY <1>6 DEF ReadEof, AtEof
<1>7. CASE ReapChild
  BY <1>7 DEF ReapChild
<1>8. CASE AskForClient
  BY <1>8 DEF AskForClient, RelayFree, HasClient
<1>9. CASE TellExit
  BY <1>9 DEF TellExit, RelayFree, Writable
<1>10. CASE CheckForClient
  BY <1>10 DEF CheckForClient, RelayFree, HasClient
<1>11. CASE NobodyLeftToTell
  BY <1>11 DEF NobodyLeftToTell, NothingOwedOnceClaimed
<1>12. CASE CheckDone
  BY <1>12 DEF CheckDone, WaitedLongEnough
<1>13. CASE AcceptNobody
  BY <1>13 DEF AcceptNobody
<1>14. ASSUME NEW c \in Connections, Accept(c) PROVE ThreadsOK'
  BY <1>14 DEF Accept
<1>15. CASE EvictPrevious
  BY <1>15 DEF EvictPrevious, RelayFree, HasClient
<1>16. CASE Greet
  BY <1>16 DEF Greet, Writable, GreetingFails
<1>17. CASE RepeatExit
  BY <1>17 DEF RepeatExit, ExitKnown, Writable, GreetingFails
<1>18. CASE Install
  BY <1>18 DEF Install
<1>19. CASE Claim
  BY <1>19 DEF Claim
<1>20. ASSUME NEW c \in Connections, ServeData(c) PROVE ThreadsOK'
  BY <1>20 DEF ServeData, Reads
<1>21. ASSUME NEW c \in Connections, ServeKill(c) PROVE ThreadsOK'
  BY <1>21 DEF ServeKill, Reads
<1>22. ASSUME NEW c \in Connections, ServeQuit(c) PROVE ThreadsOK'
  BY <1>22 DEF ServeQuit, Reads, QuitAllowed
<1>23. ASSUME NEW c \in Connections, ServePing(c) PROVE ThreadsOK'
  BY <1>23 DEF ServePing, Reads, RelayFree, Writable
<1>24. ASSUME NEW c \in Connections, EndOfStream(c) PROVE ThreadsOK'
  BY <1>24 DEF EndOfStream
<1>25. ASSUME NEW c \in Connections, LeaveSlot(c) PROVE ThreadsOK'
  BY <1>25 DEF LeaveSlot, RelayFree, OwnsSlot
<1>26. ASSUME NEW c \in Connections, FinishAfterLeaving(c) PROVE ThreadsOK'
  BY <1>26 DEF FinishAfterLeaving
<1>27. ASSUME NEW c \in Connections, Connect(c) PROVE ThreadsOK'
  BY <1>27 DEF Connect
<1>28. ASSUME NEW c \in Connections, Send(c) PROVE ThreadsOK'
  BY <1>28 DEF Send, Requests
<1>29. ASSUME NEW c \in Connections, HangUp(c) PROVE ThreadsOK'
  BY <1>29 DEF HangUp
<1>30. CASE UNCHANGED vars
  BY <1>30 DEF vars
<1>31. QED
  BY <1>1, <1>2, <1>3, <1>4, <1>5, <1>6, <1>7, <1>8, <1>9, <1>10, <1>11, <1>12, <1>13, <1>14, <1>15, <1>16, <1>17, <1>18, <1>19, <1>20, <1>21, <1>22, <1>23, <1>24, <1>25, <1>26, <1>27, <1>28, <1>29, <1>30
  DEF Next, Environment, Reader, AcceptLoop, ClientThread, Peer, Departed

\* Steps keep the connections and their frames typed.
LEMMA PeersStep == (ThreadsOK /\ PeersOK) /\ [Next]_vars => PeersOK'
<1> SUFFICES ASSUME (ThreadsOK /\ PeersOK), [Next]_vars PROVE PeersOK'
  OBVIOUS
<1> USE TailOfRequests, BoundsAssumption DEF ThreadsOK, PeersOK, childVars, relayVars, exitVars, streamVars, peerVars
<1>1. CASE ChildWrites
  BY <1>1 DEF ChildWrites
<1>2. CASE ChildExits
  BY <1>2 DEF ChildExits
<1>3. CASE TerminalCloses
  BY <1>3 DEF TerminalCloses
<1>4. CASE RelayOutput
  BY <1>4 DEF RelayOutput, HasOutput, RelayFree
<1>5. CASE Forward
  BY <1>5 DEF Forward, Writable
<1>6. CASE ReadEof
  BY <1>6 DEF ReadEof, AtEof
<1>7. CASE ReapChild
  BY <1>7 DEF ReapChild
<1>8. CASE AskForClient
  BY <1>8 DEF AskForClient, RelayFree, HasClient
<1>9. CASE TellExit
  BY <1>9 DEF TellExit, RelayFree, Writable
<1>10. CASE CheckForClient
  BY <1>10 DEF CheckForClient, RelayFree, HasClient
<1>11. CASE NobodyLeftToTell
  BY <1>11 DEF NobodyLeftToTell, NothingOwedOnceClaimed
<1>12. CASE CheckDone
  BY <1>12 DEF CheckDone, WaitedLongEnough
<1>13. CASE AcceptNobody
  BY <1>13 DEF AcceptNobody
<1>14. ASSUME NEW c \in Connections, Accept(c) PROVE PeersOK'
  BY <1>14 DEF Accept
<1>15. CASE EvictPrevious
  BY <1>15 DEF EvictPrevious, RelayFree, HasClient
<1>16. CASE Greet
  BY <1>16 DEF Greet, Writable, GreetingFails
<1>17. CASE RepeatExit
  BY <1>17 DEF RepeatExit, ExitKnown, Writable, GreetingFails
<1>18. CASE Install
  BY <1>18 DEF Install
<1>19. CASE Claim
  BY <1>19 DEF Claim
<1>20. ASSUME NEW c \in Connections, ServeData(c) PROVE PeersOK'
  BY <1>20 DEF ServeData, Reads
<1>21. ASSUME NEW c \in Connections, ServeKill(c) PROVE PeersOK'
  BY <1>21 DEF ServeKill, Reads
<1>22. ASSUME NEW c \in Connections, ServeQuit(c) PROVE PeersOK'
  BY <1>22 DEF ServeQuit, Reads, QuitAllowed
<1>23. ASSUME NEW c \in Connections, ServePing(c) PROVE PeersOK'
  BY <1>23 DEF ServePing, Reads, RelayFree, Writable
<1>24. ASSUME NEW c \in Connections, EndOfStream(c) PROVE PeersOK'
  BY <1>24 DEF EndOfStream
<1>25. ASSUME NEW c \in Connections, LeaveSlot(c) PROVE PeersOK'
  BY <1>25 DEF LeaveSlot, RelayFree, OwnsSlot
<1>26. ASSUME NEW c \in Connections, FinishAfterLeaving(c) PROVE PeersOK'
  BY <1>26 DEF FinishAfterLeaving
<1>27. ASSUME NEW c \in Connections, Connect(c) PROVE PeersOK'
  BY <1>27 DEF Connect
<1>28. ASSUME NEW c \in Connections, Send(c) PROVE PeersOK'
  BY <1>28 DEF Send, Requests
<1>29. ASSUME NEW c \in Connections, HangUp(c) PROVE PeersOK'
  BY <1>29 DEF HangUp
<1>30. CASE UNCHANGED vars
  BY <1>30 DEF vars
<1>31. QED
  BY <1>1, <1>2, <1>3, <1>4, <1>5, <1>6, <1>7, <1>8, <1>9, <1>10, <1>11, <1>12, <1>13, <1>14, <1>15, <1>16, <1>17, <1>18, <1>19, <1>20, <1>21, <1>22, <1>23, <1>24, <1>25, <1>26, <1>27, <1>28, <1>29, <1>30
  DEF Next, Environment, Reader, AcceptLoop, ClientThread, Peer, Departed

\* Steps keep the output counted and the streams typed.
LEMMA OutputStep == (ThreadsOK /\ OutputOK) /\ [Next]_vars => OutputOK'
<1> SUFFICES ASSUME (ThreadsOK /\ OutputOK), [Next]_vars PROVE OutputOK'
  OBVIOUS
<1> USE BoundsAssumption DEF ThreadsOK, OutputOK, childVars, relayVars, exitVars, streamVars, peerVars
<1>1. CASE ChildWrites
  BY <1>1 DEF ChildWrites
<1>2. CASE ChildExits
  BY <1>2 DEF ChildExits
<1>3. CASE TerminalCloses
  BY <1>3 DEF TerminalCloses
<1>4. CASE RelayOutput
  BY <1>4 DEF RelayOutput, HasOutput, RelayFree
<1>5. CASE Forward
  <2>1. history \in Nat
    OBVIOUS
  <2>2. CASE Writable(slot)
    <3>1. slot \in Connections
      BY <2>2 DEF Writable
    <3>2. Append(data[slot], history) \in Seq(Nat)
      BY <2>1, <3>1, AppendProperties
    <3>3. QED
      BY <1>5, <2>2, <3>1, <3>2 DEF Forward
  <2>3. CASE ~Writable(slot)
    BY <1>5, <2>3 DEF Forward
  <2>4. QED
    BY <2>2, <2>3
<1>6. CASE ReadEof
  BY <1>6 DEF ReadEof, AtEof
<1>7. CASE ReapChild
  BY <1>7 DEF ReapChild
<1>8. CASE AskForClient
  BY <1>8 DEF AskForClient, RelayFree, HasClient
<1>9. CASE TellExit
  BY <1>9 DEF TellExit, RelayFree, Writable
<1>10. CASE CheckForClient
  BY <1>10 DEF CheckForClient, RelayFree, HasClient
<1>11. CASE NobodyLeftToTell
  BY <1>11 DEF NobodyLeftToTell, NothingOwedOnceClaimed
<1>12. CASE CheckDone
  BY <1>12 DEF CheckDone, WaitedLongEnough
<1>13. CASE AcceptNobody
  BY <1>13 DEF AcceptNobody
<1>14. ASSUME NEW c \in Connections, Accept(c) PROVE OutputOK'
  BY <1>14 DEF Accept
<1>15. CASE EvictPrevious
  BY <1>15 DEF EvictPrevious, RelayFree, HasClient
<1>16. CASE Greet
  <2>1. history \in Nat
    OBVIOUS
  <2>2. CASE Writable(accepting)
    BY <1>16, <2>1, <2>2 DEF Greet
  <2>3. CASE ~Writable(accepting)
    BY <1>16, <2>3 DEF Greet, GreetingFails
  <2>4. QED
    BY <2>2, <2>3
<1>17. CASE RepeatExit
  BY <1>17 DEF RepeatExit, ExitKnown, Writable, GreetingFails
<1>18. CASE Install
  BY <1>18 DEF Install
<1>19. CASE Claim
  BY <1>19 DEF Claim
<1>20. ASSUME NEW c \in Connections, ServeData(c) PROVE OutputOK'
  BY <1>20 DEF ServeData, Reads
<1>21. ASSUME NEW c \in Connections, ServeKill(c) PROVE OutputOK'
  BY <1>21 DEF ServeKill, Reads
<1>22. ASSUME NEW c \in Connections, ServeQuit(c) PROVE OutputOK'
  BY <1>22 DEF ServeQuit, Reads, QuitAllowed
<1>23. ASSUME NEW c \in Connections, ServePing(c) PROVE OutputOK'
  BY <1>23 DEF ServePing, Reads, RelayFree, Writable
<1>24. ASSUME NEW c \in Connections, EndOfStream(c) PROVE OutputOK'
  BY <1>24 DEF EndOfStream
<1>25. ASSUME NEW c \in Connections, LeaveSlot(c) PROVE OutputOK'
  BY <1>25 DEF LeaveSlot, RelayFree, OwnsSlot
<1>26. ASSUME NEW c \in Connections, FinishAfterLeaving(c) PROVE OutputOK'
  BY <1>26 DEF FinishAfterLeaving
<1>27. ASSUME NEW c \in Connections, Connect(c) PROVE OutputOK'
  BY <1>27 DEF Connect
<1>28. ASSUME NEW c \in Connections, Send(c) PROVE OutputOK'
  BY <1>28 DEF Send, Requests
<1>29. ASSUME NEW c \in Connections, HangUp(c) PROVE OutputOK'
  BY <1>29 DEF HangUp
<1>30. CASE UNCHANGED vars
  BY <1>30 DEF vars
<1>31. QED
  BY <1>1, <1>2, <1>3, <1>4, <1>5, <1>6, <1>7, <1>8, <1>9, <1>10, <1>11, <1>12, <1>13, <1>14, <1>15, <1>16, <1>17, <1>18, <1>19, <1>20, <1>21, <1>22, <1>23, <1>24, <1>25, <1>26, <1>27, <1>28, <1>29, <1>30
  DEF Next, Environment, Reader, AcceptLoop, ClientThread, Peer, Departed
-----------------------------------------------------------------------------
\* The relay lock is held by the thread whose step says so.
LEMMA LockStep == (ThreadsOK /\ LockInv) /\ [Next]_vars => LockInv'
<1> SUFFICES ASSUME (ThreadsOK /\ LockInv), [Next]_vars PROVE LockInv'
  OBVIOUS
<1> USE DEF ThreadsOK, LockInv, Greeting, RelayFree, childVars, relayVars, exitVars, streamVars, peerVars
<1>1. CASE ChildWrites
  BY <1>1 DEF ChildWrites
<1>2. CASE ChildExits
  BY <1>2 DEF ChildExits
<1>3. CASE TerminalCloses
  BY <1>3 DEF TerminalCloses
<1>4. CASE RelayOutput
  BY <1>4 DEF RelayOutput, HasOutput, RelayFree
<1>5. CASE Forward
  BY <1>5 DEF Forward, Writable
<1>6. CASE ReadEof
  BY <1>6 DEF ReadEof, AtEof
<1>7. CASE ReapChild
  BY <1>7 DEF ReapChild
<1>8. CASE AskForClient
  BY <1>8 DEF AskForClient, RelayFree, HasClient
<1>9. CASE TellExit
  BY <1>9 DEF TellExit, RelayFree, Writable
<1>10. CASE CheckForClient
  BY <1>10 DEF CheckForClient, RelayFree, HasClient
<1>11. CASE NobodyLeftToTell
  BY <1>11 DEF NobodyLeftToTell, NothingOwedOnceClaimed
<1>12. CASE CheckDone
  BY <1>12 DEF CheckDone, WaitedLongEnough
<1>13. CASE AcceptNobody
  BY <1>13 DEF AcceptNobody
<1>14. ASSUME NEW c \in Connections, Accept(c) PROVE LockInv'
  BY <1>14 DEF Accept
<1>15. CASE EvictPrevious
  BY <1>15 DEF EvictPrevious, RelayFree, HasClient
<1>16. CASE Greet
  BY <1>16 DEF Greet, Writable, GreetingFails
<1>17. CASE RepeatExit
  BY <1>17 DEF RepeatExit, ExitKnown, Writable, GreetingFails
<1>18. CASE Install
  BY <1>18 DEF Install
<1>19. CASE Claim
  BY <1>19 DEF Claim
<1>20. ASSUME NEW c \in Connections, ServeData(c) PROVE LockInv'
  BY <1>20 DEF ServeData, Reads
<1>21. ASSUME NEW c \in Connections, ServeKill(c) PROVE LockInv'
  BY <1>21 DEF ServeKill, Reads
<1>22. ASSUME NEW c \in Connections, ServeQuit(c) PROVE LockInv'
  BY <1>22 DEF ServeQuit, Reads, QuitAllowed
<1>23. ASSUME NEW c \in Connections, ServePing(c) PROVE LockInv'
  BY <1>23 DEF ServePing, Reads, RelayFree, Writable
<1>24. ASSUME NEW c \in Connections, EndOfStream(c) PROVE LockInv'
  BY <1>24 DEF EndOfStream
<1>25. ASSUME NEW c \in Connections, LeaveSlot(c) PROVE LockInv'
  BY <1>25 DEF LeaveSlot, RelayFree, OwnsSlot
<1>26. ASSUME NEW c \in Connections, FinishAfterLeaving(c) PROVE LockInv'
  BY <1>26 DEF FinishAfterLeaving
<1>27. ASSUME NEW c \in Connections, Connect(c) PROVE LockInv'
  BY <1>27 DEF Connect
<1>28. ASSUME NEW c \in Connections, Send(c) PROVE LockInv'
  BY <1>28 DEF Send, Requests
<1>29. ASSUME NEW c \in Connections, HangUp(c) PROVE LockInv'
  BY <1>29 DEF HangUp
<1>30. CASE UNCHANGED vars
  BY <1>30 DEF vars
<1>31. QED
  BY <1>1, <1>2, <1>3, <1>4, <1>5, <1>6, <1>7, <1>8, <1>9, <1>10, <1>11, <1>12, <1>13, <1>14, <1>15, <1>16, <1>17, <1>18, <1>19, <1>20, <1>21, <1>22, <1>23, <1>24, <1>25, <1>26, <1>27, <1>28, <1>29, <1>30
  DEF Next, Environment, Reader, AcceptLoop, ClientThread, Peer, Departed

\* A connection is greeted once, and while no client holds the slot.
LEMMA GreetStep == (TypeOK /\ LockInv /\ GreetInv) /\ [Next]_vars => GreetInv'
<1> SUFFICES ASSUME (TypeOK /\ LockInv /\ GreetInv), [Next]_vars PROVE GreetInv'
  OBVIOUS
<1> USE ConnectionsAssumption DEF TypeOK, ThreadsOK, PeersOK, OutputOK, LockInv, GreetInv, Greeting, Entering, Ungreeted, RelayFree, childVars, relayVars, exitVars, streamVars, peerVars
<1>1. CASE ChildWrites
  BY <1>1 DEF ChildWrites
<1>2. CASE ChildExits
  BY <1>2 DEF ChildExits
<1>3. CASE TerminalCloses
  BY <1>3 DEF TerminalCloses
<1>4. CASE RelayOutput
  BY <1>4 DEF RelayOutput, HasOutput, RelayFree
<1>5. CASE Forward
  BY <1>5 DEF Forward, Writable
<1>6. CASE ReadEof
  BY <1>6 DEF ReadEof, AtEof
<1>7. CASE ReapChild
  BY <1>7 DEF ReapChild
<1>8. CASE AskForClient
  BY <1>8 DEF AskForClient, RelayFree, HasClient
<1>9. CASE TellExit
  BY <1>9 DEF TellExit, RelayFree, Writable
<1>10. CASE CheckForClient
  BY <1>10 DEF CheckForClient, RelayFree, HasClient
<1>11. CASE NobodyLeftToTell
  BY <1>11 DEF NobodyLeftToTell, NothingOwedOnceClaimed
<1>12. CASE CheckDone
  BY <1>12 DEF CheckDone, WaitedLongEnough
<1>13. CASE AcceptNobody
  BY <1>13 DEF AcceptNobody
<1>14. ASSUME NEW c \in Connections, Accept(c) PROVE GreetInv'
  BY <1>14 DEF Accept
<1>15. CASE EvictPrevious
  BY <1>15 DEF EvictPrevious, RelayFree, HasClient
<1>16. CASE Greet
  BY <1>16 DEF Greet, Writable, GreetingFails
<1>17. CASE RepeatExit
  BY <1>17 DEF RepeatExit, ExitKnown, Writable, GreetingFails
<1>18. CASE Install
  BY <1>18 DEF Install
<1>19. CASE Claim
  BY <1>19 DEF Claim
<1>20. ASSUME NEW c \in Connections, ServeData(c) PROVE GreetInv'
  BY <1>20 DEF ServeData, Reads
<1>21. ASSUME NEW c \in Connections, ServeKill(c) PROVE GreetInv'
  BY <1>21 DEF ServeKill, Reads
<1>22. ASSUME NEW c \in Connections, ServeQuit(c) PROVE GreetInv'
  BY <1>22 DEF ServeQuit, Reads, QuitAllowed
<1>23. ASSUME NEW c \in Connections, ServePing(c) PROVE GreetInv'
  BY <1>23 DEF ServePing, Reads, RelayFree, Writable
<1>24. ASSUME NEW c \in Connections, EndOfStream(c) PROVE GreetInv'
  BY <1>24 DEF EndOfStream
<1>25. ASSUME NEW c \in Connections, LeaveSlot(c) PROVE GreetInv'
  BY <1>25 DEF LeaveSlot, RelayFree, OwnsSlot
<1>26. ASSUME NEW c \in Connections, FinishAfterLeaving(c) PROVE GreetInv'
  BY <1>26 DEF FinishAfterLeaving
<1>27. ASSUME NEW c \in Connections, Connect(c) PROVE GreetInv'
  BY <1>27 DEF Connect
<1>28. ASSUME NEW c \in Connections, Send(c) PROVE GreetInv'
  BY <1>28 DEF Send, Requests
<1>29. ASSUME NEW c \in Connections, HangUp(c) PROVE GreetInv'
  BY <1>29 DEF HangUp
<1>30. CASE UNCHANGED vars
  BY <1>30 DEF vars
<1>31. QED
  BY <1>1, <1>2, <1>3, <1>4, <1>5, <1>6, <1>7, <1>8, <1>9, <1>10, <1>11, <1>12, <1>13, <1>14, <1>15, <1>16, <1>17, <1>18, <1>19, <1>20, <1>21, <1>22, <1>23, <1>24, <1>25, <1>26, <1>27, <1>28, <1>29, <1>30
  DEF Next, Environment, Reader, AcceptLoop, ClientThread, Peer, Departed

\* The exit is known only once everything was relayed.
LEMMA ExitStep == (TypeOK /\ ExitInv) /\ [Next]_vars => ExitInv'
<1> SUFFICES ASSUME (TypeOK /\ ExitInv), [Next]_vars PROVE ExitInv'
  OBVIOUS
<1> USE DEF TypeOK, FlagsOK, ThreadsOK, OutputOK, ExitInv, ExitSet, AtEof, HasOutput, childVars, relayVars, exitVars, streamVars, peerVars
<1>1. CASE ChildWrites
  BY <1>1 DEF ChildWrites
<1>2. CASE ChildExits
  BY <1>2 DEF ChildExits
<1>3. CASE TerminalCloses
  BY <1>3 DEF TerminalCloses
<1>4. CASE RelayOutput
  BY <1>4 DEF RelayOutput, HasOutput, RelayFree
<1>5. CASE Forward
  BY <1>5 DEF Forward, Writable
<1>6. CASE ReadEof
  BY <1>6 DEF ReadEof, AtEof
<1>7. CASE ReapChild
  BY <1>7 DEF ReapChild
<1>8. CASE AskForClient
  BY <1>8 DEF AskForClient, RelayFree, HasClient
<1>9. CASE TellExit
  BY <1>9 DEF TellExit, RelayFree, Writable
<1>10. CASE CheckForClient
  BY <1>10 DEF CheckForClient, RelayFree, HasClient
<1>11. CASE NobodyLeftToTell
  BY <1>11 DEF NobodyLeftToTell, NothingOwedOnceClaimed
<1>12. CASE CheckDone
  BY <1>12 DEF CheckDone, WaitedLongEnough
<1>13. CASE AcceptNobody
  BY <1>13 DEF AcceptNobody
<1>14. ASSUME NEW c \in Connections, Accept(c) PROVE ExitInv'
  BY <1>14 DEF Accept
<1>15. CASE EvictPrevious
  BY <1>15 DEF EvictPrevious, RelayFree, HasClient
<1>16. CASE Greet
  BY <1>16 DEF Greet, Writable, GreetingFails
<1>17. CASE RepeatExit
  BY <1>17 DEF RepeatExit, ExitKnown, Writable, GreetingFails
<1>18. CASE Install
  BY <1>18 DEF Install
<1>19. CASE Claim
  BY <1>19 DEF Claim
<1>20. ASSUME NEW c \in Connections, ServeData(c) PROVE ExitInv'
  BY <1>20 DEF ServeData, Reads
<1>21. ASSUME NEW c \in Connections, ServeKill(c) PROVE ExitInv'
  BY <1>21 DEF ServeKill, Reads
<1>22. ASSUME NEW c \in Connections, ServeQuit(c) PROVE ExitInv'
  BY <1>22 DEF ServeQuit, Reads, QuitAllowed
<1>23. ASSUME NEW c \in Connections, ServePing(c) PROVE ExitInv'
  BY <1>23 DEF ServePing, Reads, RelayFree, Writable
<1>24. ASSUME NEW c \in Connections, EndOfStream(c) PROVE ExitInv'
  BY <1>24 DEF EndOfStream
<1>25. ASSUME NEW c \in Connections, LeaveSlot(c) PROVE ExitInv'
  BY <1>25 DEF LeaveSlot, RelayFree, OwnsSlot
<1>26. ASSUME NEW c \in Connections, FinishAfterLeaving(c) PROVE ExitInv'
  BY <1>26 DEF FinishAfterLeaving
<1>27. ASSUME NEW c \in Connections, Connect(c) PROVE ExitInv'
  BY <1>27 DEF Connect
<1>28. ASSUME NEW c \in Connections, Send(c) PROVE ExitInv'
  BY <1>28 DEF Send, Requests
<1>29. ASSUME NEW c \in Connections, HangUp(c) PROVE ExitInv'
  BY <1>29 DEF HangUp
<1>30. CASE UNCHANGED vars
  BY <1>30 DEF vars
<1>31. QED
  BY <1>1, <1>2, <1>3, <1>4, <1>5, <1>6, <1>7, <1>8, <1>9, <1>10, <1>11, <1>12, <1>13, <1>14, <1>15, <1>16, <1>17, <1>18, <1>19, <1>20, <1>21, <1>22, <1>23, <1>24, <1>25, <1>26, <1>27, <1>28, <1>29, <1>30
  DEF Next, Environment, Reader, AcceptLoop, ClientThread, Peer, Departed

\* Whoever holds the slot has everything relayed so far.
LEMMA SplitStep == (TypeOK /\ LockInv /\ GreetInv /\ SplitInv) /\ [Next]_vars => SplitInv'
<1> SUFFICES ASSUME (TypeOK /\ LockInv /\ GreetInv /\ SplitInv), [Next]_vars PROVE SplitInv'
  OBVIOUS
<1> USE ConnectionsAssumption DEF TypeOK, ThreadsOK, PeersOK, OutputOK, LockInv, GreetInv, SplitInv, NoGapNoOverlap, Greeting, Entering, Ungreeted, RelayFree, childVars, relayVars, exitVars, streamVars, peerVars
<1>1. CASE ChildWrites
  BY <1>1 DEF ChildWrites
<1>2. CASE ChildExits
  BY <1>2 DEF ChildExits
<1>3. CASE TerminalCloses
  BY <1>3 DEF TerminalCloses
<1>4. CASE RelayOutput
  BY <1>4 DEF RelayOutput, HasOutput, RelayFree
<1>5. CASE Forward
  <2>1. slot # None => slot \in Connections /\ data[slot] \in Seq(Nat)
    OBVIOUS
  <2>2. slot # None => base[slot] \in Nat /\ history \in Nat
    OBVIOUS
  <2>3. CASE Writable(slot)
    <3>1. slot # None /\ lock = "reader" /\ lock' = "free"
      BY <1>5, <2>3 DEF Forward, Writable
    <3>2. base[slot] + Len(data[slot]) = history - 1 /\ Len(data[slot]) \in Nat
      BY <2>1, <3>1, LenProperties
    <3>3. PICK more \in Seq(Nat) : more = Append(data[slot], history)
      BY <2>1, <2>2, <3>1, AppendProperties
    <3>4. data' = [data EXCEPT ![slot] = more]
      BY <1>5, <2>3, <3>3 DEF Forward
    <3>5. Len(more) = Len(data[slot]) + 1 /\ base[slot] + Len(more) = history
      <4>1. Len(more) = Len(data[slot]) + 1
        BY <2>1, <2>2, <3>1, <3>3, AppendProperties
      <4>2. base[slot] \in Nat /\ history \in Nat
        BY <2>2, <3>1
      <4> HIDE DEF TypeOK, ThreadsOK, PeersOK, OutputOK, LockInv, GreetInv, SplitInv
      <4>3. QED
        BY <3>2, <4>1, <4>2, SMTT(30)
    <3>6. \A i \in 1..Len(more) : more[i] = base[slot] + i
      <4>1. \A i \in 1..Len(data[slot]) : data[slot][i] = base[slot] + i
        BY <2>1, <3>1
      <4>2. \A i \in 1..Len(data[slot]) : more[i] = data[slot][i]
        BY <2>1, <2>2, <3>1, <3>3, AppendProperties
      <4>3. more[Len(more)] = history
        BY <2>1, <2>2, <3>1, <3>3, AppendProperties
      <4>4. TAKE i \in 1..Len(more)
      <4>5. CASE i = Len(more)
        BY <3>5, <4>3, <4>5
      <4>6. CASE i # Len(more)
        <5>1. i \in 1..Len(data[slot])
          BY <3>2, <3>5, <4>6, SMTT(30)
        <5>2. QED
          BY <4>1, <4>2, <5>1
      <4>7. QED
        BY <4>5, <4>6
    <3>7. NoGapNoOverlap'
      BY <1>5, <2>1, <3>1, <3>4, <3>6 DEF Forward
    <3>8. acceptPc \notin {"repeat", "install"}
      BY <3>1
    <3>9. UNCHANGED <<slot, base, history, acceptPc>>
      BY <1>5, <2>3 DEF Forward
    <3>10. base'[slot'] + Len(data'[slot']) = history'
      BY <2>1, <3>1, <3>4, <3>5, <3>9
    <3>11. QED
      BY <3>1, <3>7, <3>8, <3>9, <3>10
  <2>4. CASE ~Writable(slot)
    BY <1>5, <2>4 DEF Forward
  <2>5. QED
    BY <2>3, <2>4
<1>6. CASE ReadEof
  BY <1>6 DEF ReadEof, AtEof
<1>7. CASE ReapChild
  BY <1>7 DEF ReapChild
<1>8. CASE AskForClient
  BY <1>8 DEF AskForClient, RelayFree, HasClient
<1>9. CASE TellExit
  BY <1>9 DEF TellExit, RelayFree, Writable
<1>10. CASE CheckForClient
  BY <1>10 DEF CheckForClient, RelayFree, HasClient
<1>11. CASE NobodyLeftToTell
  BY <1>11 DEF NobodyLeftToTell, NothingOwedOnceClaimed
<1>12. CASE CheckDone
  BY <1>12 DEF CheckDone, WaitedLongEnough
<1>13. CASE AcceptNobody
  BY <1>13 DEF AcceptNobody
<1>14. ASSUME NEW c \in Connections, Accept(c) PROVE SplitInv'
  BY <1>14 DEF Accept
<1>15. CASE EvictPrevious
  BY <1>15 DEF EvictPrevious, RelayFree, HasClient
<1>16. CASE Greet
  <2>1. slot = None /\ accepting \in Connections /\ data[accepting] = <<>>
    BY <1>16 DEF Greet
  <2>2. CASE Writable(accepting)
    <3>1. base' = [base EXCEPT ![accepting] = history] /\ data' = data
      BY <1>16, <2>2 DEF Greet
    <3>2. \A c \in Connections : data[c] # <<>> => base'[c] = base[c]
      BY <2>1, <3>1
    <3>2a. NoGapNoOverlap'
      <4> HIDE DEF TypeOK, ThreadsOK, PeersOK, OutputOK, LockInv, GreetInv, SplitInv
      <4>1. \A c \in Connections : Len(data[c]) \in Nat
        BY LenProperties DEF TypeOK, OutputOK, PeersOK
      <4>2. \A c \in Connections : c # accepting => base'[c] = base[c]
        BY <2>1, <3>1 DEF TypeOK, PeersOK, OutputOK, ThreadsOK
      <4>3. QED
        BY <2>1, <3>1, <4>2 DEF SplitInv, NoGapNoOverlap
    <3>3. slot' = None /\ accepting' = accepting /\ history' = history
      BY <1>16, <2>1 DEF Greet
    <3>4. QED
      BY <2>1, <3>1, <3>2a, <3>3
  <2>3. CASE ~Writable(accepting)
    BY <1>16, <2>1, <2>3 DEF Greet, GreetingFails
  <2>4. QED
    BY <2>2, <2>3
<1>17. CASE RepeatExit
  BY <1>17, SMTT(30) DEF RepeatExit, ExitKnown, Writable, GreetingFails
<1>18. CASE Install
  BY <1>18 DEF Install
<1>19. CASE Claim
  BY <1>19 DEF Claim
<1>20. ASSUME NEW c \in Connections, ServeData(c) PROVE SplitInv'
  BY <1>20 DEF ServeData, Reads
<1>21. ASSUME NEW c \in Connections, ServeKill(c) PROVE SplitInv'
  BY <1>21 DEF ServeKill, Reads
<1>22. ASSUME NEW c \in Connections, ServeQuit(c) PROVE SplitInv'
  BY <1>22 DEF ServeQuit, Reads, QuitAllowed
<1>23. ASSUME NEW c \in Connections, ServePing(c) PROVE SplitInv'
  BY <1>23 DEF ServePing, Reads, RelayFree, Writable
<1>24. ASSUME NEW c \in Connections, EndOfStream(c) PROVE SplitInv'
  BY <1>24 DEF EndOfStream
<1>25. ASSUME NEW c \in Connections, LeaveSlot(c) PROVE SplitInv'
  BY <1>25 DEF LeaveSlot, RelayFree, OwnsSlot
<1>26. ASSUME NEW c \in Connections, FinishAfterLeaving(c) PROVE SplitInv'
  BY <1>26 DEF FinishAfterLeaving
<1>27. ASSUME NEW c \in Connections, Connect(c) PROVE SplitInv'
  BY <1>27 DEF Connect
<1>28. ASSUME NEW c \in Connections, Send(c) PROVE SplitInv'
  BY <1>28 DEF Send, Requests
<1>29. ASSUME NEW c \in Connections, HangUp(c) PROVE SplitInv'
  BY <1>29 DEF HangUp
<1>30. CASE UNCHANGED vars
  BY <1>30 DEF vars
<1>31. QED
  BY <1>1, <1>2, <1>3, <1>4, <1>5, <1>6, <1>7, <1>8, <1>9, <1>10, <1>11, <1>12, <1>13, <1>14, <1>15, <1>16, <1>17, <1>18, <1>19, <1>20, <1>21, <1>22, <1>23, <1>24, <1>25, <1>26, <1>27, <1>28, <1>29, <1>30
  DEF Next, Environment, Reader, AcceptLoop, ClientThread, Peer, Departed

\* Telling the exit comes last and finds nobody missing.
LEMMA ToldStep == (TypeOK /\ LockInv /\ GreetInv /\ SplitInv /\ ExitInv /\ ToldInv) /\ [Next]_vars => ToldInv'
<1> SUFFICES ASSUME (TypeOK /\ LockInv /\ GreetInv /\ SplitInv /\ ExitInv /\ ToldInv), [Next]_vars PROVE ToldInv'
  OBVIOUS
<1> USE ConnectionsAssumption DEF TypeOK, FlagsOK, ThreadsOK, PeersOK, OutputOK, LockInv, GreetInv, SplitInv, ExitInv, ExitSet, ToldInv, Greeting, Entering, Ungreeted, RelayFree, AtEof, HasOutput, childVars, relayVars, exitVars, streamVars, peerVars
<1>1. CASE ChildWrites
  BY <1>1 DEF ChildWrites
<1>2. CASE ChildExits
  BY <1>2 DEF ChildExits
<1>3. CASE TerminalCloses
  BY <1>3 DEF TerminalCloses
<1>4. CASE RelayOutput
  BY <1>4 DEF RelayOutput, HasOutput, RelayFree
<1>5. CASE Forward
  BY <1>5 DEF Forward, Writable
<1>6. CASE ReadEof
  BY <1>6 DEF ReadEof, AtEof
<1>7. CASE ReapChild
  BY <1>7 DEF ReapChild
<1>8. CASE AskForClient
  BY <1>8 DEF AskForClient, RelayFree, HasClient
<1>9. CASE TellExit
  BY <1>9 DEF TellExit, RelayFree, Writable
<1>10. CASE CheckForClient
  BY <1>10 DEF CheckForClient, RelayFree, HasClient
<1>11. CASE NobodyLeftToTell
  BY <1>11 DEF NobodyLeftToTell, NothingOwedOnceClaimed
<1>12. CASE CheckDone
  BY <1>12 DEF CheckDone, WaitedLongEnough
<1>13. CASE AcceptNobody
  BY <1>13 DEF AcceptNobody
<1>14. ASSUME NEW c \in Connections, Accept(c) PROVE ToldInv'
  BY <1>14 DEF Accept
<1>15. CASE EvictPrevious
  BY <1>15 DEF EvictPrevious, RelayFree, HasClient
<1>16. CASE Greet
  BY <1>16 DEF Greet, Writable, GreetingFails
<1>17. CASE RepeatExit
  <2>1. accepting \in Connections /\ slot = None /\ slot' = None
    BY <1>17 DEF RepeatExit
  <2>2. CASE ~ExitKnown
    BY <1>17, <2>1, <2>2 DEF RepeatExit, ExitKnown
  <2>3. CASE ExitKnown /\ ~Writable(accepting)
    BY <1>17, <2>1, <2>3 DEF RepeatExit, GreetingFails
  <2>4. CASE ExitKnown /\ Writable(accepting)
    <3>1. /\ told' = [told EXCEPT ![accepting] = TRUE]
          /\ UNCHANGED <<base, data, written, exitCode, readerPc, accepting>>
      BY <1>17, <2>4 DEF RepeatExit
    <3>2. base[accepting] + Len(data[accepting]) = written /\ exitCode
      BY <1>17, <2>4 DEF RepeatExit, ExitKnown
    <3>3. QED
      BY <2>1, <3>1, <3>2
  <2>5. QED
    BY <2>2, <2>3, <2>4
<1>18. CASE Install
  BY <1>18 DEF Install
<1>19. CASE Claim
  BY <1>19 DEF Claim
<1>20. ASSUME NEW c \in Connections, ServeData(c) PROVE ToldInv'
  BY <1>20 DEF ServeData, Reads
<1>21. ASSUME NEW c \in Connections, ServeKill(c) PROVE ToldInv'
  BY <1>21 DEF ServeKill, Reads
<1>22. ASSUME NEW c \in Connections, ServeQuit(c) PROVE ToldInv'
  BY <1>22 DEF ServeQuit, Reads, QuitAllowed
<1>23. ASSUME NEW c \in Connections, ServePing(c) PROVE ToldInv'
  BY <1>23 DEF ServePing, Reads, RelayFree, Writable
<1>24. ASSUME NEW c \in Connections, EndOfStream(c) PROVE ToldInv'
  BY <1>24 DEF EndOfStream
<1>25. ASSUME NEW c \in Connections, LeaveSlot(c) PROVE ToldInv'
  BY <1>25 DEF LeaveSlot, RelayFree, OwnsSlot
<1>26. ASSUME NEW c \in Connections, FinishAfterLeaving(c) PROVE ToldInv'
  BY <1>26 DEF FinishAfterLeaving
<1>27. ASSUME NEW c \in Connections, Connect(c) PROVE ToldInv'
  BY <1>27 DEF Connect
<1>28. ASSUME NEW c \in Connections, Send(c) PROVE ToldInv'
  BY <1>28 DEF Send, Requests
<1>29. ASSUME NEW c \in Connections, HangUp(c) PROVE ToldInv'
  BY <1>29 DEF HangUp
<1>30. CASE UNCHANGED vars
  BY <1>30 DEF vars
<1>31. QED
  BY <1>1, <1>2, <1>3, <1>4, <1>5, <1>6, <1>7, <1>8, <1>9, <1>10, <1>11, <1>12, <1>13, <1>14, <1>15, <1>16, <1>17, <1>18, <1>19, <1>20, <1>21, <1>22, <1>23, <1>24, <1>25, <1>26, <1>27, <1>28, <1>29, <1>30
  DEF Next, Environment, Reader, AcceptLoop, ClientThread, Peer, Departed

\* The keeper is done only once the spawner was answered.
LEMMA DoneStep == (TypeOK /\ LockInv /\ GreetInv /\ ExitInv /\ DoneInv) /\ [Next]_vars => DoneInv'
<1> SUFFICES ASSUME (TypeOK /\ LockInv /\ GreetInv /\ ExitInv /\ DoneInv), [Next]_vars PROVE DoneInv'
  OBVIOUS
<1> USE ConnectionsAssumption DEF TypeOK, FlagsOK, ThreadsOK, PeersOK, LockInv, GreetInv, ExitInv, ExitSet, DoneInv, SpawnerWaits, Greeting, Entering, childVars, relayVars, exitVars, streamVars, peerVars
<1>1. CASE ChildWrites
  BY <1>1 DEF ChildWrites
<1>2. CASE ChildExits
  BY <1>2 DEF ChildExits
<1>3. CASE TerminalCloses
  BY <1>3 DEF TerminalCloses
<1>4. CASE RelayOutput
  BY <1>4 DEF RelayOutput, HasOutput, RelayFree
<1>5. CASE Forward
  BY <1>5 DEF Forward, Writable
<1>6. CASE ReadEof
  BY <1>6 DEF ReadEof, AtEof
<1>7. CASE ReapChild
  BY <1>7 DEF ReapChild
<1>8. CASE AskForClient
  BY <1>8 DEF AskForClient, RelayFree, HasClient
<1>9. CASE TellExit
  BY <1>9 DEF TellExit, RelayFree, Writable
<1>10. CASE CheckForClient
  BY <1>10 DEF CheckForClient, RelayFree, HasClient
<1>11. CASE NobodyLeftToTell
  BY <1>11 DEF NobodyLeftToTell, NothingOwedOnceClaimed
<1>12. CASE CheckDone
  BY <1>12 DEF CheckDone, WaitedLongEnough
<1>13. CASE AcceptNobody
  BY <1>13 DEF AcceptNobody
<1>14. ASSUME NEW c \in Connections, Accept(c) PROVE DoneInv'
  BY <1>14 DEF Accept
<1>15. CASE EvictPrevious
  BY <1>15 DEF EvictPrevious, RelayFree, HasClient
<1>16. CASE Greet
  BY <1>16 DEF Greet, Writable, GreetingFails
<1>17. CASE RepeatExit
  BY <1>17 DEF RepeatExit, ExitKnown, Writable, GreetingFails
<1>18. CASE Install
  BY <1>18 DEF Install
<1>19. CASE Claim
  BY <1>19 DEF Claim
<1>20. ASSUME NEW c \in Connections, ServeData(c) PROVE DoneInv'
  BY <1>20 DEF ServeData, Reads
<1>21. ASSUME NEW c \in Connections, ServeKill(c) PROVE DoneInv'
  BY <1>21 DEF ServeKill, Reads
<1>22. ASSUME NEW c \in Connections, ServeQuit(c) PROVE DoneInv'
  BY <1>22 DEF ServeQuit, Reads, QuitAllowed
<1>23. ASSUME NEW c \in Connections, ServePing(c) PROVE DoneInv'
  BY <1>23 DEF ServePing, Reads, RelayFree, Writable
<1>24. ASSUME NEW c \in Connections, EndOfStream(c) PROVE DoneInv'
  BY <1>24 DEF EndOfStream
<1>25. ASSUME NEW c \in Connections, LeaveSlot(c) PROVE DoneInv'
  BY <1>25 DEF LeaveSlot, RelayFree, OwnsSlot
<1>26. ASSUME NEW c \in Connections, FinishAfterLeaving(c) PROVE DoneInv'
  BY <1>26 DEF FinishAfterLeaving
<1>27. ASSUME NEW c \in Connections, Connect(c) PROVE DoneInv'
  BY <1>27 DEF Connect
<1>28. ASSUME NEW c \in Connections, Send(c) PROVE DoneInv'
  BY <1>28 DEF Send, Requests
<1>29. ASSUME NEW c \in Connections, HangUp(c) PROVE DoneInv'
  BY <1>29 DEF HangUp
<1>30. CASE UNCHANGED vars
  BY <1>30 DEF vars
<1>31. QED
  BY <1>1, <1>2, <1>3, <1>4, <1>5, <1>6, <1>7, <1>8, <1>9, <1>10, <1>11, <1>12, <1>13, <1>14, <1>15, <1>16, <1>17, <1>18, <1>19, <1>20, <1>21, <1>22, <1>23, <1>24, <1>25, <1>26, <1>27, <1>28, <1>29, <1>30
  DEF Next, Environment, Reader, AcceptLoop, ClientThread, Peer, Departed
-----------------------------------------------------------------------------
\* The inductive invariant holds initially.
LEMMA InductiveInit == Init => IInv
<1> SUFFICES ASSUME Init PROVE IInv
  OBVIOUS
<1>1. TypeOK
  BY TypeInit
<1>2. LockInv /\ GreetInv /\ ExitInv /\ ToldInv
  BY ConnectionsAssumption
  DEF Init, LockInv, GreetInv, ExitInv, ToldInv, Greeting, Entering, Ungreeted, ExitSet
<1>3. SplitInv
  BY DEF Init, SplitInv, NoGapNoOverlap
<1>4. DoneInv
  BY DEF Init, DoneInv, SpawnerWaits
<1>5. QED
  BY <1>1, <1>2, <1>3, <1>4 DEF IInv

\* Every step of the keeper keeps it.
LEMMA InductiveStep == IInv /\ [Next]_vars => IInv'
<1> SUFFICES ASSUME IInv, [Next]_vars PROVE IInv'
  OBVIOUS
<1>1. TypeOK'
  BY FlagsStep, ThreadsStep, PeersStep, OutputStep DEF IInv, TypeOK
<1>2. LockInv' /\ GreetInv' /\ SplitInv'
  BY LockStep, GreetStep, SplitStep DEF IInv, TypeOK
<1>3. ExitInv' /\ ToldInv' /\ DoneInv'
  BY ExitStep, ToldStep, DoneStep DEF IInv
<1>4. QED
  BY <1>1, <1>2, <1>3 DEF IInv

\* The inductive invariant holds in every reachable state of the keeper.
THEOREM Invariance == Spec => []IInv
BY InductiveInit, InductiveStep, PTL DEF Spec

\* The keeper's state is always well typed.
THEOREM TypeCorrect == Spec => []TypeOK
<1>1. IInv => TypeOK
  BY DEF IInv
<1>2. QED
  BY Invariance, <1>1, PTL

\* What a client rebuilds, the history up to its greeting's byte count and
\* the DATA frames after it, has no gap and no overlap (keeper.rs, the relay
\* lock held across the greeting).
THEOREM GreetingSplit == Spec => []NoGapNoOverlap
<1>1. IInv => NoGapNoOverlap
  BY DEF IInv, SplitInv
<1>2. QED
  BY Invariance, <1>1, PTL

\* A client told of the exit already has all of the session's output.
THEOREM ExitIsLast == Spec => []ExitComesLast
<1>1. IInv => ExitComesLast
  <2> SUFFICES ASSUME IInv, NEW c \in Connections, told[c]
               PROVE  ~ttyOpen /\ base[c] + Len(data[c]) = written
    BY DEF ExitComesLast
  <2>1. QED
    BY DEF IInv, ToldInv, ExitInv, ExitSet
<1>2. QED
  BY Invariance, <1>1, PTL

\* Whoever holds the slot after the reader announced the exit was told.
THEOREM EveryListenerTold == Spec => []NobodyIsLeftUntold
<1>1. IInv => NobodyIsLeftUntold
  BY DEF IInv, ToldInv, NobodyIsLeftUntold
<1>2. QED
  BY Invariance, <1>1, PTL

\* The keeper outlives its child, and its spawner's wait for a greeting.
THEOREM NoEarlyDeparture == Spec => []LeavesOnlyWhenDone
<1>1. IInv => LeavesOnlyWhenDone
  BY DEF IInv, ExitInv, DoneInv, LeavesOnlyWhenDone
<1>2. QED
  BY Invariance, <1>1, PTL

\* A client still there loses the slot only to its own thread or to the next
\* client: one step from a state that satisfies the inductive invariant.
LEMMA EvictionStep ==
    ASSUME IInv, Next, NEW d \in Connections,
           slot = d, slot' # d, link[d] = "open"
    PROVE  threadPc[d] = "leaving" \/ acceptPc = "evict"
<1> USE ConnectionsAssumption DEF childVars, relayVars, exitVars, streamVars, peerVars
<1>1. d # None /\ Writable(slot) /\ HasClient
  BY DEF Writable, HasClient
<1>2. CASE Forward
  BY <1>2, <1>1 DEF Forward
<1>3. CASE TellExit
  BY <1>3, <1>1 DEF TellExit
<1>4. ASSUME NEW c \in Connections, ServePing(c) PROVE threadPc[d] = "leaving" \/ acceptPc = "evict"
  BY <1>4, <1>1 DEF ServePing
<1>5. CASE EvictPrevious
  BY <1>5 DEF EvictPrevious
<1>6. CASE Install
  BY <1>6, <1>1 DEF Install, IInv, GreetInv, Greeting, HasClient
<1>7. ASSUME NEW c \in Connections, LeaveSlot(c) PROVE threadPc[d] = "leaving" \/ acceptPc = "evict"
  BY <1>7 DEF LeaveSlot, OwnsSlot
<1>8. CASE slot' = slot
  BY <1>8
<1>9. QED
  BY <1>2, <1>3, <1>4, <1>5, <1>6, <1>7, <1>8
  DEF Next, Environment, Reader, AcceptLoop, ClientThread, Peer, Departed, vars,
      ChildWrites, ChildExits, TerminalCloses, RelayOutput, ReadEof, ReapChild,
      AskForClient, CheckForClient, NobodyLeftToTell, CheckDone, AcceptNobody, Accept,
      Greet, RepeatExit, Claim, ServeData, ServeKill, ServeQuit,
      EndOfStream, FinishAfterLeaving, Connect, Send, HangUp,
      GreetingFails, Reads

\* The thread of a replaced client never evicts its replacement (keeper.rs,
\* the generation kept with the slot).
THEOREM ReplacementKept == Spec => NobodyElseEvicts
<1>1. IInv /\ [Next]_vars =>
        [\A c \in Connections :
            slot = c /\ slot' # c /\ link[c] = "open" =>
                threadPc[c] = "leaving" \/ acceptPc = "evict"]_vars
  BY EvictionStep
<1>2. QED
  BY Invariance, <1>1, PTL DEF Spec, NobodyElseEvicts
-----------------------------------------------------------------------------
(***************************************************************************)
(* The keeper implements the transcript.                                   *)
(***************************************************************************)
\* What each client can rebuild.
Seen == [c \in Connections |-> base[c] + Len(data[c])]

\* The keeper starts as a transcript with nothing on record.
LEMMA TranscriptInit == Init => Transcript!Init
<1> SUFFICES ASSUME Init PROVE Transcript!Init
  OBVIOUS
<1>1. [c \in Connections |-> base[c] + Len(data[c])] = [c \in Connections |-> 0]
  BY DEF Init
<1>2. QED
  BY <1>1 DEF Init, Transcript!Init

\* A chunk that was forwarded is on record, and seen by the client in the slot.
LEMMA ForwardEmits == IInv /\ IInv' /\ Forward => Transcript!Emit
<1> SUFFICES ASSUME IInv, IInv', Forward PROVE Transcript!Emit
  OBVIOUS
<1> USE DEF childVars, relayVars, exitVars, streamVars, peerVars
<1>1. /\ lock = "reader" /\ lock' = "free" /\ history' = history
      /\ acceptPc' = acceptPc /\ acceptPc \notin {"repeat", "install"}
      /\ UNCHANGED <<exitCode, greeted, told, base>> /\ history \in Nat
  BY DEF Forward, IInv, LockInv, Greeting, TypeOK, OutputOK
<1>2. ~exitCode
  BY DEF Forward, IInv, ExitInv, ExitSet
<1>3. CASE Writable(slot)
  <2>1. slot # None /\ slot \in Connections /\ slot' = slot
    BY <1>3 DEF Writable, Forward, IInv, TypeOK, ThreadsOK
  <2>2. data[slot] \in Seq(Nat) /\ base[slot] \in Nat
    BY <2>1 DEF IInv, TypeOK, OutputOK
  <2>3. data' = [data EXCEPT ![slot] = Append(data[slot], history)]
    BY <1>3 DEF Forward
  <2>4. Len(Append(data[slot], history)) = Len(data[slot]) + 1
    BY <1>1, <2>2, AppendProperties
  <2>5. data \in [Connections -> Seq(Nat)]
    BY DEF IInv, TypeOK, OutputOK
  <2>6. base[slot] + Len(data'[slot]) = (base[slot] + Len(data[slot])) + 1
    <3>1. data'[slot] = Append(data[slot], history)
      BY <2>1, <2>3, <2>5
    <3>2. Len(data[slot]) \in Nat
      BY <2>2, LenProperties
    <3>3. QED
      BY <2>2, <2>4, <3>1, <3>2, SMTT(30)
  <2>7. \A c \in Connections : c # slot => data'[c] = data[c]
    BY <2>3, <2>5
  <2>8. Seen' = [Seen EXCEPT ![slot] = @ + 1]
    BY <1>1, <2>1, <2>6, <2>7 DEF Seen
  <2>9. QED
    BY <1>1, <1>2, <2>1, <2>8 DEF Transcript!Emit, Seen
<1>4. CASE ~Writable(slot)
  BY <1>1, <1>2, <1>4 DEF Forward, Transcript!Emit
<1>5. QED
  BY <1>3, <1>4

\* A HELLO that was written attaches its client to all that is on record.
LEMMA GreetAttaches ==
    IInv /\ Greet => (\E c \in Connections : Transcript!Attach(c))
                     \/ UNCHANGED Transcript!vars
<1> SUFFICES ASSUME IInv, Greet
             PROVE  (\E c \in Connections : Transcript!Attach(c))
                    \/ UNCHANGED Transcript!vars
  OBVIOUS
<1> USE DEF childVars, relayVars, exitVars, streamVars, peerVars
<1>1. /\ lock = "accept" /\ slot = None /\ accepting \in Connections
      /\ Ungreeted(accepting) /\ acceptPc = "hello"
      /\ UNCHANGED <<slot, history, exitCode, accepting>> /\ history \in Nat
  BY DEF Greet, IInv, LockInv, GreetInv, Greeting, Entering, TypeOK, OutputOK
<1>2. CASE Writable(accepting)
  <2>1. /\ greeted' = [greeted EXCEPT ![accepting] = TRUE]
        /\ base' = [base EXCEPT ![accepting] = history]
        /\ acceptPc' = "repeat"
        /\ UNCHANGED <<lock, data, told>>
    BY <1>2 DEF Greet
  <2>2. base \in [Connections -> Nat] /\ data[accepting] = <<>>
    BY <1>1 DEF IInv, TypeOK, OutputOK, Ungreeted
  <2>3. Seen' = [Seen EXCEPT ![accepting] = history]
    <3>1. base'[accepting] + Len(data'[accepting]) = history
      BY <1>1, <2>1, <2>2
    <3>2. \A c \in Connections : c # accepting => base'[c] = base[c]
      BY <2>1, <2>2
    <3>3. \A c \in Connections : base'[c] + Len(data'[c]) =
              IF c = accepting THEN history ELSE base[c] + Len(data[c])
      BY <1>1, <2>1, <3>1, <3>2
    <3>4. QED
      BY <3>3, <1>1 DEF Seen
  <2>4. Transcript!Attach(accepting)
    BY <1>1, <2>1, <2>3 DEF Transcript!Attach, Seen, Ungreeted
  <2>5. \E c \in Connections : Transcript!Attach(c)
    BY <1>1, <2>4 DEF Transcript!Attach
  <2>6. QED
    BY <2>5
<1>3. CASE ~Writable(accepting)
  BY <1>1, <1>3 DEF Greet, GreetingFails, Transcript!vars
<1>4. QED
  BY <1>2, <1>3

\* Repeating the exit announces it; a greeting that fails there detaches.
LEMMA RepeatAnnounces ==
    IInv /\ RepeatExit => Transcript!Announce \/ Transcript!Detach
                          \/ UNCHANGED Transcript!vars
<1> SUFFICES ASSUME IInv, RepeatExit
             PROVE  Transcript!Announce \/ Transcript!Detach
                    \/ UNCHANGED Transcript!vars
  OBVIOUS
<1> USE DEF childVars, relayVars, exitVars, streamVars, peerVars
<1>1. /\ lock = "accept" /\ slot = None /\ accepting \in Connections
      /\ accepting # None /\ acceptPc = "repeat"
      /\ UNCHANGED <<slot, history, exitCode, accepting>>
  BY ConnectionsAssumption DEF RepeatExit, IInv, LockInv, GreetInv, Greeting, Entering
<1>2. CASE ~ExitKnown
  BY <1>1, <1>2 DEF RepeatExit, Transcript!vars, streamVars
<1>3. CASE ExitKnown /\ Writable(accepting)
  BY <1>1, <1>3 DEF RepeatExit, ExitKnown, Transcript!Announce
<1>4. CASE ExitKnown /\ ~Writable(accepting)
  BY <1>1, <1>4 DEF RepeatExit, GreetingFails, Transcript!Detach, streamVars
<1>5. QED
  BY <1>2, <1>3, <1>4

\* Every step of the keeper is a step of the transcript or leaves it alone.
LEMMA TranscriptStep ==
    IInv /\ IInv' /\ [Next]_vars => [Transcript!Next]_(Transcript!vars)
<1> SUFFICES ASSUME IInv, IInv', [Next]_vars
             PROVE  Transcript!Next \/ UNCHANGED Transcript!vars
  OBVIOUS
<1> USE DEF childVars, relayVars, exitVars, streamVars, peerVars
<1>1. CASE Forward
  BY <1>1, ForwardEmits DEF Transcript!Next
<1>2. CASE ReapChild
  BY <1>2 DEF ReapChild, Transcript!Next, Transcript!End, IInv, ExitInv, ExitSet
<1>3. CASE TellExit
  <2>1. acceptPc \notin {"repeat", "install"} /\ exitCode
    BY <1>3 DEF TellExit, RelayFree, IInv, LockInv, Greeting, ExitInv, ExitSet
  <2>2. QED
    BY <1>3, <2>1 DEF TellExit, Writable, Transcript!Next, Transcript!Announce,
       Transcript!Detach, Transcript!vars
<1>4. CASE EvictPrevious
  <2>1. lock = "free"
    BY <1>4 DEF EvictPrevious, RelayFree
  <2>2. QED
    BY <1>4, <2>1 DEF EvictPrevious, HasClient, Transcript!Next, Transcript!Detach,
       Transcript!vars
<1>5. CASE Greet
  BY <1>5, GreetAttaches DEF Transcript!Next
<1>6. CASE RepeatExit
  BY <1>6, RepeatAnnounces DEF Transcript!Next
<1>7. CASE Install
  <2>1. lock = "accept"
    BY <1>7 DEF Install, IInv, LockInv, Greeting
  <2>2. QED
    BY <1>7, <2>1 DEF Install, Transcript!vars
<1>8. ASSUME NEW c \in Connections, ServePing(c)
      PROVE  Transcript!Next \/ UNCHANGED Transcript!vars
  <2>1. acceptPc \notin {"repeat", "install"}
    BY <1>8 DEF ServePing, RelayFree, IInv, LockInv, Greeting
  <2>2. QED
    BY <1>8, <2>1 DEF ServePing, Reads, Writable, Transcript!Next, Transcript!Detach,
       Transcript!vars
<1>9. ASSUME NEW c \in Connections, LeaveSlot(c)
      PROVE  Transcript!Next \/ UNCHANGED Transcript!vars
  <2>1. acceptPc \notin {"repeat", "install"}
    BY <1>9 DEF LeaveSlot, RelayFree, IInv, LockInv, Greeting
  <2>2. QED
    BY <1>9, <2>1, ConnectionsAssumption
    DEF LeaveSlot, OwnsSlot, Transcript!Next, Transcript!Detach, Transcript!vars
<1>10. CASE ChildWrites
  BY <1>10 DEF ChildWrites, Transcript!vars
<1>11. CASE ChildExits
  BY <1>11 DEF ChildExits, Transcript!vars
<1>12. CASE TerminalCloses
  BY <1>12 DEF TerminalCloses, Transcript!vars
<1>13. CASE RelayOutput
  BY <1>13 DEF RelayOutput, RelayFree, Transcript!vars, IInv, LockInv, TypeOK, OutputOK
<1>14. CASE ReadEof
  BY <1>14 DEF ReadEof, AtEof, Transcript!vars
<1>15. CASE AskForClient
  BY <1>15 DEF AskForClient, RelayFree, HasClient, Transcript!vars
<1>16. CASE CheckForClient
  BY <1>16 DEF CheckForClient, RelayFree, HasClient, Transcript!vars
<1>17. CASE NobodyLeftToTell
  BY <1>17 DEF NobodyLeftToTell, NothingOwedOnceClaimed, Transcript!vars
<1>18. CASE CheckDone
  BY <1>18 DEF CheckDone, WaitedLongEnough, Transcript!vars
<1>19. CASE AcceptNobody
  BY <1>19 DEF AcceptNobody, Transcript!vars
<1>20. ASSUME NEW c \in Connections, Accept(c) PROVE UNCHANGED Transcript!vars
  BY <1>20 DEF Accept, Transcript!vars
<1>21. CASE Claim
  BY <1>21 DEF Claim, Transcript!vars
<1>22. ASSUME NEW c \in Connections, ServeData(c) PROVE UNCHANGED Transcript!vars
  BY <1>22 DEF ServeData, Reads, Transcript!vars
<1>23. ASSUME NEW c \in Connections, ServeKill(c) PROVE UNCHANGED Transcript!vars
  BY <1>23 DEF ServeKill, Reads, Transcript!vars
<1>24. ASSUME NEW c \in Connections, ServeQuit(c) PROVE UNCHANGED Transcript!vars
  BY <1>24 DEF ServeQuit, Reads, QuitAllowed, Transcript!vars
<1>25. ASSUME NEW c \in Connections, EndOfStream(c) PROVE UNCHANGED Transcript!vars
  BY <1>25 DEF EndOfStream, Transcript!vars
<1>26. ASSUME NEW c \in Connections, FinishAfterLeaving(c) PROVE UNCHANGED Transcript!vars
  BY <1>26 DEF FinishAfterLeaving, Transcript!vars
<1>27. ASSUME NEW c \in Connections, Connect(c) PROVE UNCHANGED Transcript!vars
  BY <1>27 DEF Connect, Transcript!vars
<1>28. ASSUME NEW c \in Connections, Send(c) PROVE UNCHANGED Transcript!vars
  BY <1>28 DEF Send, Requests, Transcript!vars
<1>29. ASSUME NEW c \in Connections, HangUp(c) PROVE UNCHANGED Transcript!vars
  BY <1>29 DEF HangUp, Transcript!vars
<1>30. CASE UNCHANGED vars
  BY <1>30 DEF vars, Transcript!vars
<1>31. QED
  BY <1>1, <1>2, <1>3, <1>4, <1>5, <1>6, <1>7, <1>8, <1>9, <1>10, <1>11, <1>12, <1>13, <1>14, <1>15, <1>16, <1>17, <1>18, <1>19, <1>20, <1>21, <1>22, <1>23, <1>24, <1>25, <1>26, <1>27, <1>28, <1>29, <1>30
  DEF Next, Environment, Reader, AcceptLoop, ClientThread, Peer, Departed

\* The keeper implements the session transcript.
THEOREM Implementation == Spec => ImplementsTranscript
BY TranscriptInit, TranscriptStep, Invariance, PTL
DEF Spec, ImplementsTranscript, Transcript!Spec

-----------------------------------------------------------------------------
(***************************************************************************)
(* Proofs about Streams: the credit and the uploads of one connection, for *)
(* any number of streams, any window and any queue.                        *)
(*                                                                         *)
(* Both arguments count: the frames on their way are part of what a window *)
(* and an upload consist of, so what has to be known of the queue is what  *)
(* is in it, and of each stream's frames in what order.                    *)
(***************************************************************************)

(***************************************************************************)
(* The frames on their way: what one more at the end, and one less at the  *)
(* front, do to a count of them.                                           *)
(***************************************************************************)
Places(q, f) == {i \in DOMAIN q : q[i] = f}

\* A frame at the end is one more place of itself, and moves no other.
LEMMA Longer ==
    ASSUME NEW q \in Seq(Frame), NEW f \in Frame
    PROVE  /\ Append(q, f) \in Seq(Frame) /\ Len(Append(q, f)) = Len(q) + 1
           /\ DOMAIN Append(q, f) = DOMAIN q \cup {Len(q) + 1} /\ DOMAIN q \subseteq Nat
           /\ \A i \in DOMAIN q : i <= Len(q) /\ Append(q, f)[i] = q[i]
           /\ Append(q, f)[Len(q) + 1] = f
<1>1. /\ DOMAIN q = 1 .. Len(q) /\ Len(q) \in Nat
      /\ DOMAIN Append(q, f) = 1 .. Len(Append(q, f))
  BY AppendProperties, LenProperties
<1>2. QED BY <1>1, AppendProperties

\* With the first gone, every other frame is one place further on.
LEMMA Shorter ==
    ASSUME NEW q \in Seq(Frame), q # <<>>
    PROVE  /\ Tail(q) \in Seq(Frame) /\ Len(Tail(q)) = Len(q) - 1
           /\ Head(q) = q[1] /\ 1 \in DOMAIN q /\ DOMAIN q \subseteq Nat \ {0}
           /\ \A i \in DOMAIN Tail(q) : i + 1 \in DOMAIN q /\ Tail(q)[i] = q[i + 1]
           /\ \A i \in DOMAIN q \ {1} :
                 i - 1 \in DOMAIN Tail(q) /\ Tail(q)[i - 1] = q[i]
<1>1. /\ DOMAIN q = 1 .. Len(q) /\ Len(q) \in Nat \ {0}
      /\ DOMAIN Tail(q) = 1 .. Len(Tail(q))
  BY HeadTailProperties, LenProperties, EmptySeq
<1>2. QED BY <1>1, HeadTailProperties

\* The places of a frame can be counted.
LEMMA PlacesFinite ==
    ASSUME NEW q \in Seq(Frame), NEW f
    PROVE  IsFiniteSet(Places(q, f)) /\ Cardinality(Places(q, f)) \in Nat
<1>1. IsFiniteSet(1 .. Len(q)) /\ Places(q, f) \in SUBSET (1 .. Len(q))
  <2>1. Len(q) \in Nat /\ DOMAIN q = 1 .. Len(q)
    BY LenProperties
  <2>2. IsFiniteSet(1 .. Len(q))
    BY <2>1, FS_Interval
  <2>3. QED BY <2>1, <2>2 DEF Places
<1>2. IsFiniteSet(Places(q, f))
  BY <1>1, FS_Subset
<1>3. QED BY <1>2, FS_CardinalityType

\* One more at the end is counted if it is the frame asked for.
LEMMA PlacesLonger ==
    ASSUME NEW q \in Seq(Frame), NEW f \in Frame, NEW g
    PROVE  Cardinality(Places(Append(q, f), g)) =
               IF g = f THEN Cardinality(Places(q, g)) + 1 ELSE Cardinality(Places(q, g))
<1>1. Len(q) + 1 \notin Places(q, g)
  BY Longer, LenProperties DEF Places
<1>2. CASE g = f
  <2>1. Places(Append(q, f), g) = Places(q, g) \cup {Len(q) + 1}
    BY <1>2, Longer DEF Places
  <2>2. QED BY <1>1, <1>2, <2>1, PlacesFinite, FS_AddElement
<1>3. CASE g # f
  <2>1. Places(Append(q, f), g) = Places(q, g)
    BY <1>3, <1>1, Longer DEF Places
  <2>2. QED BY <1>3, <2>1
<1>4. QED BY <1>2, <1>3

\* One less at the front is counted off likewise.
LEMMA PlacesShorter ==
    ASSUME NEW q \in Seq(Frame), q # <<>>, NEW g
    PROVE  Cardinality(Places(q, g)) =
               IF g = Head(q) THEN Cardinality(Places(Tail(q), g)) + 1
               ELSE Cardinality(Places(Tail(q), g))
<1> DEFINE S == Places(Tail(q), g)  T == Places(q, g) \ {1}
           on == [i \in S |-> i + 1]
<1>1. S \subseteq Nat /\ T \subseteq Nat
  BY Shorter, LenProperties DEF Places
<1>2. \A i \in S : on[i] \in T
  BY Shorter, <1>1 DEF Places
<1>3. \A j \in T : j - 1 \in S
  BY Shorter, <1>1 DEF Places
<1>4. on \in Bijection(S, T)
  <2>1. on \in [S -> T]
    BY <1>2
  <2>2. \A i, j \in S : on[i] = on[j] => i = j
    BY <1>1
  <2>3. \A j \in T : \E i \in S : on[i] = j
    BY <1>1, <1>3
  <2> QED BY <2>1, <2>2, <2>3 DEF Bijection, Injection, Surjection, IsInjective
<1>5. ExistsBijection(S, T)
  BY <1>4 DEF ExistsBijection
<1>6. Cardinality(T) = Cardinality(S) /\ Cardinality(S) \in Nat
  <2>1. Tail(q) \in Seq(Frame)
    BY Shorter
  <2> QED BY <1>5, <2>1, PlacesFinite, FS_Bijection
<1>7. 1 \in Places(q, g) <=> g = Head(q)
  BY Shorter DEF Places
<1>8. /\ IsFiniteSet(Places(q, g)) /\ Cardinality(Places(q, g)) \in Nat
      /\ Cardinality(T) = IF 1 \in Places(q, g) THEN Cardinality(Places(q, g)) - 1
                          ELSE Cardinality(Places(q, g))
  BY PlacesFinite, FS_RemoveElement
<1>9. QED BY <1>6, <1>7, <1>8

\* A frame the client sends is the last of those on their way.
LEMMA Sends ==
    ASSUME up \in Seq(Frame), NEW f \in Frame, SendUp(f)
    PROVE  /\ up' \in Seq(Frame) /\ Len(up') = Len(up) + 1 /\ Len(up) < QueueLimit
           /\ Len(up) \in Nat /\ DOMAIN up' = DOMAIN up \cup {Len(up')} /\ up'[Len(up')] = f
           /\ DOMAIN up \subseteq Nat /\ Len(up') \in Nat
           /\ \A i \in DOMAIN up : i < Len(up') /\ up'[i] = up[i]
           /\ \A g : /\ UnderWay(g) \in Nat
                     /\ UnderWay(g)' = IF g = f THEN UnderWay(g) + 1 ELSE UnderWay(g)
<1>1. up' = Append(up, f) /\ Len(up) < QueueLimit /\ Len(up) \in Nat
  BY LenProperties DEF SendUp
<1>2. \A g : UnderWay(g) = Cardinality(Places(up, g))
  BY DEF UnderWay, Places
<1>3. \A g : UnderWay(g)' = Cardinality(Places(up', g))
  BY DEF UnderWay, Places
<1>4. \A g : UnderWay(g) \in Nat
  BY <1>2, PlacesFinite
<1>5. \A g : UnderWay(g)' = IF g = f THEN UnderWay(g) + 1 ELSE UnderWay(g)
  BY <1>1, <1>2, <1>3, PlacesLonger
<1>6. QED BY <1>1, <1>4, <1>5, Longer

\* The frame the loop takes in was the first of them.
LEMMA TakesIn ==
    ASSUME up \in Seq(Frame), NEW kind, NEW s, ReadsFrame(kind, s)
    PROVE  /\ loop = "reading" /\ up' \in Seq(Frame)
           /\ Len(up) \in Nat /\ Len(up') = Len(up) - 1
           /\ 1 \in DOMAIN up /\ up[1] = FrameOf(kind, s) /\ DOMAIN up \subseteq Nat \ {0}
           /\ \A i \in DOMAIN up' : i + 1 \in DOMAIN up /\ up'[i] = up[i + 1]
           /\ \A i \in DOMAIN up \ {1} : i - 1 \in DOMAIN up' /\ up'[i - 1] = up[i]
           /\ \A g : /\ UnderWay(g)' \in Nat
                     /\ UnderWay(g) = IF g = FrameOf(kind, s) THEN UnderWay(g)' + 1
                                      ELSE UnderWay(g)'
<1>1. /\ up' = Tail(up) /\ up # <<>> /\ Len(up) \in Nat
      /\ Head(up) = FrameOf(kind, s) /\ loop = "reading"
  BY LenProperties DEF ReadsFrame
<1>2. \A g : UnderWay(g) = Cardinality(Places(up, g))
  BY DEF UnderWay, Places
<1>3. \A g : UnderWay(g)' = Cardinality(Places(up', g))
  BY DEF UnderWay, Places
<1>4. up' \in Seq(Frame)
  BY <1>1, Shorter
<1>5. \A g : UnderWay(g)' \in Nat
  BY <1>3, <1>4, PlacesFinite
<1>6. \A g : UnderWay(g) = IF g = FrameOf(kind, s) THEN UnderWay(g)' + 1 ELSE UnderWay(g)'
  BY <1>1, <1>2, <1>3, PlacesShorter
<1>7. QED BY <1>1, <1>5, <1>6, Shorter

\* What is built as a frame is one.
LEMMA Frames ==
    \A s \in Streams : \A kind \in {"open", "data", "credit", "close"} :
        FrameOf(kind, s) \in Frame
BY DEF FrameOf, Frame

(***************************************************************************)
(* The types, in parts.                                                    *)
(***************************************************************************)
UpOK == up \in Seq(Frame) /\ Len(up) <= QueueLimit
SetsOK ==
    /\ client \in {"here", "gone"} /\ goodbye \in SUBSET Streams
    /\ loop \in {"reading", "writing", "leaving", "cleaned", "over"} /\ at \in Streams
    /\ subscriptions \in SUBSET Streams /\ entries \in SUBSET Streams /\ closed \in BOOLEAN
    /\ temporary \in SUBSET Streams /\ landed \in SUBSET Streams /\ shut \in SUBSET Streams
StagesOK ==
    /\ holds \in [Streams -> Holds] /\ pump \in [Streams -> Pump]
    /\ peer \in [Streams -> {"up", "closed"}]
CountsOK ==
    /\ toSend \in [Streams -> Nat] /\ down \in [Streams -> Nat]
    /\ credit \in [Streams -> Nat] /\ remaining \in [Streams -> Nat]
    /\ owes \in [Streams -> Nat] /\ inward \in [Streams -> Nat]
    /\ outward \in [Streams -> Nat]

\* The parts make up the whole.
LEMMA StreamsParts == StreamsTypeOK <=> UpOK /\ SetsOK /\ StagesOK /\ CountsOK
BY DEF StreamsTypeOK, UpOK, SetsOK, StagesOK, CountsOK

(***************************************************************************)
(* The invariant.                                                          *)
(***************************************************************************)
\* A stream whose pump has not started owns nothing, and an upload has no pump;
\* one the client has not opened is unknown everywhere.
FreshInv ==
    \A s \in Streams :
        /\ pump[s] = "none" =>
              s \notin entries /\ down[s] = 0 /\ s \notin goodbye /\ CreditsUnderWay(s) = 0
        /\ Kind[s] = "upload" => pump[s] = "none"
        /\ holds[s] = "unopened" =>
              pump[s] = "none" /\ s \notin subscriptions /\ s \notin landed

\* Of the frames on their way, the one that opens a stream is before all others of
\* that stream, and after the one that closes it nothing follows but credit.
OrderInv ==
    \A i \in DOMAIN up :
        /\ holds[up[i].stream] # "unopened"
        /\ up[i].kind = "open" =>
              /\ pump[up[i].stream] = "none"
              /\ up[i].stream \notin subscriptions /\ up[i].stream \notin landed
              /\ \A j \in DOMAIN up : up[j].stream = up[i].stream => i <= j
        /\ up[i].kind = "close" =>
              /\ holds[up[i].stream] = "closed"
              /\ \A j \in DOMAIN up :
                    up[j].stream = up[i].stream /\ i < j => up[j].kind = "credit"

\* A file under its temporary name is one whose upload is under way, or the one
\* that failed at its last step, which is kept.
Kept == temporary \ subscriptions
SubscribedInv ==
    /\ temporary \cap landed = {} /\ \A s \in temporary : Kind[s] = "upload"
    /\ loop \in {"reading", "writing"} => Kept = {}
    /\ \A s, t \in Kept : s = t
    /\ loop \in {"cleaned", "over"} => subscriptions = {}

\* A file with its name is whole, and so is one that is kept; what is announced of
\* one and has not come is with the client or on its way.
Complete == landed \cup Kept
LandedInv ==
    \A s \in Complete :
        /\ Kind[s] = "upload" /\ holds[s] = "closed" /\ s \notin subscriptions
        /\ remaining[s] = 0 /\ toSend[s] + Size[s] = Upstream[s]

Sending(s) == \E i \in DOMAIN up : up[i] = FrameOf("open", s)
Unfinished(s) ==
    \/ holds[s] \in {"open", "ended"}
    \/ \E i \in DOMAIN up : up[i].stream = s /\ up[i].kind \in {"data", "close"}

UploadInv ==
    loop \in {"reading", "writing"} =>
        \A s \in Streams : Kind[s] = "upload" =>
            /\ toSend[s] + Size[s] + UnderWay(FrameOf("data", s)) = Upstream[s] + remaining[s]
            /\ Unfinished(s) => s \in subscriptions \/ Sending(s)

\* A pump that asks for more of a file has more of it to send.
DownloadInv ==
    \A s \in Streams :
        Kind[s] = "download" /\ pump[s] \in {"asking", "about to wait", "waiting", "writing"}
        => remaining[s] > 0

(***************************************************************************)
(* Each part is kept by every step.                                        *)
(***************************************************************************)

\* A frame is told by its kind and its stream.
LEMMA FrameParts ==
    /\ \A kind, s : FrameOf(kind, s).kind = kind /\ FrameOf(kind, s).stream = s
    /\ \A kind, s, other, t : FrameOf(kind, s) = FrameOf(other, t) => kind = other /\ s = t
BY DEF FrameOf

\* What a frame sent does to the counts of credit and of data.
LEMMA Counted ==
    ASSUME UpOK, NEW kind \in {"open", "data", "credit", "close"}, NEW s \in Streams,
           SendUp(FrameOf(kind, s)), NEW t
    PROVE  /\ CreditsUnderWay(t) \in Nat /\ UnderWay(FrameOf("data", t)) \in Nat
           /\ CreditsUnderWay(t)' = IF kind = "credit" /\ t = s THEN CreditsUnderWay(t) + 1
                                    ELSE CreditsUnderWay(t)
           /\ UnderWay(FrameOf("data", t))' =
                  IF kind = "data" /\ t = s THEN UnderWay(FrameOf("data", t)) + 1
                  ELSE UnderWay(FrameOf("data", t))
<1>1. \A g : /\ UnderWay(g) \in Nat
             /\ UnderWay(g)' = IF g = FrameOf(kind, s) THEN UnderWay(g) + 1 ELSE UnderWay(g)
  BY Frames, Sends DEF UpOK
<1>2. /\ FrameOf("credit", t) = FrameOf(kind, s) <=> kind = "credit" /\ t = s
      /\ FrameOf("data", t) = FrameOf(kind, s) <=> kind = "data" /\ t = s
  BY FrameParts
<1>3. QED BY <1>1, <1>2 DEF CreditsUnderWay

\* And what one does that is taken in.
LEMMA CountedOff ==
    ASSUME UpOK, NEW kind, NEW s, ReadsFrame(kind, s), NEW t
    PROVE  /\ CreditsUnderWay(t)' \in Nat /\ UnderWay(FrameOf("data", t))' \in Nat
           /\ CreditsUnderWay(t) = IF kind = "credit" /\ t = s THEN CreditsUnderWay(t)' + 1
                                   ELSE CreditsUnderWay(t)'
           /\ UnderWay(FrameOf("data", t)) =
                  IF kind = "data" /\ t = s THEN UnderWay(FrameOf("data", t))' + 1
                  ELSE UnderWay(FrameOf("data", t))'
<1>1. \A g : /\ UnderWay(g)' \in Nat
             /\ UnderWay(g) = IF g = FrameOf(kind, s) THEN UnderWay(g)' + 1 ELSE UnderWay(g)'
  BY TakesIn DEF UpOK
<1>2. /\ FrameOf("credit", t) = FrameOf(kind, s) <=> kind = "credit" /\ t = s
      /\ FrameOf("data", t) = FrameOf(kind, s) <=> kind = "data" /\ t = s
  BY FrameParts
<1>3. QED BY <1>1, <1>2 DEF CreditsUnderWay

\* The counts stand still with the frames.
LEMMA Still ==
    ASSUME up' = up, NEW t
    PROVE  /\ CreditsUnderWay(t)' = CreditsUnderWay(t)
           /\ UnderWay(FrameOf("data", t))' = UnderWay(FrameOf("data", t))
BY DEF CreditsUnderWay, UnderWay

\* What the loop takes in is of a stream the client opened; what opens a stream is
\* the first of it.
LEMMA FirstFrame ==
    ASSUME UpOK, OrderInv, NEW kind, NEW s, ReadsFrame(kind, s)
    PROVE  /\ holds[s] # "unopened"
           /\ kind = "open" => pump[s] = "none" /\ s \notin subscriptions /\ s \notin landed
           /\ kind = "close" => holds[s] = "closed"
<1>1. 1 \in DOMAIN up /\ up[1].kind = kind /\ up[1].stream = s
  BY TakesIn, FrameParts DEF UpOK
<1>2. QED BY <1>1 DEF OrderInv

\* Every frame on its way is of one of the streams.
LEMMA OfStreams ==
    ASSUME UpOK PROVE \A i \in DOMAIN up : up[i] \in Frame /\ up[i].stream \in Streams
<1>1. \A i \in DOMAIN up : up[i] \in Frame
  BY LenProperties DEF UpOK
<1>2. QED BY <1>1 DEF Frame

\* The order stands while the frames do and no stream is begun anew.
LEMMA OrderStill ==
    ASSUME UpOK, OrderInv, up' = up,
           \A t \in Streams : /\ holds[t] # "unopened" => holds'[t] # "unopened"
                              /\ holds[t] = "closed" => holds'[t] = "closed"
                              /\ pump[t] = "none" => pump'[t] = "none",
           subscriptions' \subseteq subscriptions, landed' \subseteq landed
    PROVE  OrderInv'
BY OfStreams DEF OrderInv

\* Taking in a frame leaves no opening one of its stream, whatever is done with it.
LEMMA OrderTaken ==
    ASSUME UpOK, OrderInv, NEW kind, NEW s, ReadsFrame(kind, s), holds' = holds,
           \A t \in Streams \ {s} : /\ pump[t] = "none" => pump'[t] = "none"
                                    /\ t \in subscriptions' => t \in subscriptions
                                    /\ t \in landed' => t \in landed
    PROVE  OrderInv'
<1> DEFINE P(i) ==
        /\ holds'[up'[i].stream] # "unopened"
        /\ up'[i].kind = "open" =>
              /\ pump'[up'[i].stream] = "none"
              /\ up'[i].stream \notin subscriptions' /\ up'[i].stream \notin landed'
              /\ \A j \in DOMAIN up' : up'[j].stream = up'[i].stream => i <= j
        /\ up'[i].kind = "close" =>
              /\ holds'[up'[i].stream] = "closed"
              /\ \A j \in DOMAIN up' :
                    up'[j].stream = up'[i].stream /\ i < j => up'[j].kind = "credit"
<1> SUFFICES ASSUME NEW i \in DOMAIN up' PROVE P(i)
  BY DEF OrderInv
<1>1. /\ 1 \in DOMAIN up /\ up[1].stream = s /\ DOMAIN up \subseteq Nat \ {0}
      /\ \A j \in DOMAIN up' : j + 1 \in DOMAIN up /\ up'[j] = up[j + 1]
  BY TakesIn, FrameParts DEF UpOK
<1>2. i + 1 \in DOMAIN up /\ up'[i] = up[i + 1] /\ up[i + 1].stream \in Streams
  BY <1>1, OfStreams
<1>3. i \in Nat \ {0} /\ \A j \in DOMAIN up' : j \in Nat \ {0}
  <2>1. up' \in Seq(Frame)
    BY TakesIn DEF UpOK
  <2>2. DOMAIN up' = 1 .. Len(up') /\ Len(up') \in Nat
    BY <2>1, LenProperties
  <2>3. QED BY <2>2
<1>4. holds'[up'[i].stream] # "unopened"
  BY <1>2 DEF OrderInv
<1>5. ASSUME up'[i].kind = "open"
      PROVE  /\ pump'[up'[i].stream] = "none"
             /\ up'[i].stream \notin subscriptions' /\ up'[i].stream \notin landed'
             /\ \A j \in DOMAIN up' : up'[j].stream = up'[i].stream => i <= j
  <2>1. /\ pump[up[i + 1].stream] = "none"
        /\ up[i + 1].stream \notin subscriptions /\ up[i + 1].stream \notin landed
        /\ \A j \in DOMAIN up : up[j].stream = up[i + 1].stream => i + 1 <= j
    BY <1>2, <1>5 DEF OrderInv
  <2>2. up[i + 1].stream # s
    BY <1>1, <1>3, <2>1
  <2>3. \A j \in DOMAIN up' : up'[j].stream = up'[i].stream => i + 1 <= j + 1
    BY <1>1, <1>2, <2>1
  <2>4. QED BY <1>2, <1>3, <2>1, <2>2, <2>3
<1>6. ASSUME up'[i].kind = "close"
      PROVE  /\ holds'[up'[i].stream] = "closed"
             /\ \A j \in DOMAIN up' :
                   up'[j].stream = up'[i].stream /\ i < j => up'[j].kind = "credit"
  <2>1. /\ holds[up[i + 1].stream] = "closed"
        /\ \A j \in DOMAIN up :
              up[j].stream = up[i + 1].stream /\ i + 1 < j => up[j].kind = "credit"
    BY <1>2, <1>6 DEF OrderInv
  <2>2. \A j \in DOMAIN up' : up'[j].stream = up'[i].stream /\ i + 1 < j + 1
                              => up'[j].kind = "credit"
    BY <1>1, <1>2, <2>1
  <2>3. QED BY <1>2, <1>3, <2>1, <2>2
<1>7. QED BY <1>4, <1>5, <1>6

\* A frame sent opens a stream that was not, or comes after what opens it; none but
\* credit is of a stream the client has closed.
LEMMA OrderSent ==
    ASSUME UpOK, OrderInv, NEW kind \in {"open", "data", "credit", "close"},
           NEW s \in Streams, SendUp(FrameOf(kind, s)),
           pump' = pump, subscriptions' = subscriptions, landed' = landed,
           \A t \in Streams : /\ holds[t] # "unopened" => holds'[t] # "unopened"
                              /\ holds[t] = "closed" => holds'[t] = "closed",
           holds'[s] # "unopened", kind = "close" => holds'[s] = "closed",
           kind # "credit" => holds[s] # "closed",
           kind = "open" => /\ holds[s] = "unopened" /\ pump[s] = "none"
                            /\ s \notin subscriptions /\ s \notin landed
    PROVE  OrderInv'
<1> DEFINE n == Len(up')
           P(i) ==
        /\ holds'[up'[i].stream] # "unopened"
        /\ up'[i].kind = "open" =>
              /\ pump'[up'[i].stream] = "none"
              /\ up'[i].stream \notin subscriptions' /\ up'[i].stream \notin landed'
              /\ \A j \in DOMAIN up' : up'[j].stream = up'[i].stream => i <= j
        /\ up'[i].kind = "close" =>
              /\ holds'[up'[i].stream] = "closed"
              /\ \A j \in DOMAIN up' :
                    up'[j].stream = up'[i].stream /\ i < j => up'[j].kind = "credit"
<1> SUFFICES ASSUME NEW i \in DOMAIN up' PROVE P(i)
  BY DEF OrderInv
<1>1. /\ DOMAIN up' = DOMAIN up \cup {n} /\ DOMAIN up \subseteq Nat /\ n \in Nat
      /\ up'[n] = FrameOf(kind, s)
      /\ \A j \in DOMAIN up : j < n /\ up'[j] = up[j]
  <2>1. FrameOf(kind, s) \in Frame
    BY Frames
  <2>2. QED BY <2>1, Sends DEF UpOK
<1> HIDE DEF n
<1>2. up'[n].kind = kind /\ up'[n].stream = s
  <2>1. FrameOf(kind, s).kind = kind /\ FrameOf(kind, s).stream = s
    BY FrameParts
  <2>2. QED BY <1>1, <2>1
<1>3. CASE i = n
  <2>1. kind = "open" => \A j \in DOMAIN up : up[j].stream # s
    BY DEF OrderInv
  <2>2. kind = "open" => \A j \in DOMAIN up' : up'[j].stream = s => n <= j
    BY <2>1, <1>1, <1>2
  <2>3. \A j \in DOMAIN up' : ~(n < j)
    BY <1>1
  <2>4. QED BY <1>2, <1>3, <2>2, <2>3
<1>4. CASE i \in DOMAIN up
  <2>1. up'[i] = up[i] /\ up[i].stream \in Streams /\ i <= n /\ i \in Nat
    BY <1>1, <1>4, OfStreams
  <2>2. holds'[up'[i].stream] # "unopened"
    BY <1>4, <2>1 DEF OrderInv
  <2>3. ASSUME up'[i].kind = "open"
        PROVE  /\ pump'[up'[i].stream] = "none"
               /\ up'[i].stream \notin subscriptions' /\ up'[i].stream \notin landed'
               /\ \A j \in DOMAIN up' : up'[j].stream = up'[i].stream => i <= j
    <3>1. /\ pump[up[i].stream] = "none"
          /\ up[i].stream \notin subscriptions /\ up[i].stream \notin landed
          /\ \A j \in DOMAIN up : up[j].stream = up[i].stream => i <= j
      BY <1>4, <2>1, <2>3 DEF OrderInv
    <3>2. QED BY <1>1, <2>1, <3>1
  <2>4. ASSUME up'[i].kind = "close"
        PROVE  /\ holds'[up'[i].stream] = "closed"
               /\ \A j \in DOMAIN up' :
                     up'[j].stream = up'[i].stream /\ i < j => up'[j].kind = "credit"
    <3>1. /\ holds[up[i].stream] = "closed"
          /\ \A j \in DOMAIN up :
                up[j].stream = up[i].stream /\ i < j => up[j].kind = "credit"
      BY <1>4, <2>1, <2>4 DEF OrderInv
    <3>2. up[i].stream = s => kind = "credit"
      BY <3>1
    <3>3. QED BY <1>1, <1>2, <2>1, <3>1, <3>2
  <2>5. QED BY <2>2, <2>3, <2>4
<1>5. QED BY <1>1, <1>3, <1>4

\* What is said of uploads stands while nothing moves that it speaks of.
LEMMA UploadStill ==
    ASSUME UploadInv, up' = up, toSend' = toSend, subscriptions' = subscriptions,
           loop' \in {"reading", "writing"} => loop \in {"reading", "writing"},
           \A t \in Streams : /\ Kind[t] = "upload" => remaining'[t] = remaining[t]
                              /\ holds'[t] \in {"open", "ended"} => holds[t] \in {"open", "ended"}
    PROVE  UploadInv'
<1> SUFFICES ASSUME loop' \in {"reading", "writing"}, NEW t \in Streams, Kind[t] = "upload"
             PROVE  /\ toSend'[t] + Size[t] + UnderWay(FrameOf("data", t))'
                          = Upstream[t] + remaining'[t]
                    /\ Unfinished(t)' => t \in subscriptions' \/ Sending(t)'
  BY DEF UploadInv
<1>1. UnderWay(FrameOf("data", t))' = UnderWay(FrameOf("data", t))
  BY Still
<1>2. (Unfinished(t)' => Unfinished(t)) /\ (Sending(t) => Sending(t)')
  BY DEF Unfinished, Sending
<1>3. QED BY <1>1, <1>2 DEF UploadInv

\* A frame of data sent is one less to send; a stream is unfinished from its opening.
LEMMA UploadSent ==
    ASSUME UpOK, StagesOK, CountsOK, UploadInv,
           NEW kind \in {"open", "data", "credit", "close"},
           NEW s \in Streams, SendUp(FrameOf(kind, s)),
           loop' = loop, remaining' = remaining, subscriptions' = subscriptions,
           kind = "data" => toSend' = [toSend EXCEPT ![s] = @ - 1] /\ toSend[s] > 0,
           kind # "data" => toSend' = toSend,
           kind \in {"data", "close"} => holds[s] \in {"open", "ended"},
           \A t \in Streams : holds'[t] \in {"open", "ended"} =>
                                 holds[t] \in {"open", "ended"} \/ (t = s /\ kind = "open")
    PROVE  UploadInv'
<1> SUFFICES ASSUME loop' \in {"reading", "writing"}, NEW t \in Streams, Kind[t] = "upload"
             PROVE  /\ toSend'[t] + Size[t] + UnderWay(FrameOf("data", t))'
                          = Upstream[t] + remaining'[t]
                    /\ Unfinished(t)' => t \in subscriptions' \/ Sending(t)'
  BY DEF UploadInv
<1>1. /\ toSend[t] + Size[t] + UnderWay(FrameOf("data", t)) = Upstream[t] + remaining[t]
      /\ Unfinished(t) => t \in subscriptions \/ Sending(t)
  BY DEF UploadInv
<1>2. /\ UnderWay(FrameOf("data", t)) \in Nat
      /\ UnderWay(FrameOf("data", t))' =
             IF kind = "data" /\ t = s THEN UnderWay(FrameOf("data", t)) + 1
             ELSE UnderWay(FrameOf("data", t))
  BY Counted
<1>3. /\ toSend[t] \in Nat /\ Size[t] \in Nat
      /\ toSend'[t] = IF kind = "data" /\ t = s THEN toSend[t] - 1 ELSE toSend[t]
  BY StreamsAssumption DEF CountsOK
<1>4. toSend'[t] + Size[t] + UnderWay(FrameOf("data", t))' = Upstream[t] + remaining'[t]
  BY <1>1, <1>2, <1>3
<1>5. /\ DOMAIN up' = DOMAIN up \cup {Len(up')} /\ up'[Len(up')] = FrameOf(kind, s)
      /\ \A i \in DOMAIN up : up'[i] = up[i]
  <2>1. FrameOf(kind, s) \in Frame
    BY Frames
  <2>2. QED BY <2>1, Sends DEF UpOK
<1>6. Sending(t) => Sending(t)'
  BY <1>5 DEF Sending
<1>7. Unfinished(t)' => Unfinished(t) \/ Sending(t)'
  <2>1. CASE t = s /\ kind = "open"
    BY <2>1, <1>5 DEF Sending
  <2>2. CASE ~(t = s /\ kind = "open")
    <3>1. FrameOf(kind, s).kind = kind /\ FrameOf(kind, s).stream = s
      BY FrameParts
    <3>2. QED BY <2>2, <1>5, <3>1 DEF Unfinished
  <2>3. QED BY <2>1, <2>2
<1>8. QED BY <1>1, <1>4, <1>6, <1>7

\* Taking in a frame finishes nothing else, and leaves every other opening there.
LEMMA UploadTaken ==
    ASSUME UpOK, NEW kind, NEW s, ReadsFrame(kind, s), holds' = holds, NEW t
    PROVE  /\ Unfinished(t)' => Unfinished(t)
           /\ Sending(t) /\ (t # s \/ kind # "open") => Sending(t)'
<1>1. /\ up[1] = FrameOf(kind, s)
      /\ \A i \in DOMAIN up' : i + 1 \in DOMAIN up /\ up'[i] = up[i + 1]
      /\ \A i \in DOMAIN up \ {1} : i - 1 \in DOMAIN up' /\ up'[i - 1] = up[i]
  BY TakesIn DEF UpOK
<1>2. Unfinished(t)' => Unfinished(t)
  BY <1>1 DEF Unfinished
<1>3. ASSUME Sending(t), t # s \/ kind # "open" PROVE Sending(t)'
  <2>1. PICK i \in DOMAIN up : up[i] = FrameOf("open", t)
    BY <1>3 DEF Sending
  <2>2. i # 1
    BY <2>1, <1>1, <1>3, FrameParts
  <2>3. QED BY <2>1, <2>2, <1>1 DEF Sending
<1>4. QED BY <1>2, <1>3

\* The data of an upload comes in when it is subscribed.
LEMMA DataInTime ==
    ASSUME UpOK, OrderInv, UploadInv, NEW s \in Streams, Kind[s] = "upload",
           ReadsFrame("data", s)
    PROVE  s \in subscriptions
<1>1. /\ loop = "reading" /\ 1 \in DOMAIN up /\ up[1] = FrameOf("data", s)
      /\ DOMAIN up \subseteq Nat \ {0}
  BY TakesIn DEF UpOK
<1>2. up[1].kind = "data" /\ up[1].stream = s
  BY <1>1, FrameParts
<1>3. Unfinished(s)
  BY <1>1, <1>2 DEF Unfinished
<1>4. ~Sending(s)
  <2> SUFFICES ASSUME NEW i \in DOMAIN up, up[i] = FrameOf("open", s) PROVE FALSE
    BY DEF Sending
  <2>1. up[i].kind = "open" /\ up[i].stream = s
    BY FrameParts
  <2>2. i <= 1
    BY <1>1, <1>2, <2>1 DEF OrderInv
  <2>3. QED BY <1>1, <1>2, <2>1, <2>2
<1>5. QED BY <1>1, <1>3, <1>4 DEF UploadInv

\* When the frame that closes a stream comes in, none of its data is left behind it.
LEMMA ClosedAndDone ==
    ASSUME UpOK, OrderInv, NEW s, ReadsFrame("close", s), holds' = holds
    PROVE  ~Unfinished(s)' /\ UnderWay(FrameOf("data", s))' = 0
<1>1. /\ 1 \in DOMAIN up /\ up[1] = FrameOf("close", s)
      /\ \A i \in DOMAIN up' : i + 1 \in DOMAIN up /\ up'[i] = up[i + 1]
      /\ DOMAIN up' \subseteq Nat \ {0}
  <2>1. up' \in Seq(Frame)
    BY TakesIn DEF UpOK
  <2>2. DOMAIN up' = 1 .. Len(up') /\ Len(up') \in Nat
    BY <2>1, LenProperties
  <2>3. QED BY <2>2, TakesIn DEF UpOK
<1>2. up[1].kind = "close" /\ up[1].stream = s
  BY <1>1, FrameParts
<1>3. /\ holds[s] = "closed"
      /\ \A j \in DOMAIN up : up[j].stream = s /\ 1 < j => up[j].kind = "credit"
  BY <1>1, <1>2 DEF OrderInv
<1>4. \A i \in DOMAIN up' : up'[i].stream = s => up'[i].kind = "credit"
  BY <1>1, <1>3
<1>5. ~Unfinished(s)'
  BY <1>3, <1>4 DEF Unfinished
<1>6. \A i \in DOMAIN up' : up'[i] # FrameOf("data", s)
  BY <1>4, FrameParts
<1>7. {i \in DOMAIN up' : up'[i] = FrameOf("data", s)} = {}
  BY <1>6
<1>8. QED BY <1>5, <1>7, FS_EmptySet DEF UnderWay

\* A stream that has ended is not taken up again, nor its upload gone on with.
LeftClosed(t) ==
    /\ holds[t] = "closed" => holds'[t] = "closed"
    /\ t \notin subscriptions => t \notin subscriptions'
    /\ Kind[t] = "upload" /\ t \notin subscriptions => remaining'[t] = remaining[t]
    /\ holds[t] = "closed" => toSend'[t] = toSend[t]

\* What has landed stays as it is.
LEMMA LandedStill ==
    ASSUME LandedInv, Complete' \subseteq Complete, SetsOK,
           \A t \in Complete : LeftClosed(t)
    PROVE  LandedInv'
BY DEF LandedInv, LeftClosed

\* The queue keeps its type and its limit.
LEMMA UpStep ==
    ASSUME UpOK, [StreamsNext]_streamsVars
    PROVE  UpOK'
<1>1. ASSUME NEW s \in Streams, Open(s) PROVE UpOK'
  <2>1. FrameOf("open", s) \in Frame /\ SendUp(FrameOf("open", s))
    BY <1>1, Frames DEF Open
  <2>2. QED BY <2>1, Sends, LimitsAssumption DEF UpOK
<1>2. ASSUME NEW s \in Streams, Write(s) PROVE UpOK'
  <2>1. FrameOf("data", s) \in Frame /\ SendUp(FrameOf("data", s))
    BY <1>2, Frames DEF Write
  <2>2. QED BY <2>1, Sends, LimitsAssumption DEF UpOK
<1>3. ASSUME NEW s \in Streams, Drop(s) PROVE UpOK'
  <2>1. FrameOf("close", s) \in Frame /\ SendUp(FrameOf("close", s))
    BY <1>3, Frames DEF Drop
  <2>2. QED BY <2>1, Sends, LimitsAssumption DEF UpOK
<1>4. ASSUME NEW s \in Streams, ReadChunk(s) PROVE UpOK'
  <2>1. FrameOf("credit", s) \in Frame /\ SendUp(FrameOf("credit", s))
    BY <1>4, Frames DEF ReadChunk
  <2>2. QED BY <2>1, Sends, LimitsAssumption DEF UpOK
<1>5. ASSUME NEW s \in Streams, ReadGoodbye(s) PROVE UpOK'
  BY <1>5 DEF ReadGoodbye, UpOK
<1>6. ASSUME NEW s \in Streams, OnOpen(s) PROVE UpOK'
  <2>1. ReadsFrame("open", s)
    BY <1>6 DEF OnOpen
  <2>2. QED BY <2>1, TakesIn, LimitsAssumption DEF UpOK
<1>7. ASSUME NEW s \in Streams, OnCredit(s) PROVE UpOK'
  <2>1. ReadsFrame("credit", s)
    BY <1>7 DEF OnCredit
  <2>2. QED BY <2>1, TakesIn, LimitsAssumption DEF UpOK
<1>8. ASSUME NEW s \in Streams, OnData(s) PROVE UpOK'
  <2>1. ReadsFrame("data", s)
    BY <1>8 DEF OnData
  <2>2. QED BY <2>1, TakesIn, LimitsAssumption DEF UpOK
<1>9. ASSUME NEW s \in Streams, OnClose(s) PROVE UpOK'
  <2>1. ReadsFrame("close", s)
    BY <1>9 DEF OnClose
  <2>2. QED BY <2>1, TakesIn, LimitsAssumption DEF UpOK
<1>10. ASSUME NEW s \in Streams, ReadSocket(s) PROVE UpOK'
  BY <1>10 DEF ReadSocket, Moves, clientVars, UpOK
<1>11. ASSUME NEW s \in Streams, NextOfFile(s) PROVE UpOK'
  BY <1>11 DEF NextOfFile, Moves, clientVars, UpOK
<1>12. ASSUME NEW s \in Streams, Consume(s) PROVE UpOK'
  BY <1>12 DEF Consume, Moves, clientVars, UpOK
<1>13. ASSUME NEW s \in Streams, StartWaiting(s) PROVE UpOK'
  BY <1>13 DEF StartWaiting, Moves, clientVars, UpOK
<1>14. ASSUME NEW s \in Streams, FileIsShort(s) PROVE UpOK'
  BY <1>14 DEF FileIsShort, Moves, clientVars, UpOK
<1>15. ASSUME NEW s \in Streams, WriteChunk(s) PROVE UpOK'
  BY <1>15 DEF WriteChunk, Moves, clientVars, UpOK
<1>16. ASSUME NEW s \in Streams, PumpEnds(s) PROVE UpOK'
  BY <1>16 DEF PumpEnds, Moves, clientVars, UpOK
<1>17. ASSUME NEW s \in Streams, PeerReads(s) PROVE UpOK'
  BY <1>17 DEF PeerReads, clientVars, UpOK
<1>18. ASSUME NEW s \in Streams, PeerWrites(s) PROVE UpOK'
  BY <1>18 DEF PeerWrites, clientVars, UpOK
<1>19. ASSUME NEW s \in Streams, PeerCloses(s) PROVE UpOK'
  BY <1>19 DEF PeerCloses, clientVars, UpOK
<1>20. ASSUME Leave PROVE UpOK'
  BY <1>20 DEF Leave, UpOK
<1>21. ASSUME WriteToPeer PROVE UpOK'
  BY <1>21 DEF WriteToPeer, clientVars, UpOK
<1>22. ASSUME EndOfFrames PROVE UpOK'
  BY <1>22 DEF EndOfFrames, clientVars, UpOK
<1>23. ASSUME CleanUp PROVE UpOK'
  BY <1>23 DEF CleanUp, clientVars, UpOK
<1>24. ASSUME Disconnect PROVE UpOK'
  BY <1>24 DEF Disconnect, Woken, clientVars, UpOK
<1>25. ASSUME CloseConnection PROVE UpOK'
  BY <1>25 DEF CloseConnection, UpOK
<1>26. CASE UNCHANGED streamsVars
  BY <1>26 DEF streamsVars, clientVars, UpOK
<1>27. QED
  BY <1>1, <1>2, <1>3, <1>4, <1>5, <1>6, <1>7, <1>8, <1>9, <1>10, <1>11, <1>12, <1>13,
     <1>14, <1>15, <1>16, <1>17, <1>18, <1>19, <1>20, <1>21, <1>22, <1>23, <1>24, <1>25,
     <1>26 DEF StreamsNext, LoopStep, PumpStep, ReaderStep

\* The sets and flags keep their types.
LEMMA SetsStep ==
    ASSUME SetsOK, [StreamsNext]_streamsVars
    PROVE  SetsOK'
<1>1. ASSUME NEW s \in Streams, Open(s) PROVE SetsOK'
  BY <1>1 DEF Open, downVars, loopVars, flowVars, uploadVars, farEndVars, SetsOK
<1>2. ASSUME NEW s \in Streams, Write(s) PROVE SetsOK'
  BY <1>2 DEF Write, downVars, loopVars, flowVars, uploadVars, farEndVars, SetsOK
<1>3. ASSUME NEW s \in Streams, Drop(s) PROVE SetsOK'
  BY <1>3 DEF Drop, downVars, loopVars, flowVars, uploadVars, farEndVars, SetsOK
<1>4. ASSUME NEW s \in Streams, ReadChunk(s) PROVE SetsOK'
  BY <1>4 DEF ReadChunk, loopVars, flowVars, uploadVars, farEndVars, SetsOK
<1>5. ASSUME NEW s \in Streams, ReadGoodbye(s) PROVE SetsOK'
  BY <1>5 DEF ReadGoodbye, loopVars, flowVars, uploadVars, farEndVars, SetsOK
<1>6. ASSUME NEW s \in Streams, OnOpen(s) PROVE SetsOK'
  BY <1>6 DEF OnOpen, FlowOpen, downVars, farEndVars, SetsOK
<1>7. ASSUME NEW s \in Streams, OnCredit(s) PROVE SetsOK'
  BY <1>7 DEF OnCredit, FlowAdd, Woken, downVars, loopVars, uploadVars, farEndVars,
     SetsOK
<1>8. ASSUME NEW s \in Streams, OnData(s) PROVE SetsOK'
  BY <1>8 DEF OnData, downVars, flowVars, uploadVars, farEndVars, SetsOK
<1>9. ASSUME NEW s \in Streams, OnClose(s) PROVE SetsOK'
  BY <1>9 DEF OnClose, Activate, Land, downVars, flowVars, uploadVars, farEndVars, SetsOK
<1>10. ASSUME NEW s \in Streams, ReadSocket(s) PROVE SetsOK'
  BY <1>10 DEF ReadSocket, Moves, clientVars, downVars, loopVars, flowVars,
     uploadVars, SetsOK
<1>11. ASSUME NEW s \in Streams, NextOfFile(s) PROVE SetsOK'
  BY <1>11 DEF NextOfFile, Moves, clientVars, downVars, loopVars, flowVars,
     uploadVars, farEndVars, SetsOK
<1>12. ASSUME NEW s \in Streams, Consume(s) PROVE SetsOK'
  BY <1>12 DEF Consume, Moves, clientVars, downVars, loopVars, uploadVars, farEndVars,
     SetsOK
<1>13. ASSUME NEW s \in Streams, StartWaiting(s) PROVE SetsOK'
  BY <1>13 DEF StartWaiting, Moves, clientVars, downVars, loopVars, flowVars,
     uploadVars, farEndVars, SetsOK
<1>14. ASSUME NEW s \in Streams, FileIsShort(s) PROVE SetsOK'
  BY <1>14 DEF FileIsShort, Moves, clientVars, downVars, loopVars, flowVars,
     uploadVars, farEndVars, SetsOK
<1>15. ASSUME NEW s \in Streams, WriteChunk(s) PROVE SetsOK'
  BY <1>15 DEF WriteChunk, Moves, clientVars, loopVars, flowVars, uploadVars,
     farEndVars, SetsOK
<1>16. ASSUME NEW s \in Streams, PumpEnds(s) PROVE SetsOK'
  BY <1>16 DEF PumpEnds, Moves, clientVars, loopVars, uploadVars, farEndVars, SetsOK
<1>17. ASSUME NEW s \in Streams, PeerReads(s) PROVE SetsOK'
  BY <1>17 DEF PeerReads, clientVars, downVars, loopVars, flowVars, uploadVars, SetsOK
<1>18. ASSUME NEW s \in Streams, PeerWrites(s) PROVE SetsOK'
  BY <1>18 DEF PeerWrites, clientVars, downVars, loopVars, flowVars, uploadVars,
     SetsOK
<1>19. ASSUME NEW s \in Streams, PeerCloses(s) PROVE SetsOK'
  BY <1>19 DEF PeerCloses, clientVars, downVars, loopVars, flowVars, uploadVars,
     SetsOK
<1>20. ASSUME Leave PROVE SetsOK'
  BY <1>20 DEF Leave, loopVars, flowVars, uploadVars, farEndVars, SetsOK
<1>21. ASSUME WriteToPeer PROVE SetsOK'
  BY <1>21 DEF WriteToPeer, clientVars, downVars, flowVars, uploadVars, SetsOK
<1>22. ASSUME EndOfFrames PROVE SetsOK'
  BY <1>22 DEF EndOfFrames, clientVars, downVars, flowVars, uploadVars, farEndVars,
     SetsOK
<1>23. ASSUME CleanUp PROVE SetsOK'
  BY <1>23 DEF CleanUp, clientVars, downVars, flowVars, farEndVars, SetsOK
<1>24. ASSUME Disconnect PROVE SetsOK'
  BY <1>24 DEF Disconnect, Woken, clientVars, downVars, uploadVars, farEndVars, SetsOK
<1>25. ASSUME CloseConnection PROVE SetsOK'
  BY <1>25 DEF CloseConnection, loopVars, flowVars, uploadVars, farEndVars, SetsOK
<1>26. CASE UNCHANGED streamsVars
  BY <1>26 DEF streamsVars, clientVars, downVars, loopVars, flowVars, uploadVars,
     farEndVars, SetsOK
<1>27. QED
  BY <1>1, <1>2, <1>3, <1>4, <1>5, <1>6, <1>7, <1>8, <1>9, <1>10, <1>11, <1>12, <1>13,
     <1>14, <1>15, <1>16, <1>17, <1>18, <1>19, <1>20, <1>21, <1>22, <1>23, <1>24, <1>25,
     <1>26 DEF StreamsNext, LoopStep, PumpStep, ReaderStep

\* Streams, pumps and peers stay at one of their stages.
LEMMA StagesStep ==
    ASSUME StagesOK, [StreamsNext]_streamsVars
    PROVE  StagesOK'
<1>1. ASSUME NEW s \in Streams, Open(s) PROVE StagesOK'
  BY <1>1 DEF Open, farEndVars, StagesOK, Pump, Holds
<1>2. ASSUME NEW s \in Streams, Write(s) PROVE StagesOK'
  BY <1>2 DEF Write, farEndVars, StagesOK, Pump, Holds
<1>3. ASSUME NEW s \in Streams, Drop(s) PROVE StagesOK'
  BY <1>3 DEF Drop, farEndVars, StagesOK, Pump, Holds
<1>4. ASSUME NEW s \in Streams, ReadChunk(s) PROVE StagesOK'
  BY <1>4 DEF ReadChunk, farEndVars, StagesOK, Pump, Holds
<1>5. ASSUME NEW s \in Streams, ReadGoodbye(s) PROVE StagesOK'
  BY <1>5 DEF ReadGoodbye, farEndVars, StagesOK, Pump, Holds
<1>6. ASSUME NEW s \in Streams, OnOpen(s) PROVE StagesOK'
  BY <1>6 DEF OnOpen, FlowOpen, farEndVars, StagesOK, Pump, Holds
<1>7. ASSUME NEW s \in Streams, OnCredit(s) PROVE StagesOK'
  BY <1>7 DEF OnCredit, FlowAdd, Woken, farEndVars, StagesOK, Pump, Holds
<1>8. ASSUME NEW s \in Streams, OnData(s) PROVE StagesOK'
  BY <1>8 DEF OnData, farEndVars, StagesOK, Pump, Holds
<1>9. ASSUME NEW s \in Streams, OnClose(s) PROVE StagesOK'
  BY <1>9 DEF OnClose, Activate, Land, farEndVars, StagesOK, Pump, Holds
<1>10. ASSUME NEW s \in Streams, ReadSocket(s) PROVE StagesOK'
  BY <1>10 DEF ReadSocket, Moves, clientVars, StagesOK, Pump, Holds
<1>11. ASSUME NEW s \in Streams, NextOfFile(s) PROVE StagesOK'
  BY <1>11 DEF NextOfFile, Moves, clientVars, farEndVars, StagesOK, Pump, Holds
<1>12. ASSUME NEW s \in Streams, Consume(s) PROVE StagesOK'
  BY <1>12 DEF Consume, Moves, clientVars, farEndVars, StagesOK, Pump, Holds
<1>13. ASSUME NEW s \in Streams, StartWaiting(s) PROVE StagesOK'
  BY <1>13 DEF StartWaiting, Moves, clientVars, farEndVars, StagesOK, Pump, Holds
<1>14. ASSUME NEW s \in Streams, FileIsShort(s) PROVE StagesOK'
  BY <1>14 DEF FileIsShort, Moves, clientVars, farEndVars, StagesOK, Pump, Holds
<1>15. ASSUME NEW s \in Streams, WriteChunk(s) PROVE StagesOK'
  BY <1>15 DEF WriteChunk, Moves, clientVars, farEndVars, StagesOK, Pump, Holds
<1>16. ASSUME NEW s \in Streams, PumpEnds(s) PROVE StagesOK'
  BY <1>16 DEF PumpEnds, Moves, clientVars, farEndVars, StagesOK, Pump, Holds
<1>17. ASSUME NEW s \in Streams, PeerReads(s) PROVE StagesOK'
  BY <1>17 DEF PeerReads, clientVars, StagesOK, Pump, Holds
<1>18. ASSUME NEW s \in Streams, PeerWrites(s) PROVE StagesOK'
  BY <1>18 DEF PeerWrites, clientVars, StagesOK, Pump, Holds
<1>19. ASSUME NEW s \in Streams, PeerCloses(s) PROVE StagesOK'
  BY <1>19 DEF PeerCloses, clientVars, StagesOK, Pump, Holds
<1>20. ASSUME Leave PROVE StagesOK'
  BY <1>20 DEF Leave, farEndVars, StagesOK, Pump, Holds
<1>21. ASSUME WriteToPeer PROVE StagesOK'
  BY <1>21 DEF WriteToPeer, clientVars, StagesOK, Pump, Holds
<1>22. ASSUME EndOfFrames PROVE StagesOK'
  BY <1>22 DEF EndOfFrames, clientVars, farEndVars, StagesOK, Pump, Holds
<1>23. ASSUME CleanUp PROVE StagesOK'
  BY <1>23 DEF CleanUp, clientVars, farEndVars, StagesOK, Pump, Holds
<1>24. ASSUME Disconnect PROVE StagesOK'
  BY <1>24 DEF Disconnect, Woken, clientVars, farEndVars, StagesOK, Pump, Holds
<1>25. ASSUME CloseConnection PROVE StagesOK'
  BY <1>25 DEF CloseConnection, farEndVars, StagesOK, Pump, Holds
<1>26. CASE UNCHANGED streamsVars
  BY <1>26 DEF streamsVars, clientVars, farEndVars, StagesOK, Pump, Holds
<1>27. QED
  BY <1>1, <1>2, <1>3, <1>4, <1>5, <1>6, <1>7, <1>8, <1>9, <1>10, <1>11, <1>12, <1>13,
     <1>14, <1>15, <1>16, <1>17, <1>18, <1>19, <1>20, <1>21, <1>22, <1>23, <1>24, <1>25,
     <1>26 DEF StreamsNext, LoopStep, PumpStep, ReaderStep

\* No count falls below zero.
LEMMA CountsStep ==
    ASSUME SetsOK, CountsOK, DownloadInv, [StreamsNext]_streamsVars
    PROVE  CountsOK'
<1>1. ASSUME NEW s \in Streams, Open(s) PROVE CountsOK'
  BY <1>1 DEF Open, downVars, flowVars, farEndVars, CountsOK
<1>2. ASSUME NEW s \in Streams, Write(s) PROVE CountsOK'
  <2>1. toSend' \in [Streams -> Nat]
    BY <1>2 DEF Write, CountsOK
  <2>2. QED
    BY <1>2, <2>1 DEF Write, downVars, flowVars, farEndVars, CountsOK
<1>3. ASSUME NEW s \in Streams, Drop(s) PROVE CountsOK'
  BY <1>3 DEF Drop, downVars, flowVars, farEndVars, CountsOK
<1>4. ASSUME NEW s \in Streams, ReadChunk(s) PROVE CountsOK'
  <2>1. down' \in [Streams -> Nat]
    BY <1>4 DEF ReadChunk, CountsOK
  <2>2. QED
    BY <1>4, <2>1 DEF ReadChunk, flowVars, farEndVars, CountsOK
<1>5. ASSUME NEW s \in Streams, ReadGoodbye(s) PROVE CountsOK'
  BY <1>5 DEF ReadGoodbye, flowVars, farEndVars, CountsOK
<1>6. ASSUME NEW s \in Streams, OnOpen(s) PROVE CountsOK'
  BY <1>6, LimitsAssumption DEF OnOpen, FlowOpen, downVars, farEndVars, CountsOK
<1>7. ASSUME NEW s \in Streams, OnCredit(s) PROVE CountsOK'
  <2>1. credit' \in [Streams -> Nat]
    BY <1>7 DEF OnCredit, FlowAdd, Woken, CountsOK
  <2>2. QED
    BY <1>7, <2>1 DEF OnCredit, FlowAdd, Woken, downVars, farEndVars, CountsOK
<1>8. ASSUME NEW s \in Streams, OnData(s) PROVE CountsOK'
  <2>1. remaining' \in [Streams -> Nat]
    BY <1>8 DEF OnData, CountsOK
  <2>2. QED
    BY <1>8, <2>1 DEF OnData, downVars, flowVars, farEndVars, CountsOK
<1>9. ASSUME NEW s \in Streams, OnClose(s) PROVE CountsOK'
  BY <1>9 DEF OnClose, Activate, Land, downVars, flowVars, farEndVars, CountsOK
<1>10. ASSUME NEW s \in Streams, ReadSocket(s) PROVE CountsOK'
  <2>1. outward' \in [Streams -> Nat]
    BY <1>10 DEF ReadSocket, CountsOK
  <2>2. QED
    BY <1>10, <2>1 DEF ReadSocket, Moves, clientVars, downVars, flowVars, CountsOK
<1>11. ASSUME NEW s \in Streams, NextOfFile(s) PROVE CountsOK'
  BY <1>11 DEF NextOfFile, Moves, clientVars, downVars, flowVars, farEndVars, CountsOK
<1>12. ASSUME NEW s \in Streams, Consume(s) PROVE CountsOK'
  <2>1. credit' = credit \/ (credit' = [credit EXCEPT ![s] = @ - 1] /\ credit[s] > 0)
    BY <1>12 DEF Consume
  <2>2. credit' \in [Streams -> Nat]
    BY <2>1 DEF CountsOK
  <2>3. QED
    BY <1>12, <2>2 DEF Consume, clientVars, downVars, farEndVars, CountsOK
<1>13. ASSUME NEW s \in Streams, StartWaiting(s) PROVE CountsOK'
  BY <1>13 DEF StartWaiting, Moves, clientVars, downVars, flowVars, farEndVars,
     CountsOK
<1>14. ASSUME NEW s \in Streams, FileIsShort(s) PROVE CountsOK'
  BY <1>14 DEF FileIsShort, Moves, clientVars, downVars, flowVars, farEndVars,
     CountsOK
<1>15. ASSUME NEW s \in Streams, WriteChunk(s) PROVE CountsOK'
  <2>1. pump[s] = "writing"
    BY <1>15 DEF WriteChunk, Moves
  <2>2. down' = [down EXCEPT ![s] = IF Here THEN @ + 1 ELSE @]
    BY <1>15 DEF WriteChunk
  <2>3. remaining' = [remaining EXCEPT ![s] =
                         IF Here /\ Kind[s] = "download" THEN @ - 1 ELSE @]
    BY <1>15 DEF WriteChunk
  <2>4. Kind[s] = "download" => remaining[s] > 0
    BY <2>1 DEF DownloadInv
  <2>5. down' \in [Streams -> Nat]
    BY <2>2 DEF CountsOK
  <2>6. remaining' \in [Streams -> Nat]
    BY <2>3, <2>4 DEF CountsOK
  <2>7. QED
    BY <1>15, <2>5, <2>6 DEF WriteChunk, clientVars, flowVars, farEndVars, CountsOK
<1>16. ASSUME NEW s \in Streams, PumpEnds(s) PROVE CountsOK'
  BY <1>16 DEF PumpEnds, Moves, clientVars, farEndVars, CountsOK
<1>17. ASSUME NEW s \in Streams, PeerReads(s) PROVE CountsOK'
  <2>1. /\ inward' = [inward EXCEPT ![s] = @ - 1] /\ inward[s] > 0
        /\ owes' = [owes EXCEPT ![s] = @ + 1]
    BY <1>17 DEF PeerReads
  <2>2. inward' \in [Streams -> Nat] /\ owes' \in [Streams -> Nat]
    BY <2>1 DEF CountsOK
  <2>3. QED
    BY <1>17, <2>2 DEF PeerReads, clientVars, downVars, flowVars, CountsOK
<1>18. ASSUME NEW s \in Streams, PeerWrites(s) PROVE CountsOK'
  <2>1. owes' \in [Streams -> Nat]
    BY <1>18 DEF PeerWrites, CountsOK
  <2>2. outward' \in [Streams -> Nat]
    BY <1>18 DEF PeerWrites, CountsOK
  <2>3. QED
    BY <1>18, <2>1, <2>2 DEF PeerWrites, clientVars, downVars, flowVars, CountsOK
<1>19. ASSUME NEW s \in Streams, PeerCloses(s) PROVE CountsOK'
  BY <1>19 DEF PeerCloses, clientVars, downVars, flowVars, CountsOK
<1>20. ASSUME Leave PROVE CountsOK'
  BY <1>20 DEF Leave, flowVars, farEndVars, CountsOK
<1>21. ASSUME WriteToPeer PROVE CountsOK'
  <2>1. inward' \in [Streams -> Nat]
    BY <1>21 DEF WriteToPeer, CountsOK
  <2>2. QED
    BY <1>21, <2>1 DEF WriteToPeer, clientVars, downVars, flowVars, CountsOK
<1>22. ASSUME EndOfFrames PROVE CountsOK'
  BY <1>22 DEF EndOfFrames, clientVars, downVars, flowVars, farEndVars, CountsOK
<1>23. ASSUME CleanUp PROVE CountsOK'
  BY <1>23 DEF CleanUp, clientVars, downVars, flowVars, farEndVars, CountsOK
<1>24. ASSUME Disconnect PROVE CountsOK'
  BY <1>24 DEF Disconnect, Woken, clientVars, downVars, farEndVars, CountsOK
<1>25. ASSUME CloseConnection PROVE CountsOK'
  BY <1>25 DEF CloseConnection, flowVars, farEndVars, CountsOK
<1>26. CASE UNCHANGED streamsVars
  BY <1>26 DEF streamsVars, clientVars, downVars, flowVars, farEndVars, CountsOK
<1>27. QED
  BY <1>1, <1>2, <1>3, <1>4, <1>5, <1>6, <1>7, <1>8, <1>9, <1>10, <1>11, <1>12, <1>13,
     <1>14, <1>15, <1>16, <1>17, <1>18, <1>19, <1>20, <1>21, <1>22, <1>23, <1>24, <1>25,
     <1>26 DEF StreamsNext, LoopStep, PumpStep, ReaderStep

\* A pump asks for more of a file only while there is some.
LEMMA DownloadStep ==
    ASSUME StagesOK, CountsOK, DownloadInv, [StreamsNext]_streamsVars
    PROVE  DownloadInv'
<1>1. ASSUME NEW s \in Streams, Open(s) PROVE DownloadInv'
  BY <1>1 DEF Open, DownloadInv, StagesOK, CountsOK
<1>2. ASSUME NEW s \in Streams, Write(s) PROVE DownloadInv'
  BY <1>2 DEF Write, DownloadInv, StagesOK, CountsOK
<1>3. ASSUME NEW s \in Streams, Drop(s) PROVE DownloadInv'
  BY <1>3 DEF Drop, DownloadInv, StagesOK, CountsOK
<1>4. ASSUME NEW s \in Streams, ReadChunk(s) PROVE DownloadInv'
  BY <1>4 DEF ReadChunk, DownloadInv, StagesOK, CountsOK
<1>5. ASSUME NEW s \in Streams, ReadGoodbye(s) PROVE DownloadInv'
  BY <1>5 DEF ReadGoodbye, DownloadInv, StagesOK, CountsOK
<1>6. ASSUME NEW s \in Streams, OnOpen(s) PROVE DownloadInv'
  BY <1>6 DEF OnOpen, FlowOpen, DownloadInv, StagesOK, CountsOK
<1>7. ASSUME NEW s \in Streams, OnCredit(s) PROVE DownloadInv'
  BY <1>7 DEF OnCredit, FlowAdd, Woken, DownloadInv, StagesOK, CountsOK
<1>8. ASSUME NEW s \in Streams, OnData(s) PROVE DownloadInv'
  BY <1>8 DEF OnData, DownloadInv, StagesOK, CountsOK
<1>9. ASSUME NEW s \in Streams, OnClose(s) PROVE DownloadInv'
  BY <1>9 DEF OnClose, Activate, Land, DownloadInv, StagesOK, CountsOK
<1>10. ASSUME NEW s \in Streams, ReadSocket(s) PROVE DownloadInv'
  BY <1>10 DEF ReadSocket, Moves, DownloadInv, StagesOK, CountsOK
<1>11. ASSUME NEW s \in Streams, NextOfFile(s) PROVE DownloadInv'
  BY <1>11 DEF NextOfFile, Moves, DownloadInv, StagesOK, CountsOK
<1>12. ASSUME NEW s \in Streams, Consume(s) PROVE DownloadInv'
  BY <1>12 DEF Consume, Moves, DownloadInv, StagesOK, CountsOK
<1>13. ASSUME NEW s \in Streams, StartWaiting(s) PROVE DownloadInv'
  BY <1>13 DEF StartWaiting, Moves, DownloadInv, StagesOK, CountsOK
<1>14. ASSUME NEW s \in Streams, FileIsShort(s) PROVE DownloadInv'
  BY <1>14 DEF FileIsShort, Moves, DownloadInv, StagesOK, CountsOK
<1>15. ASSUME NEW s \in Streams, WriteChunk(s) PROVE DownloadInv'
  BY <1>15 DEF WriteChunk, Moves, DownloadInv, StagesOK, CountsOK
<1>16. ASSUME NEW s \in Streams, PumpEnds(s) PROVE DownloadInv'
  BY <1>16 DEF PumpEnds, Moves, DownloadInv, StagesOK, CountsOK
<1>17. ASSUME NEW s \in Streams, PeerReads(s) PROVE DownloadInv'
  BY <1>17 DEF PeerReads, DownloadInv, StagesOK, CountsOK
<1>18. ASSUME NEW s \in Streams, PeerWrites(s) PROVE DownloadInv'
  BY <1>18 DEF PeerWrites, DownloadInv, StagesOK, CountsOK
<1>19. ASSUME NEW s \in Streams, PeerCloses(s) PROVE DownloadInv'
  BY <1>19 DEF PeerCloses, DownloadInv, StagesOK, CountsOK
<1>20. ASSUME Leave PROVE DownloadInv'
  BY <1>20 DEF Leave, DownloadInv, StagesOK, CountsOK
<1>21. ASSUME WriteToPeer PROVE DownloadInv'
  BY <1>21 DEF WriteToPeer, DownloadInv, StagesOK, CountsOK
<1>22. ASSUME EndOfFrames PROVE DownloadInv'
  BY <1>22 DEF EndOfFrames, DownloadInv, StagesOK, CountsOK
<1>23. ASSUME CleanUp PROVE DownloadInv'
  BY <1>23 DEF CleanUp, DownloadInv, StagesOK, CountsOK
<1>24. ASSUME Disconnect PROVE DownloadInv'
  BY <1>24 DEF Disconnect, Woken, DownloadInv, StagesOK, CountsOK
<1>25. ASSUME CloseConnection PROVE DownloadInv'
  BY <1>25 DEF CloseConnection, DownloadInv, StagesOK, CountsOK
<1>26. CASE UNCHANGED streamsVars
  BY <1>26 DEF streamsVars, DownloadInv, StagesOK, CountsOK
<1>27. QED
  BY <1>1, <1>2, <1>3, <1>4, <1>5, <1>6, <1>7, <1>8, <1>9, <1>10, <1>11, <1>12, <1>13,
     <1>14, <1>15, <1>16, <1>17, <1>18, <1>19, <1>20, <1>21, <1>22, <1>23, <1>24, <1>25,
     <1>26 DEF StreamsNext, LoopStep, PumpStep, ReaderStep

\* Nothing is owed to a stream before it is opened.
LEMMA FreshStep ==
    ASSUME UpOK, SetsOK, StagesOK, CountsOK, OrderInv, FreshInv, [StreamsNext]_streamsVars
    PROVE  FreshInv'
<1>1. ASSUME NEW s \in Streams, Open(s) PROVE FreshInv'
  <2>1. SendUp(FrameOf("open", s))
    BY <1>1 DEF Open
  <2>2. \A t : /\ CreditsUnderWay(t) \in Nat
              /\ CreditsUnderWay(t)' = CreditsUnderWay(t)
    BY <2>1, Counted
  <2>3. QED
    BY <1>1, <2>2 DEF Open, downVars, loopVars, flowVars, uploadVars, FreshInv,
       SetsOK, StagesOK, CountsOK
<1>2. ASSUME NEW s \in Streams, Write(s) PROVE FreshInv'
  <2>1. SendUp(FrameOf("data", s))
    BY <1>2 DEF Write
  <2>2. \A t : /\ CreditsUnderWay(t) \in Nat
              /\ CreditsUnderWay(t)' = CreditsUnderWay(t)
    BY <2>1, Counted
  <2>3. QED
    BY <1>2, <2>2 DEF Write, downVars, loopVars, flowVars, uploadVars, FreshInv,
       SetsOK, StagesOK, CountsOK
<1>3. ASSUME NEW s \in Streams, Drop(s) PROVE FreshInv'
  <2>1. SendUp(FrameOf("close", s))
    BY <1>3 DEF Drop
  <2>2. \A t : /\ CreditsUnderWay(t) \in Nat
              /\ CreditsUnderWay(t)' = CreditsUnderWay(t)
    BY <2>1, Counted
  <2>3. QED
    BY <1>3, <2>2 DEF Drop, downVars, loopVars, flowVars, uploadVars, FreshInv,
       SetsOK, StagesOK, CountsOK
<1>4. ASSUME NEW s \in Streams, ReadChunk(s) PROVE FreshInv'
  <2>1. SendUp(FrameOf("credit", s))
    BY <1>4 DEF ReadChunk
  <2>2. \A t : /\ CreditsUnderWay(t) \in Nat
              /\ CreditsUnderWay(t)' = IF t = s THEN CreditsUnderWay(t) + 1
                                        ELSE CreditsUnderWay(t)
    BY <2>1, Counted
  <2>3. QED
    BY <1>4, <2>2 DEF ReadChunk, loopVars, flowVars, uploadVars, FreshInv, SetsOK,
       StagesOK, CountsOK
<1>5. ASSUME NEW s \in Streams, ReadGoodbye(s) PROVE FreshInv'
  BY <1>5, Still DEF ReadGoodbye, loopVars, flowVars, uploadVars, FreshInv, SetsOK,
     StagesOK, CountsOK
<1>6. ASSUME NEW s \in Streams, OnOpen(s) PROVE FreshInv'
  <2>1. ReadsFrame("open", s)
    BY <1>6 DEF OnOpen
  <2>2. \A t : /\ CreditsUnderWay(t)' \in Nat
              /\ CreditsUnderWay(t) = CreditsUnderWay(t)'
    BY <2>1, CountedOff
  <2>3. holds[s] # "unopened" /\ pump[s] = "none"
    BY <2>1, FirstFrame
  <2>4. QED
    BY <1>6, <2>2, <2>3 DEF OnOpen, FlowOpen, downVars, FreshInv, SetsOK, StagesOK,
       CountsOK
<1>7. ASSUME NEW s \in Streams, OnCredit(s) PROVE FreshInv'
  <2>1. ReadsFrame("credit", s)
    BY <1>7 DEF OnCredit
  <2>2. \A t : /\ CreditsUnderWay(t)' \in Nat
              /\ CreditsUnderWay(t) = IF t = s THEN CreditsUnderWay(t)' + 1
                                       ELSE CreditsUnderWay(t)'
    BY <2>1, CountedOff
  <2>3. holds[s] # "unopened"
    BY <2>1, FirstFrame
  <2>4. QED
    BY <1>7, <2>2, <2>3 DEF OnCredit, FlowAdd, Woken, downVars, loopVars, uploadVars,
       FreshInv, SetsOK, StagesOK, CountsOK
<1>8. ASSUME NEW s \in Streams, OnData(s) PROVE FreshInv'
  <2>1. ReadsFrame("data", s)
    BY <1>8 DEF OnData
  <2>2. \A t : /\ CreditsUnderWay(t)' \in Nat
              /\ CreditsUnderWay(t) = CreditsUnderWay(t)'
    BY <2>1, CountedOff
  <2>3. holds[s] # "unopened"
    BY <2>1, FirstFrame
  <2>4. QED
    BY <1>8, <2>2, <2>3 DEF OnData, downVars, flowVars, uploadVars, FreshInv, SetsOK,
       StagesOK, CountsOK
<1>9. ASSUME NEW s \in Streams, OnClose(s) PROVE FreshInv'
  <2>1. ReadsFrame("close", s)
    BY <1>9 DEF OnClose
  <2>2. \A t : /\ CreditsUnderWay(t)' \in Nat
              /\ CreditsUnderWay(t) = CreditsUnderWay(t)'
    BY <2>1, CountedOff
  <2>3. holds[s] # "unopened"
    BY <2>1, FirstFrame
  <2>4. QED
    BY <1>9, <2>2, <2>3 DEF OnClose, Activate, Land, downVars, flowVars, uploadVars,
       FreshInv, SetsOK, StagesOK, CountsOK
<1>10. ASSUME NEW s \in Streams, ReadSocket(s) PROVE FreshInv'
  BY <1>10, Still DEF ReadSocket, Moves, clientVars, downVars, loopVars, flowVars,
     uploadVars, FreshInv, SetsOK, StagesOK, CountsOK
<1>11. ASSUME NEW s \in Streams, NextOfFile(s) PROVE FreshInv'
  BY <1>11, Still DEF NextOfFile, Moves, clientVars, downVars, loopVars, flowVars,
     uploadVars, FreshInv, SetsOK, StagesOK, CountsOK
<1>12. ASSUME NEW s \in Streams, Consume(s) PROVE FreshInv'
  BY <1>12, Still DEF Consume, Moves, clientVars, downVars, loopVars, uploadVars,
     FreshInv, SetsOK, StagesOK, CountsOK
<1>13. ASSUME NEW s \in Streams, StartWaiting(s) PROVE FreshInv'
  BY <1>13, Still DEF StartWaiting, Moves, clientVars, downVars, loopVars, flowVars,
     uploadVars, FreshInv, SetsOK, StagesOK, CountsOK
<1>14. ASSUME NEW s \in Streams, FileIsShort(s) PROVE FreshInv'
  BY <1>14, Still DEF FileIsShort, Moves, clientVars, downVars, loopVars, flowVars,
     uploadVars, FreshInv, SetsOK, StagesOK, CountsOK
<1>15. ASSUME NEW s \in Streams, WriteChunk(s) PROVE FreshInv'
  BY <1>15, Still DEF WriteChunk, Moves, clientVars, loopVars, flowVars, uploadVars,
     FreshInv, SetsOK, StagesOK, CountsOK
<1>16. ASSUME NEW s \in Streams, PumpEnds(s) PROVE FreshInv'
  BY <1>16, Still DEF PumpEnds, Moves, clientVars, loopVars, uploadVars, FreshInv,
     SetsOK, StagesOK, CountsOK
<1>17. ASSUME NEW s \in Streams, PeerReads(s) PROVE FreshInv'
  BY <1>17, Still DEF PeerReads, clientVars, downVars, loopVars, flowVars, uploadVars,
     FreshInv, SetsOK, StagesOK, CountsOK
<1>18. ASSUME NEW s \in Streams, PeerWrites(s) PROVE FreshInv'
  BY <1>18, Still DEF PeerWrites, clientVars, downVars, loopVars, flowVars,
     uploadVars, FreshInv, SetsOK, StagesOK, CountsOK
<1>19. ASSUME NEW s \in Streams, PeerCloses(s) PROVE FreshInv'
  BY <1>19, Still DEF PeerCloses, clientVars, downVars, loopVars, flowVars,
     uploadVars, FreshInv, SetsOK, StagesOK, CountsOK
<1>20. ASSUME Leave PROVE FreshInv'
  BY <1>20, Still DEF Leave, loopVars, flowVars, uploadVars, FreshInv, SetsOK,
     StagesOK, CountsOK
<1>21. ASSUME WriteToPeer PROVE FreshInv'
  BY <1>21, Still DEF WriteToPeer, clientVars, downVars, flowVars, uploadVars,
     FreshInv, SetsOK, StagesOK, CountsOK
<1>22. ASSUME EndOfFrames PROVE FreshInv'
  BY <1>22, Still DEF EndOfFrames, clientVars, downVars, flowVars, uploadVars,
     FreshInv, SetsOK, StagesOK, CountsOK
<1>23. ASSUME CleanUp PROVE FreshInv'
  BY <1>23, Still DEF CleanUp, clientVars, downVars, flowVars, FreshInv, SetsOK,
     StagesOK, CountsOK
<1>24. ASSUME Disconnect PROVE FreshInv'
  BY <1>24, Still DEF Disconnect, Woken, clientVars, downVars, uploadVars, FreshInv,
     SetsOK, StagesOK, CountsOK
<1>25. ASSUME CloseConnection PROVE FreshInv'
  BY <1>25, Still DEF CloseConnection, loopVars, flowVars, uploadVars, FreshInv,
     SetsOK, StagesOK, CountsOK
<1>26. CASE UNCHANGED streamsVars
  BY <1>26, Still DEF streamsVars, clientVars, downVars, loopVars, flowVars, uploadVars,
     FreshInv
<1>27. QED
  BY <1>1, <1>2, <1>3, <1>4, <1>5, <1>6, <1>7, <1>8, <1>9, <1>10, <1>11, <1>12, <1>13,
     <1>14, <1>15, <1>16, <1>17, <1>18, <1>19, <1>20, <1>21, <1>22, <1>23, <1>24, <1>25,
     <1>26 DEF StreamsNext, LoopStep, PumpStep, ReaderStep

\* Each step that takes a chunk of credit from one place puts it in another.
LEMMA CreditStep ==
    ASSUME UpOK, SetsOK, StagesOK, CountsOK, OrderInv, FreshInv, CreditConserved, [StreamsNext]_streamsVars
    PROVE  CreditConserved'
<1>1. ASSUME NEW s \in Streams, Open(s) PROVE CreditConserved'
  <2>1. SendUp(FrameOf("open", s))
    BY <1>1 DEF Open
  <2>2. \A t : /\ CreditsUnderWay(t) \in Nat
              /\ CreditsUnderWay(t)' = CreditsUnderWay(t)
    BY <2>1, Counted
  <2>3. QED
    BY <1>1, <2>2 DEF Open, downVars, flowVars, CreditConserved, Spent, Here,
       FreshInv, SetsOK, StagesOK, CountsOK
<1>2. ASSUME NEW s \in Streams, Write(s) PROVE CreditConserved'
  <2>1. SendUp(FrameOf("data", s))
    BY <1>2 DEF Write
  <2>2. \A t : /\ CreditsUnderWay(t) \in Nat
              /\ CreditsUnderWay(t)' = CreditsUnderWay(t)
    BY <2>1, Counted
  <2>3. QED
    BY <1>2, <2>2 DEF Write, downVars, flowVars, CreditConserved, Spent, Here,
       FreshInv, SetsOK, StagesOK, CountsOK
<1>3. ASSUME NEW s \in Streams, Drop(s) PROVE CreditConserved'
  <2>1. SendUp(FrameOf("close", s))
    BY <1>3 DEF Drop
  <2>2. \A t : /\ CreditsUnderWay(t) \in Nat
              /\ CreditsUnderWay(t)' = CreditsUnderWay(t)
    BY <2>1, Counted
  <2>3. QED
    BY <1>3, <2>2 DEF Drop, downVars, flowVars, CreditConserved, Spent, Here,
       FreshInv, SetsOK, StagesOK, CountsOK
<1>4. ASSUME NEW s \in Streams, ReadChunk(s) PROVE CreditConserved'
  <2>1. SendUp(FrameOf("credit", s))
    BY <1>4 DEF ReadChunk
  <2>2. \A t : /\ CreditsUnderWay(t) \in Nat
              /\ CreditsUnderWay(t)' = IF t = s THEN CreditsUnderWay(t) + 1
                                        ELSE CreditsUnderWay(t)
    BY <2>1, Counted
  <2>3. QED
    BY <1>4, <2>2 DEF ReadChunk, flowVars, CreditConserved, Spent, Here, FreshInv,
       SetsOK, StagesOK, CountsOK
<1>5. ASSUME NEW s \in Streams, ReadGoodbye(s) PROVE CreditConserved'
  BY <1>5, Still DEF ReadGoodbye, flowVars, CreditConserved, Spent, Here, FreshInv,
     SetsOK, StagesOK, CountsOK
<1>6. ASSUME NEW s \in Streams, OnOpen(s) PROVE CreditConserved'
  <2>1. ReadsFrame("open", s)
    BY <1>6 DEF OnOpen
  <2>2. \A t : CreditsUnderWay(t)' \in Nat /\ CreditsUnderWay(t) = CreditsUnderWay(t)'
    BY <2>1, CountedOff
  <2>3. pump[s] = "none" /\ down[s] = 0 /\ CreditsUnderWay(s)' = 0
    BY <2>1, <2>2, FirstFrame DEF FreshInv
  <2>4. down' = down /\ client' = client
    BY <1>6 DEF OnOpen, downVars
  <2>5. CASE Kind[s] = "upload"
    <3>1. entries' = entries /\ credit' = credit /\ pump' = pump
      BY <1>6, <2>5 DEF OnOpen
    <3>2. QED
      BY <2>2, <2>4, <3>1 DEF CreditConserved, Spent, Here, SetsOK
  <2>6. CASE Kind[s] # "upload"
    <3>1. /\ entries' = entries \cup {s} /\ credit' = [credit EXCEPT ![s] = Window]
          /\ pump' = [pump EXCEPT ![s] = "reading"]
      BY <1>6, <2>6 DEF OnOpen, FlowOpen
    <3>2. ASSUME NEW t \in entries, t # s
          PROVE  credit'[t] = credit[t] /\ pump'[t] = pump[t]
      BY <3>1, <3>2 DEF SetsOK, StagesOK, CountsOK
    <3>3. /\ pump'[s] = "reading" /\ credit'[s] = Window
      BY <3>1 DEF StagesOK, CountsOK
    <3>4. credit'[s] + 0 + down'[s] + CreditsUnderWay(s)' = Window
      BY <2>3, <2>4, <3>3, LimitsAssumption
    <3>5. Spent(s)' = 0 /\ \A t \in entries : t # s => Spent(t)' = Spent(t)
      BY <3>2, <3>3 DEF Spent
    <3>6. QED
      BY <2>2, <2>4, <3>1, <3>2, <3>4, <3>5 DEF CreditConserved, Here
  <2>7. QED BY <2>5, <2>6
<1>7. ASSUME NEW s \in Streams, OnCredit(s) PROVE CreditConserved'
  <2>1. ReadsFrame("credit", s)
    BY <1>7 DEF OnCredit
  <2>2. \A t : /\ CreditsUnderWay(t)' \in Nat
              /\ CreditsUnderWay(t) = IF t = s THEN CreditsUnderWay(t)' + 1
                                       ELSE CreditsUnderWay(t)'
    BY <2>1, CountedOff
  <2>3. holds[s] # "unopened"
    BY <2>1, FirstFrame
  <2>4. QED
    BY <1>7, <2>2, <2>3 DEF OnCredit, FlowAdd, Woken, downVars, CreditConserved,
       Spent, Here, FreshInv, SetsOK, StagesOK, CountsOK
<1>8. ASSUME NEW s \in Streams, OnData(s) PROVE CreditConserved'
  <2>1. ReadsFrame("data", s)
    BY <1>8 DEF OnData
  <2>2. \A t : /\ CreditsUnderWay(t)' \in Nat
              /\ CreditsUnderWay(t) = CreditsUnderWay(t)'
    BY <2>1, CountedOff
  <2>3. holds[s] # "unopened"
    BY <2>1, FirstFrame
  <2>4. QED
    BY <1>8, <2>2, <2>3 DEF OnData, downVars, flowVars, CreditConserved, Spent, Here,
       FreshInv, SetsOK, StagesOK, CountsOK
<1>9. ASSUME NEW s \in Streams, OnClose(s) PROVE CreditConserved'
  <2>1. ReadsFrame("close", s)
    BY <1>9 DEF OnClose
  <2>2. \A t : /\ CreditsUnderWay(t)' \in Nat
              /\ CreditsUnderWay(t) = CreditsUnderWay(t)'
    BY <2>1, CountedOff
  <2>3. holds[s] # "unopened"
    BY <2>1, FirstFrame
  <2>4. QED
    BY <1>9, <2>2, <2>3 DEF OnClose, Activate, Land, downVars, flowVars, CreditConserved,
       Spent, Here, FreshInv, SetsOK, StagesOK, CountsOK
<1>10. ASSUME NEW s \in Streams, ReadSocket(s) PROVE CreditConserved'
  BY <1>10, Still DEF ReadSocket, Moves, clientVars, downVars, flowVars,
     CreditConserved, Spent, Here, FreshInv, SetsOK, StagesOK, CountsOK
<1>11. ASSUME NEW s \in Streams, NextOfFile(s) PROVE CreditConserved'
  BY <1>11, Still DEF NextOfFile, Moves, clientVars, downVars, flowVars,
     CreditConserved, Spent, Here, FreshInv, SetsOK, StagesOK, CountsOK
<1>12. ASSUME NEW s \in Streams, Consume(s) PROVE CreditConserved'
  <2>1. up' = up /\ down' = down /\ client' = client /\ entries' = entries
    BY <1>12 DEF Consume, clientVars, downVars
  <2>2. \A t : CreditsUnderWay(t)' = CreditsUnderWay(t)
    BY <2>1, Still
  <2>3. ASSUME NEW t \in entries, t # s
        PROVE  credit'[t] = credit[t] /\ pump'[t] = pump[t] /\ Spent(t)' = Spent(t)
    BY <1>12, <2>3 DEF Consume, Moves, Spent, SetsOK, StagesOK, CountsOK
  <2>4. CASE s \in entries /\ credit[s] > 0
    <3>1. pump[s] = "asking" /\ pump'[s] = "writing" /\ credit'[s] = credit[s] - 1
      BY <1>12, <2>4 DEF Consume, Moves, StagesOK, CountsOK
    <3>2. Spent(s) = 0 /\ Spent(s)' = 1
      BY <3>1 DEF Spent
    <3>3. credit[s] \in Nat /\ down[s] \in Nat
      BY DEF CountsOK
    <3>4. CreditsUnderWay(s) \in Nat
      BY PlacesFinite DEF CreditsUnderWay, UnderWay, Places, UpOK
    <3>5. credit'[s] + Spent(s)' + down'[s] + CreditsUnderWay(s)'
             = credit[s] + Spent(s) + down[s] + CreditsUnderWay(s)
      BY <2>1, <2>2, <3>1, <3>2, <3>3, <3>4
    <3>6. QED
      BY <2>1, <2>2, <2>3, <3>1, <3>5 DEF CreditConserved, Here
  <2>5. CASE ~(s \in entries /\ credit[s] > 0)
    <3>1. credit' = credit /\ pump[s] = "asking" /\ pump'[s] # "writing"
      BY <1>12, <2>5 DEF Consume, Moves, StagesOK
    <3>2. Spent(s)' = Spent(s)
      BY <3>1 DEF Spent
    <3>3. QED
      BY <2>1, <2>2, <2>3, <3>1, <3>2 DEF CreditConserved, Here
  <2>6. QED BY <2>4, <2>5
<1>13. ASSUME NEW s \in Streams, StartWaiting(s) PROVE CreditConserved'
  BY <1>13, Still DEF StartWaiting, Moves, clientVars, downVars, flowVars,
     CreditConserved, Spent, Here, FreshInv, SetsOK, StagesOK, CountsOK
<1>14. ASSUME NEW s \in Streams, FileIsShort(s) PROVE CreditConserved'
  BY <1>14, Still DEF FileIsShort, Moves, clientVars, downVars, flowVars,
     CreditConserved, Spent, Here, FreshInv, SetsOK, StagesOK, CountsOK
<1>15. ASSUME NEW s \in Streams, WriteChunk(s) PROVE CreditConserved'
  BY <1>15, Still DEF WriteChunk, Moves, clientVars, flowVars, CreditConserved, Spent,
     Here, FreshInv, SetsOK, StagesOK, CountsOK
<1>16. ASSUME NEW s \in Streams, PumpEnds(s) PROVE CreditConserved'
  BY <1>16, Still DEF PumpEnds, Moves, clientVars, CreditConserved, Spent, Here,
     FreshInv, SetsOK, StagesOK, CountsOK
<1>17. ASSUME NEW s \in Streams, PeerReads(s) PROVE CreditConserved'
  BY <1>17, Still DEF PeerReads, clientVars, downVars, flowVars, CreditConserved,
     Spent, Here, FreshInv, SetsOK, StagesOK, CountsOK
<1>18. ASSUME NEW s \in Streams, PeerWrites(s) PROVE CreditConserved'
  BY <1>18, Still DEF PeerWrites, clientVars, downVars, flowVars, CreditConserved,
     Spent, Here, FreshInv, SetsOK, StagesOK, CountsOK
<1>19. ASSUME NEW s \in Streams, PeerCloses(s) PROVE CreditConserved'
  BY <1>19, Still DEF PeerCloses, clientVars, downVars, flowVars, CreditConserved,
     Spent, Here, FreshInv, SetsOK, StagesOK, CountsOK
<1>20. ASSUME Leave PROVE CreditConserved'
  BY <1>20, Still DEF Leave, flowVars, CreditConserved, Spent, Here, FreshInv, SetsOK,
     StagesOK, CountsOK
<1>21. ASSUME WriteToPeer PROVE CreditConserved'
  BY <1>21, Still DEF WriteToPeer, clientVars, downVars, flowVars, CreditConserved,
     Spent, Here, FreshInv, SetsOK, StagesOK, CountsOK
<1>22. ASSUME EndOfFrames PROVE CreditConserved'
  BY <1>22, Still DEF EndOfFrames, clientVars, downVars, flowVars, CreditConserved,
     Spent, Here, FreshInv, SetsOK, StagesOK, CountsOK
<1>23. ASSUME CleanUp PROVE CreditConserved'
  BY <1>23, Still DEF CleanUp, clientVars, downVars, flowVars, CreditConserved, Spent,
     Here, FreshInv, SetsOK, StagesOK, CountsOK
<1>24. ASSUME Disconnect PROVE CreditConserved'
  BY <1>24, Still DEF Disconnect, Woken, clientVars, downVars, CreditConserved, Spent,
     Here, FreshInv, SetsOK, StagesOK, CountsOK
<1>25. ASSUME CloseConnection PROVE CreditConserved'
  BY <1>25, Still DEF CloseConnection, flowVars, CreditConserved, Spent, Here,
     FreshInv, SetsOK, StagesOK, CountsOK
<1>26. CASE UNCHANGED streamsVars
  BY <1>26, Still DEF streamsVars, clientVars, downVars, flowVars, CreditConserved, Spent,
     Here
<1>27. QED
  BY <1>1, <1>2, <1>3, <1>4, <1>5, <1>6, <1>7, <1>8, <1>9, <1>10, <1>11, <1>12, <1>13,
     <1>14, <1>15, <1>16, <1>17, <1>18, <1>19, <1>20, <1>21, <1>22, <1>23, <1>24, <1>25,
     <1>26 DEF StreamsNext, LoopStep, PumpStep, ReaderStep

\* The frames of a stream stay in their order.
LEMMA OrderStep ==
    ASSUME UpOK, SetsOK, StagesOK, CountsOK, FreshInv, OrderInv, [StreamsNext]_streamsVars
    PROVE  OrderInv'
<1>1. ASSUME NEW s \in Streams, Open(s) PROVE OrderInv'
  <2>1. SendUp(FrameOf("open", s)) /\ holds[s] = "unopened" /\ holds' = [holds EXCEPT ![s] = "open"]
    BY <1>1 DEF Open
  <2>2. pump' = pump /\ subscriptions' = subscriptions /\ landed' = landed
    BY <1>1 DEF Open, loopVars, uploadVars
  <2>3. /\ holds'[s] # "unopened"
        /\ \A t \in Streams : /\ holds[t] # "unopened" => holds'[t] # "unopened"
                              /\ holds[t] = "closed" => holds'[t] = "closed"
    BY <2>1 DEF StagesOK, FreshInv
  <2>4. QED
    BY <2>1, <2>2, <2>3, OrderSent DEF FreshInv, StagesOK
<1>2. ASSUME NEW s \in Streams, Write(s) PROVE OrderInv'
  <2>1. SendUp(FrameOf("data", s)) /\ holds[s] = "open" /\ holds' = holds
    BY <1>2 DEF Write
  <2>2. pump' = pump /\ subscriptions' = subscriptions /\ landed' = landed
    BY <1>2 DEF Write, loopVars, uploadVars
  <2>3. /\ holds'[s] # "unopened"
        /\ \A t \in Streams : /\ holds[t] # "unopened" => holds'[t] # "unopened"
                              /\ holds[t] = "closed" => holds'[t] = "closed"
    BY <2>1 DEF StagesOK, FreshInv
  <2>4. QED
    BY <2>1, <2>2, <2>3, OrderSent DEF FreshInv, StagesOK
<1>3. ASSUME NEW s \in Streams, Drop(s) PROVE OrderInv'
  <2>1. SendUp(FrameOf("close", s)) /\ holds[s] \in {"open", "ended"} /\ holds' = [holds EXCEPT ![s] = "closed"]
    BY <1>3 DEF Drop
  <2>2. pump' = pump /\ subscriptions' = subscriptions /\ landed' = landed
    BY <1>3 DEF Drop, loopVars, uploadVars
  <2>3. /\ holds'[s] # "unopened"
        /\ \A t \in Streams : /\ holds[t] # "unopened" => holds'[t] # "unopened"
                              /\ holds[t] = "closed" => holds'[t] = "closed"
    BY <2>1 DEF StagesOK, FreshInv
  <2>4. QED
    BY <2>1, <2>2, <2>3, OrderSent DEF FreshInv, StagesOK
<1>4. ASSUME NEW s \in Streams, ReadChunk(s) PROVE OrderInv'
  <2>1. SendUp(FrameOf("credit", s)) /\ holds' = holds /\ down[s] > 0
    BY <1>4 DEF ReadChunk
  <2>2. pump' = pump /\ subscriptions' = subscriptions /\ landed' = landed
    BY <1>4 DEF ReadChunk, loopVars, uploadVars
  <2>3. /\ holds'[s] # "unopened"
        /\ \A t \in Streams : /\ holds[t] # "unopened" => holds'[t] # "unopened"
                              /\ holds[t] = "closed" => holds'[t] = "closed"
    BY <2>1 DEF StagesOK, FreshInv
  <2>4. QED
    BY <2>1, <2>2, <2>3, OrderSent DEF FreshInv, StagesOK
<1>5. ASSUME NEW s \in Streams, ReadGoodbye(s) PROVE OrderInv'
  <2>1. /\ up' = up /\ subscriptions' \subseteq subscriptions /\ landed' = landed
        /\ \A t \in Streams : /\ holds[t] # "unopened" => holds'[t] # "unopened"
                              /\ holds[t] = "closed" => holds'[t] = "closed"
                              /\ pump[t] = "none" => pump'[t] = "none"
    BY <1>5 DEF ReadGoodbye, loopVars, uploadVars, StagesOK
  <2>2. QED BY <2>1, OrderStill
<1>6. ASSUME NEW s \in Streams, OnOpen(s) PROVE OrderInv'
  <2>1. ReadsFrame("open", s) /\ holds' = holds
    BY <1>6 DEF OnOpen
  <2>2. \A t \in Streams \ {s} : /\ pump[t] = "none" => pump'[t] = "none"
                                 /\ t \in subscriptions' => t \in subscriptions
                                 /\ t \in landed' => t \in landed
    BY <1>6 DEF OnOpen, FlowOpen, StagesOK
  <2>3. QED BY <2>1, <2>2, OrderTaken
<1>7. ASSUME NEW s \in Streams, OnCredit(s) PROVE OrderInv'
  <2>1. ReadsFrame("credit", s) /\ holds' = holds
    BY <1>7 DEF OnCredit
  <2>2. \A t \in Streams \ {s} : /\ pump[t] = "none" => pump'[t] = "none"
                                 /\ t \in subscriptions' => t \in subscriptions
                                 /\ t \in landed' => t \in landed
    BY <1>7 DEF OnCredit, FlowAdd, Woken, loopVars, uploadVars, StagesOK
  <2>3. QED BY <2>1, <2>2, OrderTaken
<1>8. ASSUME NEW s \in Streams, OnData(s) PROVE OrderInv'
  <2>1. ReadsFrame("data", s) /\ holds' = holds
    BY <1>8 DEF OnData
  <2>2. \A t \in Streams \ {s} : /\ pump[t] = "none" => pump'[t] = "none"
                                 /\ t \in subscriptions' => t \in subscriptions
                                 /\ t \in landed' => t \in landed
    BY <1>8 DEF OnData, uploadVars, StagesOK
  <2>3. QED BY <2>1, <2>2, OrderTaken
<1>9. ASSUME NEW s \in Streams, OnClose(s) PROVE OrderInv'
  <2>1. ReadsFrame("close", s) /\ holds' = holds
    BY <1>9 DEF OnClose
  <2>2. \A t \in Streams \ {s} : /\ pump[t] = "none" => pump'[t] = "none"
                                 /\ t \in subscriptions' => t \in subscriptions
                                 /\ t \in landed' => t \in landed
    BY <1>9 DEF OnClose, Activate, Land, uploadVars, StagesOK
  <2>3. QED BY <2>1, <2>2, OrderTaken
<1>10. ASSUME NEW s \in Streams, ReadSocket(s) PROVE OrderInv'
  <2>1. /\ up' = up /\ subscriptions' \subseteq subscriptions /\ landed' = landed
        /\ \A t \in Streams : /\ holds[t] # "unopened" => holds'[t] # "unopened"
                              /\ holds[t] = "closed" => holds'[t] = "closed"
                              /\ pump[t] = "none" => pump'[t] = "none"
    BY <1>10 DEF ReadSocket, Moves, clientVars, loopVars, uploadVars, StagesOK
  <2>2. QED BY <2>1, OrderStill
<1>11. ASSUME NEW s \in Streams, NextOfFile(s) PROVE OrderInv'
  <2>1. /\ up' = up /\ subscriptions' \subseteq subscriptions /\ landed' = landed
        /\ \A t \in Streams : /\ holds[t] # "unopened" => holds'[t] # "unopened"
                              /\ holds[t] = "closed" => holds'[t] = "closed"
                              /\ pump[t] = "none" => pump'[t] = "none"
    BY <1>11 DEF NextOfFile, Moves, clientVars, loopVars, uploadVars, StagesOK
  <2>2. QED BY <2>1, OrderStill
<1>12. ASSUME NEW s \in Streams, Consume(s) PROVE OrderInv'
  <2>1. /\ up' = up /\ subscriptions' \subseteq subscriptions /\ landed' = landed
        /\ \A t \in Streams : /\ holds[t] # "unopened" => holds'[t] # "unopened"
                              /\ holds[t] = "closed" => holds'[t] = "closed"
                              /\ pump[t] = "none" => pump'[t] = "none"
    BY <1>12 DEF Consume, Moves, clientVars, loopVars, uploadVars, StagesOK
  <2>2. QED BY <2>1, OrderStill
<1>13. ASSUME NEW s \in Streams, StartWaiting(s) PROVE OrderInv'
  <2>1. /\ up' = up /\ subscriptions' \subseteq subscriptions /\ landed' = landed
        /\ \A t \in Streams : /\ holds[t] # "unopened" => holds'[t] # "unopened"
                              /\ holds[t] = "closed" => holds'[t] = "closed"
                              /\ pump[t] = "none" => pump'[t] = "none"
    BY <1>13 DEF StartWaiting, Moves, clientVars, loopVars, uploadVars, StagesOK
  <2>2. QED BY <2>1, OrderStill
<1>14. ASSUME NEW s \in Streams, FileIsShort(s) PROVE OrderInv'
  <2>1. /\ up' = up /\ subscriptions' \subseteq subscriptions /\ landed' = landed
        /\ \A t \in Streams : /\ holds[t] # "unopened" => holds'[t] # "unopened"
                              /\ holds[t] = "closed" => holds'[t] = "closed"
                              /\ pump[t] = "none" => pump'[t] = "none"
    BY <1>14 DEF FileIsShort, Moves, clientVars, loopVars, uploadVars, StagesOK
  <2>2. QED BY <2>1, OrderStill
<1>15. ASSUME NEW s \in Streams, WriteChunk(s) PROVE OrderInv'
  <2>1. /\ up' = up /\ subscriptions' \subseteq subscriptions /\ landed' = landed
        /\ \A t \in Streams : /\ holds[t] # "unopened" => holds'[t] # "unopened"
                              /\ holds[t] = "closed" => holds'[t] = "closed"
                              /\ pump[t] = "none" => pump'[t] = "none"
    BY <1>15 DEF WriteChunk, Moves, clientVars, loopVars, uploadVars, StagesOK
  <2>2. QED BY <2>1, OrderStill
<1>16. ASSUME NEW s \in Streams, PumpEnds(s) PROVE OrderInv'
  <2>1. /\ up' = up /\ subscriptions' \subseteq subscriptions /\ landed' = landed
        /\ \A t \in Streams : /\ holds[t] # "unopened" => holds'[t] # "unopened"
                              /\ holds[t] = "closed" => holds'[t] = "closed"
                              /\ pump[t] = "none" => pump'[t] = "none"
    BY <1>16 DEF PumpEnds, Moves, clientVars, loopVars, uploadVars, StagesOK
  <2>2. QED BY <2>1, OrderStill
<1>17. ASSUME NEW s \in Streams, PeerReads(s) PROVE OrderInv'
  <2>1. /\ up' = up /\ subscriptions' \subseteq subscriptions /\ landed' = landed
        /\ \A t \in Streams : /\ holds[t] # "unopened" => holds'[t] # "unopened"
                              /\ holds[t] = "closed" => holds'[t] = "closed"
                              /\ pump[t] = "none" => pump'[t] = "none"
    BY <1>17 DEF PeerReads, clientVars, loopVars, uploadVars, StagesOK
  <2>2. QED BY <2>1, OrderStill
<1>18. ASSUME NEW s \in Streams, PeerWrites(s) PROVE OrderInv'
  <2>1. /\ up' = up /\ subscriptions' \subseteq subscriptions /\ landed' = landed
        /\ \A t \in Streams : /\ holds[t] # "unopened" => holds'[t] # "unopened"
                              /\ holds[t] = "closed" => holds'[t] = "closed"
                              /\ pump[t] = "none" => pump'[t] = "none"
    BY <1>18 DEF PeerWrites, clientVars, loopVars, uploadVars, StagesOK
  <2>2. QED BY <2>1, OrderStill
<1>19. ASSUME NEW s \in Streams, PeerCloses(s) PROVE OrderInv'
  <2>1. /\ up' = up /\ subscriptions' \subseteq subscriptions /\ landed' = landed
        /\ \A t \in Streams : /\ holds[t] # "unopened" => holds'[t] # "unopened"
                              /\ holds[t] = "closed" => holds'[t] = "closed"
                              /\ pump[t] = "none" => pump'[t] = "none"
    BY <1>19 DEF PeerCloses, clientVars, loopVars, uploadVars, StagesOK
  <2>2. QED BY <2>1, OrderStill
<1>20. ASSUME Leave PROVE OrderInv'
  <2>1. /\ up' = up /\ subscriptions' \subseteq subscriptions /\ landed' = landed
        /\ \A t \in Streams : /\ holds[t] # "unopened" => holds'[t] # "unopened"
                              /\ holds[t] = "closed" => holds'[t] = "closed"
                              /\ pump[t] = "none" => pump'[t] = "none"
    BY <1>20 DEF Leave, loopVars, uploadVars, StagesOK
  <2>2. QED BY <2>1, OrderStill
<1>21. ASSUME WriteToPeer PROVE OrderInv'
  <2>1. /\ up' = up /\ subscriptions' \subseteq subscriptions /\ landed' = landed
        /\ \A t \in Streams : /\ holds[t] # "unopened" => holds'[t] # "unopened"
                              /\ holds[t] = "closed" => holds'[t] = "closed"
                              /\ pump[t] = "none" => pump'[t] = "none"
    BY <1>21 DEF WriteToPeer, clientVars, uploadVars, StagesOK
  <2>2. QED BY <2>1, OrderStill
<1>22. ASSUME EndOfFrames PROVE OrderInv'
  <2>1. /\ up' = up /\ subscriptions' \subseteq subscriptions /\ landed' = landed
        /\ \A t \in Streams : /\ holds[t] # "unopened" => holds'[t] # "unopened"
                              /\ holds[t] = "closed" => holds'[t] = "closed"
                              /\ pump[t] = "none" => pump'[t] = "none"
    BY <1>22 DEF EndOfFrames, clientVars, uploadVars, StagesOK
  <2>2. QED BY <2>1, OrderStill
<1>23. ASSUME CleanUp PROVE OrderInv'
  <2>1. /\ up' = up /\ subscriptions' \subseteq subscriptions /\ landed' = landed
        /\ \A t \in Streams : /\ holds[t] # "unopened" => holds'[t] # "unopened"
                              /\ holds[t] = "closed" => holds'[t] = "closed"
                              /\ pump[t] = "none" => pump'[t] = "none"
    BY <1>23 DEF CleanUp, clientVars, StagesOK
  <2>2. QED BY <2>1, OrderStill
<1>24. ASSUME Disconnect PROVE OrderInv'
  <2>1. /\ up' = up /\ subscriptions' \subseteq subscriptions /\ landed' = landed
        /\ \A t \in Streams : /\ holds[t] # "unopened" => holds'[t] # "unopened"
                              /\ holds[t] = "closed" => holds'[t] = "closed"
                              /\ pump[t] = "none" => pump'[t] = "none"
    BY <1>24 DEF Disconnect, Woken, clientVars, uploadVars, StagesOK
  <2>2. QED BY <2>1, OrderStill
<1>25. ASSUME CloseConnection PROVE OrderInv'
  <2>1. /\ up' = up /\ subscriptions' \subseteq subscriptions /\ landed' = landed
        /\ \A t \in Streams : /\ holds[t] # "unopened" => holds'[t] # "unopened"
                              /\ holds[t] = "closed" => holds'[t] = "closed"
                              /\ pump[t] = "none" => pump'[t] = "none"
    BY <1>25 DEF CloseConnection, loopVars, uploadVars, StagesOK
  <2>2. QED BY <2>1, OrderStill
<1>26. CASE UNCHANGED streamsVars
  BY <1>26 DEF streamsVars, clientVars, loopVars, uploadVars, OrderInv
<1>27. QED
  BY <1>1, <1>2, <1>3, <1>4, <1>5, <1>6, <1>7, <1>8, <1>9, <1>10, <1>11, <1>12, <1>13,
     <1>14, <1>15, <1>16, <1>17, <1>18, <1>19, <1>20, <1>21, <1>22, <1>23, <1>24, <1>25,
     <1>26 DEF StreamsNext, LoopStep, PumpStep, ReaderStep

\* Files come under a temporary name, and go from it, with the subscription.
LEMMA SubscribedStep ==
    ASSUME UpOK, SetsOK, StagesOK, OrderInv, SubscribedInv, LandedInv,
           [StreamsNext]_streamsVars
    PROVE  SubscribedInv'
<1>1. ASSUME NEW s \in Streams, Open(s) PROVE SubscribedInv'
  BY <1>1 DEF Open, loopVars, uploadVars, SetsOK, SubscribedInv, Kept
<1>2. ASSUME NEW s \in Streams, Write(s) PROVE SubscribedInv'
  BY <1>2 DEF Write, loopVars, uploadVars, SetsOK, SubscribedInv, Kept
<1>3. ASSUME NEW s \in Streams, Drop(s) PROVE SubscribedInv'
  BY <1>3 DEF Drop, loopVars, uploadVars, SetsOK, SubscribedInv, Kept
<1>4. ASSUME NEW s \in Streams, ReadChunk(s) PROVE SubscribedInv'
  BY <1>4 DEF ReadChunk, loopVars, uploadVars, SetsOK, SubscribedInv, Kept
<1>5. ASSUME NEW s \in Streams, ReadGoodbye(s) PROVE SubscribedInv'
  BY <1>5 DEF ReadGoodbye, loopVars, uploadVars, SetsOK, SubscribedInv, Kept
<1>6. ASSUME NEW s \in Streams, OnOpen(s) PROVE SubscribedInv'
  <2>1. ReadsFrame("open", s) /\ loop = "reading" /\ loop' = loop /\ landed' = landed
    BY <1>6 DEF OnOpen, ReadsFrame
  <2>2. s \notin landed
    BY <2>1, FirstFrame
  <2>3. CASE Kind[s] = "upload"
    <3>1. subscriptions' = subscriptions \cup {s} /\ temporary' = temporary \cup {s}
      BY <1>6, <2>3 DEF OnOpen
    <3>2. QED BY <2>1, <2>2, <2>3, <3>1 DEF SubscribedInv, Kept
  <2>4. CASE Kind[s] # "upload"
    <3>1. subscriptions' \in {subscriptions, subscriptions \cup {s}} /\ temporary' = temporary
      BY <1>6, <2>4 DEF OnOpen
    <3>2. QED BY <2>1, <2>4, <3>1 DEF SubscribedInv, Kept
  <2>5. QED BY <2>3, <2>4
<1>7. ASSUME NEW s \in Streams, OnCredit(s) PROVE SubscribedInv'
  BY <1>7 DEF OnCredit, FlowAdd, Woken, loopVars, uploadVars, SetsOK, SubscribedInv, Kept
<1>8. ASSUME NEW s \in Streams, OnData(s) PROVE SubscribedInv'
  BY <1>8 DEF OnData, ReadsFrame, uploadVars, SetsOK, SubscribedInv, Kept
<1>9. ASSUME NEW s \in Streams, OnClose(s) PROVE SubscribedInv'
  <2>1. loop = "reading" /\ subscriptions' = subscriptions \ {s} /\ Kept = {}
    BY <1>9 DEF OnClose, ReadsFrame, SubscribedInv
  <2>2. CASE ~(s \in subscriptions /\ Kind[s] = "upload")
    <3>1. temporary' = temporary /\ landed' = landed /\ loop' = loop
      BY <1>9, <2>2 DEF OnClose, uploadVars
    <3>2. QED BY <2>1, <2>2, <3>1 DEF SubscribedInv, Kept
  <2>3. CASE s \in subscriptions /\ Kind[s] = "upload"
    <3>1. s \notin landed
      BY <2>3 DEF LandedInv, Complete
    <3>2. \/ Land(s)
          \/ loop' = "leaving" /\ landed' = landed /\ temporary' \in {temporary, temporary \ {s}}
      BY <1>9, <2>3 DEF OnClose, Activate, Land, uploadVars
    <3>3. CASE Land(s)
      BY <2>1, <3>3 DEF Land, SubscribedInv, Kept
    <3>4. CASE loop' = "leaving" /\ landed' = landed
               /\ temporary' \in {temporary, temporary \ {s}}
      BY <2>1, <3>4 DEF SubscribedInv, Kept
    <3>5. QED BY <3>2, <3>3, <3>4
  <2>4. QED BY <2>2, <2>3
<1>10. ASSUME NEW s \in Streams, ReadSocket(s) PROVE SubscribedInv'
  BY <1>10 DEF ReadSocket, Moves, loopVars, uploadVars, SetsOK, SubscribedInv, Kept
<1>11. ASSUME NEW s \in Streams, NextOfFile(s) PROVE SubscribedInv'
  BY <1>11 DEF NextOfFile, Moves, loopVars, uploadVars, SetsOK, SubscribedInv, Kept
<1>12. ASSUME NEW s \in Streams, Consume(s) PROVE SubscribedInv'
  BY <1>12 DEF Consume, Moves, loopVars, uploadVars, SetsOK, SubscribedInv, Kept
<1>13. ASSUME NEW s \in Streams, StartWaiting(s) PROVE SubscribedInv'
  BY <1>13 DEF StartWaiting, Moves, loopVars, uploadVars, SetsOK, SubscribedInv, Kept
<1>14. ASSUME NEW s \in Streams, FileIsShort(s) PROVE SubscribedInv'
  BY <1>14 DEF FileIsShort, Moves, loopVars, uploadVars, SetsOK, SubscribedInv, Kept
<1>15. ASSUME NEW s \in Streams, WriteChunk(s) PROVE SubscribedInv'
  BY <1>15 DEF WriteChunk, Moves, loopVars, uploadVars, SetsOK, SubscribedInv, Kept
<1>16. ASSUME NEW s \in Streams, PumpEnds(s) PROVE SubscribedInv'
  BY <1>16 DEF PumpEnds, Moves, loopVars, uploadVars, SetsOK, SubscribedInv, Kept
<1>17. ASSUME NEW s \in Streams, PeerReads(s) PROVE SubscribedInv'
  BY <1>17 DEF PeerReads, loopVars, uploadVars, SetsOK, SubscribedInv, Kept
<1>18. ASSUME NEW s \in Streams, PeerWrites(s) PROVE SubscribedInv'
  BY <1>18 DEF PeerWrites, loopVars, uploadVars, SetsOK, SubscribedInv, Kept
<1>19. ASSUME NEW s \in Streams, PeerCloses(s) PROVE SubscribedInv'
  BY <1>19 DEF PeerCloses, loopVars, uploadVars, SetsOK, SubscribedInv, Kept
<1>20. ASSUME Leave PROVE SubscribedInv'
  BY <1>20 DEF Leave, loopVars, uploadVars, SetsOK, SubscribedInv, Kept
<1>21. ASSUME WriteToPeer PROVE SubscribedInv'
  BY <1>21 DEF WriteToPeer, uploadVars, SetsOK, SubscribedInv, Kept
<1>22. ASSUME EndOfFrames PROVE SubscribedInv'
  BY <1>22 DEF EndOfFrames, uploadVars, SetsOK, SubscribedInv, Kept
<1>23. ASSUME CleanUp PROVE SubscribedInv'
  BY <1>23 DEF CleanUp, SetsOK, SubscribedInv, Kept
<1>24. ASSUME Disconnect PROVE SubscribedInv'
  BY <1>24 DEF Disconnect, Woken, uploadVars, SetsOK, SubscribedInv, Kept
<1>25. ASSUME CloseConnection PROVE SubscribedInv'
  BY <1>25 DEF CloseConnection, loopVars, uploadVars, SetsOK, SubscribedInv, Kept
<1>26. CASE UNCHANGED streamsVars
  BY <1>26 DEF streamsVars, loopVars, uploadVars, SetsOK, SubscribedInv, Kept
<1>27. QED
  BY <1>1, <1>2, <1>3, <1>4, <1>5, <1>6, <1>7, <1>8, <1>9, <1>10, <1>11, <1>12, <1>13,
     <1>14, <1>15, <1>16, <1>17, <1>18, <1>19, <1>20, <1>21, <1>22, <1>23, <1>24, <1>25,
     <1>26 DEF StreamsNext, LoopStep, PumpStep, ReaderStep

\* Each step that takes in data of an upload takes as much off what is missing.
LEMMA UploadStep ==
    ASSUME UpOK, SetsOK, StagesOK, CountsOK, OrderInv, UploadInv, [StreamsNext]_streamsVars
    PROVE  UploadInv'
<1>1. ASSUME NEW s \in Streams, Open(s) PROVE UploadInv'
  <2>1. /\ SendUp(FrameOf("open", s)) /\ toSend' = toSend
    BY <1>1 DEF Open
  <2>2. loop' = loop /\ remaining' = remaining /\ subscriptions' = subscriptions
    BY <1>1 DEF Open, loopVars
  <2>3. \A t \in Streams : holds'[t] \in {"open", "ended"} =>
                             holds[t] \in {"open", "ended"} \/ t = s
    BY <1>1 DEF Open, StagesOK
  <2>4. QED BY <2>1, <2>2, <2>3, UploadSent
<1>2. ASSUME NEW s \in Streams, Write(s) PROVE UploadInv'
  <2>1. /\ SendUp(FrameOf("data", s)) /\ holds[s] = "open" /\ toSend[s] > 0
        /\ toSend' = [toSend EXCEPT ![s] = @ - 1]
    BY <1>2 DEF Write
  <2>2. loop' = loop /\ remaining' = remaining /\ subscriptions' = subscriptions
    BY <1>2 DEF Write, loopVars
  <2>3. \A t \in Streams : holds'[t] \in {"open", "ended"} =>
                             holds[t] \in {"open", "ended"}
    BY <1>2 DEF Write, StagesOK
  <2>4. QED BY <2>1, <2>2, <2>3, UploadSent
<1>3. ASSUME NEW s \in Streams, Drop(s) PROVE UploadInv'
  <2>1. /\ SendUp(FrameOf("close", s)) /\ toSend' = toSend
        /\ holds[s] \in {"open", "ended"}
    BY <1>3 DEF Drop
  <2>2. loop' = loop /\ remaining' = remaining /\ subscriptions' = subscriptions
    BY <1>3 DEF Drop, loopVars
  <2>3. \A t \in Streams : holds'[t] \in {"open", "ended"} =>
                             holds[t] \in {"open", "ended"}
    BY <1>3 DEF Drop, StagesOK
  <2>4. QED BY <2>1, <2>2, <2>3, UploadSent
<1>4. ASSUME NEW s \in Streams, ReadChunk(s) PROVE UploadInv'
  <2>1. /\ SendUp(FrameOf("credit", s)) /\ toSend' = toSend
    BY <1>4 DEF ReadChunk
  <2>2. loop' = loop /\ remaining' = remaining /\ subscriptions' = subscriptions
    BY <1>4 DEF ReadChunk, loopVars
  <2>3. \A t \in Streams : holds'[t] \in {"open", "ended"} =>
                             holds[t] \in {"open", "ended"}
    BY <1>4 DEF ReadChunk, StagesOK
  <2>4. QED BY <2>1, <2>2, <2>3, UploadSent
<1>5. ASSUME NEW s \in Streams, ReadGoodbye(s) PROVE UploadInv'
  <2>1. /\ up' = up /\ toSend' = toSend /\ subscriptions' = subscriptions
        /\ loop' \in {"reading", "writing"} => loop \in {"reading", "writing"}
        /\ \A t \in Streams : /\ Kind[t] = "upload" => remaining'[t] = remaining[t]
                              /\ holds'[t] \in {"open", "ended"}
                                    => holds[t] \in {"open", "ended"}
    BY <1>5 DEF ReadGoodbye, loopVars, uploadVars, StagesOK, CountsOK
  <2>2. QED BY <2>1, UploadStill
<1>6. ASSUME NEW s \in Streams, OnOpen(s) PROVE UploadInv'
  <2> SUFFICES ASSUME loop' \in {"reading", "writing"}, NEW t \in Streams,
                      Kind[t] = "upload"
               PROVE  /\ toSend'[t] + Size[t] + UnderWay(FrameOf("data", t))'
                            = Upstream[t] + remaining'[t]
                      /\ Unfinished(t)' => t \in subscriptions' \/ Sending(t)'
    BY DEF UploadInv
  <2>1. ReadsFrame("open", s) /\ holds' = holds /\ toSend' = toSend /\ loop = "reading"
    BY <1>6 DEF OnOpen, ReadsFrame
  <2>2. /\ UnderWay(FrameOf("data", t))' \in Nat
        /\ UnderWay(FrameOf("data", t)) =
               UnderWay(FrameOf("data", t))'
    BY <2>1, CountedOff
  <2>3. /\ Unfinished(t)' => Unfinished(t)
        /\ Sending(t) /\ t # s => Sending(t)'
    BY <2>1, UploadTaken
  <2>4. /\ toSend[t] + Size[t] + UnderWay(FrameOf("data", t)) = Upstream[t] + remaining[t]
        /\ Unfinished(t) => t \in subscriptions \/ Sending(t)
    BY <2>1 DEF UploadInv
  <2>5. /\ remaining' = remaining /\ subscriptions \subseteq subscriptions'
        /\ Kind[s] = "upload" => s \in subscriptions'
    BY <1>6 DEF OnOpen
  <2>6. QED BY <2>1, <2>2, <2>3, <2>4, <2>5
<1>7. ASSUME NEW s \in Streams, OnCredit(s) PROVE UploadInv'
  <2> SUFFICES ASSUME loop' \in {"reading", "writing"}, NEW t \in Streams,
                      Kind[t] = "upload"
               PROVE  /\ toSend'[t] + Size[t] + UnderWay(FrameOf("data", t))'
                            = Upstream[t] + remaining'[t]
                      /\ Unfinished(t)' => t \in subscriptions' \/ Sending(t)'
    BY DEF UploadInv
  <2>1. ReadsFrame("credit", s) /\ holds' = holds /\ toSend' = toSend /\ loop = "reading"
    BY <1>7 DEF OnCredit, ReadsFrame
  <2>2. /\ UnderWay(FrameOf("data", t))' \in Nat
        /\ UnderWay(FrameOf("data", t)) =
               UnderWay(FrameOf("data", t))'
    BY <2>1, CountedOff
  <2>3. /\ Unfinished(t)' => Unfinished(t)
        /\ Sending(t) => Sending(t)'
    BY <2>1, UploadTaken
  <2>4. /\ toSend[t] + Size[t] + UnderWay(FrameOf("data", t)) = Upstream[t] + remaining[t]
        /\ Unfinished(t) => t \in subscriptions \/ Sending(t)
    BY <2>1 DEF UploadInv
  <2>5. remaining' = remaining /\ subscriptions' = subscriptions
    BY <1>7 DEF OnCredit, loopVars
  <2>6. QED BY <2>1, <2>2, <2>3, <2>4, <2>5
<1>8. ASSUME NEW s \in Streams, OnData(s) PROVE UploadInv'
  <2> SUFFICES ASSUME loop' \in {"reading", "writing"}, NEW t \in Streams,
                      Kind[t] = "upload"
               PROVE  /\ toSend'[t] + Size[t] + UnderWay(FrameOf("data", t))'
                            = Upstream[t] + remaining'[t]
                      /\ Unfinished(t)' => t \in subscriptions' \/ Sending(t)'
    BY DEF UploadInv
  <2>1. ReadsFrame("data", s) /\ holds' = holds /\ toSend' = toSend /\ loop = "reading"
    BY <1>8 DEF OnData, ReadsFrame
  <2>2. /\ UnderWay(FrameOf("data", t))' \in Nat
        /\ UnderWay(FrameOf("data", t)) =
               IF t = s THEN UnderWay(FrameOf("data", t))' + 1
               ELSE UnderWay(FrameOf("data", t))'
    BY <2>1, CountedOff
  <2>3. /\ Unfinished(t)' => Unfinished(t)
        /\ Sending(t) => Sending(t)'
    BY <2>1, UploadTaken
  <2>4. /\ toSend[t] + Size[t] + UnderWay(FrameOf("data", t)) = Upstream[t] + remaining[t]
        /\ Unfinished(t) => t \in subscriptions \/ Sending(t)
    BY <2>1 DEF UploadInv
  <2>5. subscriptions' = subscriptions
    BY <1>8 DEF OnData
  <2>6. CASE t # s
    <3>1. remaining'[t] = remaining[t]
      BY <1>8, <2>6 DEF OnData, CountsOK
    <3>2. QED BY <2>1, <2>2, <2>3, <2>4, <2>5, <2>6, <3>1
  <2>7. CASE t = s
    <3>1. s \in subscriptions
      BY <2>1, <2>7, DataInTime
    <3>2. /\ remaining[s] > 0 /\ remaining' = [remaining EXCEPT ![s] = @ - 1]
      BY <1>8, <2>7, <3>1 DEF OnData
    <3>3. remaining'[s] = remaining[s] - 1 /\ remaining[s] \in Nat
      BY <3>2 DEF CountsOK
    <3>4. toSend[t] \in Nat /\ Size[t] \in Nat /\ Upstream[t] \in Nat
      BY StreamsAssumption DEF CountsOK
    <3>5. QED BY <2>1, <2>2, <2>4, <2>5, <2>7, <3>1, <3>3, <3>4
  <2>8. QED BY <2>6, <2>7
<1>9. ASSUME NEW s \in Streams, OnClose(s) PROVE UploadInv'
  <2> SUFFICES ASSUME loop' \in {"reading", "writing"}, NEW t \in Streams,
                      Kind[t] = "upload"
               PROVE  /\ toSend'[t] + Size[t] + UnderWay(FrameOf("data", t))'
                            = Upstream[t] + remaining'[t]
                      /\ Unfinished(t)' => t \in subscriptions' \/ Sending(t)'
    BY DEF UploadInv
  <2>1. ReadsFrame("close", s) /\ holds' = holds /\ toSend' = toSend /\ loop = "reading"
    BY <1>9 DEF OnClose, ReadsFrame
  <2>2. /\ UnderWay(FrameOf("data", t))' \in Nat
        /\ UnderWay(FrameOf("data", t)) =
               UnderWay(FrameOf("data", t))'
    BY <2>1, CountedOff
  <2>3. /\ Unfinished(t)' => Unfinished(t)
        /\ Sending(t) => Sending(t)'
    BY <2>1, UploadTaken
  <2>4. /\ toSend[t] + Size[t] + UnderWay(FrameOf("data", t)) = Upstream[t] + remaining[t]
        /\ Unfinished(t) => t \in subscriptions \/ Sending(t)
    BY <2>1 DEF UploadInv
  <2>5. remaining' = remaining /\ subscriptions' = subscriptions \ {s}
    BY <1>9 DEF OnClose
  <2>6. t = s => ~Unfinished(t)'
    BY <2>1, ClosedAndDone
  <2>7. QED BY <2>1, <2>2, <2>3, <2>4, <2>5, <2>6
<1>10. ASSUME NEW s \in Streams, ReadSocket(s) PROVE UploadInv'
  <2>1. /\ up' = up /\ toSend' = toSend /\ subscriptions' = subscriptions
        /\ loop' \in {"reading", "writing"} => loop \in {"reading", "writing"}
        /\ \A t \in Streams : /\ Kind[t] = "upload" => remaining'[t] = remaining[t]
                              /\ holds'[t] \in {"open", "ended"}
                                    => holds[t] \in {"open", "ended"}
    BY <1>10 DEF ReadSocket, Moves, clientVars, loopVars, uploadVars, StagesOK,
       CountsOK
  <2>2. QED BY <2>1, UploadStill
<1>11. ASSUME NEW s \in Streams, NextOfFile(s) PROVE UploadInv'
  <2>1. /\ up' = up /\ toSend' = toSend /\ subscriptions' = subscriptions
        /\ loop' \in {"reading", "writing"} => loop \in {"reading", "writing"}
        /\ \A t \in Streams : /\ Kind[t] = "upload" => remaining'[t] = remaining[t]
                              /\ holds'[t] \in {"open", "ended"}
                                    => holds[t] \in {"open", "ended"}
    BY <1>11 DEF NextOfFile, Moves, clientVars, loopVars, uploadVars, StagesOK,
       CountsOK
  <2>2. QED BY <2>1, UploadStill
<1>12. ASSUME NEW s \in Streams, Consume(s) PROVE UploadInv'
  <2>1. /\ up' = up /\ toSend' = toSend /\ subscriptions' = subscriptions
        /\ loop' \in {"reading", "writing"} => loop \in {"reading", "writing"}
        /\ \A t \in Streams : /\ Kind[t] = "upload" => remaining'[t] = remaining[t]
                              /\ holds'[t] \in {"open", "ended"}
                                    => holds[t] \in {"open", "ended"}
    BY <1>12 DEF Consume, Moves, clientVars, loopVars, uploadVars, StagesOK, CountsOK
  <2>2. QED BY <2>1, UploadStill
<1>13. ASSUME NEW s \in Streams, StartWaiting(s) PROVE UploadInv'
  <2>1. /\ up' = up /\ toSend' = toSend /\ subscriptions' = subscriptions
        /\ loop' \in {"reading", "writing"} => loop \in {"reading", "writing"}
        /\ \A t \in Streams : /\ Kind[t] = "upload" => remaining'[t] = remaining[t]
                              /\ holds'[t] \in {"open", "ended"}
                                    => holds[t] \in {"open", "ended"}
    BY <1>13 DEF StartWaiting, Moves, clientVars, loopVars, uploadVars, StagesOK,
       CountsOK
  <2>2. QED BY <2>1, UploadStill
<1>14. ASSUME NEW s \in Streams, FileIsShort(s) PROVE UploadInv'
  <2>1. /\ up' = up /\ toSend' = toSend /\ subscriptions' = subscriptions
        /\ loop' \in {"reading", "writing"} => loop \in {"reading", "writing"}
        /\ \A t \in Streams : /\ Kind[t] = "upload" => remaining'[t] = remaining[t]
                              /\ holds'[t] \in {"open", "ended"}
                                    => holds[t] \in {"open", "ended"}
    BY <1>14 DEF FileIsShort, Moves, clientVars, loopVars, uploadVars, StagesOK,
       CountsOK
  <2>2. QED BY <2>1, UploadStill
<1>15. ASSUME NEW s \in Streams, WriteChunk(s) PROVE UploadInv'
  <2>1. /\ up' = up /\ toSend' = toSend /\ subscriptions' = subscriptions
        /\ loop' \in {"reading", "writing"} => loop \in {"reading", "writing"}
        /\ \A t \in Streams : /\ Kind[t] = "upload" => remaining'[t] = remaining[t]
                              /\ holds'[t] \in {"open", "ended"}
                                    => holds[t] \in {"open", "ended"}
    BY <1>15 DEF WriteChunk, Moves, clientVars, loopVars, uploadVars, StagesOK,
       CountsOK
  <2>2. QED BY <2>1, UploadStill
<1>16. ASSUME NEW s \in Streams, PumpEnds(s) PROVE UploadInv'
  <2>1. /\ up' = up /\ toSend' = toSend /\ subscriptions' = subscriptions
        /\ loop' \in {"reading", "writing"} => loop \in {"reading", "writing"}
        /\ \A t \in Streams : /\ Kind[t] = "upload" => remaining'[t] = remaining[t]
                              /\ holds'[t] \in {"open", "ended"}
                                    => holds[t] \in {"open", "ended"}
    BY <1>16 DEF PumpEnds, Moves, clientVars, loopVars, uploadVars, StagesOK, CountsOK
  <2>2. QED BY <2>1, UploadStill
<1>17. ASSUME NEW s \in Streams, PeerReads(s) PROVE UploadInv'
  <2>1. /\ up' = up /\ toSend' = toSend /\ subscriptions' = subscriptions
        /\ loop' \in {"reading", "writing"} => loop \in {"reading", "writing"}
        /\ \A t \in Streams : /\ Kind[t] = "upload" => remaining'[t] = remaining[t]
                              /\ holds'[t] \in {"open", "ended"}
                                    => holds[t] \in {"open", "ended"}
    BY <1>17 DEF PeerReads, clientVars, loopVars, uploadVars, StagesOK, CountsOK
  <2>2. QED BY <2>1, UploadStill
<1>18. ASSUME NEW s \in Streams, PeerWrites(s) PROVE UploadInv'
  <2>1. /\ up' = up /\ toSend' = toSend /\ subscriptions' = subscriptions
        /\ loop' \in {"reading", "writing"} => loop \in {"reading", "writing"}
        /\ \A t \in Streams : /\ Kind[t] = "upload" => remaining'[t] = remaining[t]
                              /\ holds'[t] \in {"open", "ended"}
                                    => holds[t] \in {"open", "ended"}
    BY <1>18 DEF PeerWrites, clientVars, loopVars, uploadVars, StagesOK, CountsOK
  <2>2. QED BY <2>1, UploadStill
<1>19. ASSUME NEW s \in Streams, PeerCloses(s) PROVE UploadInv'
  <2>1. /\ up' = up /\ toSend' = toSend /\ subscriptions' = subscriptions
        /\ loop' \in {"reading", "writing"} => loop \in {"reading", "writing"}
        /\ \A t \in Streams : /\ Kind[t] = "upload" => remaining'[t] = remaining[t]
                              /\ holds'[t] \in {"open", "ended"}
                                    => holds[t] \in {"open", "ended"}
    BY <1>19 DEF PeerCloses, clientVars, loopVars, uploadVars, StagesOK, CountsOK
  <2>2. QED BY <2>1, UploadStill
<1>20. ASSUME Leave PROVE UploadInv'
  <2>1. /\ up' = up /\ toSend' = toSend /\ subscriptions' = subscriptions
        /\ loop' \in {"reading", "writing"} => loop \in {"reading", "writing"}
        /\ \A t \in Streams : /\ Kind[t] = "upload" => remaining'[t] = remaining[t]
                              /\ holds'[t] \in {"open", "ended"}
                                    => holds[t] \in {"open", "ended"}
    BY <1>20 DEF Leave, loopVars, uploadVars, StagesOK, CountsOK
  <2>2. QED BY <2>1, UploadStill
<1>21. ASSUME WriteToPeer PROVE UploadInv'
  <2>1. /\ up' = up /\ toSend' = toSend /\ subscriptions' = subscriptions
        /\ loop' \in {"reading", "writing"} => loop \in {"reading", "writing"}
        /\ \A t \in Streams : /\ Kind[t] = "upload" => remaining'[t] = remaining[t]
                              /\ holds'[t] \in {"open", "ended"}
                                    => holds[t] \in {"open", "ended"}
    BY <1>21 DEF WriteToPeer, clientVars, uploadVars, StagesOK, CountsOK
  <2>2. QED BY <2>1, UploadStill
<1>22. ASSUME EndOfFrames PROVE UploadInv'
  BY <1>22 DEF EndOfFrames, UploadInv
<1>23. ASSUME CleanUp PROVE UploadInv'
  BY <1>23 DEF CleanUp, UploadInv
<1>24. ASSUME Disconnect PROVE UploadInv'
  BY <1>24 DEF Disconnect, UploadInv
<1>25. ASSUME CloseConnection PROVE UploadInv'
  <2>1. /\ up' = up /\ toSend' = toSend /\ subscriptions' = subscriptions
        /\ loop' \in {"reading", "writing"} => loop \in {"reading", "writing"}
        /\ \A t \in Streams : /\ Kind[t] = "upload" => remaining'[t] = remaining[t]
                              /\ holds'[t] \in {"open", "ended"}
                                    => holds[t] \in {"open", "ended"}
    BY <1>25 DEF CloseConnection, loopVars, uploadVars, StagesOK, CountsOK
  <2>2. QED BY <2>1, UploadStill
<1>26. CASE UNCHANGED streamsVars
  BY <1>26, UploadStill DEF streamsVars, clientVars, loopVars
<1>27. QED
  BY <1>1, <1>2, <1>3, <1>4, <1>5, <1>6, <1>7, <1>8, <1>9, <1>10, <1>11, <1>12, <1>13,
     <1>14, <1>15, <1>16, <1>17, <1>18, <1>19, <1>20, <1>21, <1>22, <1>23, <1>24, <1>25,
     <1>26 DEF StreamsNext, LoopStep, PumpStep, ReaderStep

\* A file gets its name when nothing of it is missing.
LEMMA LandedStep ==
    ASSUME UpOK, SetsOK, StagesOK, CountsOK, OrderInv, SubscribedInv,
           UploadInv, LandedInv, [StreamsNext]_streamsVars
    PROVE  LandedInv'
<1>1. ASSUME NEW s \in Streams, Open(s) PROVE LandedInv'
  <2>1. /\ Complete' = Complete
        /\ \A t \in Complete : LeftClosed(t)
    BY <1>1 DEF LeftClosed, Open, loopVars, uploadVars, Complete, Kept, SetsOK, StagesOK, CountsOK
  <2>2. QED BY <2>1, LandedStill
<1>2. ASSUME NEW s \in Streams, Write(s) PROVE LandedInv'
  <2>1. /\ Complete' = Complete
        /\ \A t \in Complete : LeftClosed(t)
    BY <1>2 DEF LeftClosed, Write, loopVars, uploadVars, Complete, Kept, SetsOK, StagesOK, CountsOK
  <2>2. QED BY <2>1, LandedStill
<1>3. ASSUME NEW s \in Streams, Drop(s) PROVE LandedInv'
  <2>1. /\ Complete' = Complete
        /\ \A t \in Complete : LeftClosed(t)
    BY <1>3 DEF LeftClosed, Drop, loopVars, uploadVars, Complete, Kept, SetsOK, StagesOK, CountsOK
  <2>2. QED BY <2>1, LandedStill
<1>4. ASSUME NEW s \in Streams, ReadChunk(s) PROVE LandedInv'
  <2>1. /\ Complete' = Complete
        /\ \A t \in Complete : LeftClosed(t)
    BY <1>4 DEF LeftClosed, ReadChunk, loopVars, uploadVars, Complete, Kept, SetsOK, StagesOK, CountsOK
  <2>2. QED BY <2>1, LandedStill
<1>5. ASSUME NEW s \in Streams, ReadGoodbye(s) PROVE LandedInv'
  <2>1. /\ Complete' = Complete
        /\ \A t \in Complete : LeftClosed(t)
    BY <1>5 DEF LeftClosed, ReadGoodbye, loopVars, uploadVars, Complete, Kept, SetsOK, StagesOK, CountsOK
  <2>2. QED BY <2>1, LandedStill
<1>6. ASSUME NEW s \in Streams, OnOpen(s) PROVE LandedInv'
  <2>1. s \notin Complete
    <3>1. ReadsFrame("open", s) /\ loop = "reading"
      BY <1>6 DEF OnOpen, ReadsFrame
    <3>2. QED BY <3>1, FirstFrame DEF SubscribedInv, Complete
  <2>2. landed' = landed /\ holds' = holds /\ toSend' = toSend /\ remaining' = remaining
    BY <1>6 DEF OnOpen
  <2>3. subscriptions' \subseteq subscriptions \cup {s}
    BY <1>6 DEF OnOpen
  <2>4. Complete' \subseteq Complete
    BY <1>6 DEF OnOpen, Complete, Kept
  <2>5. QED BY <2>1, <2>2, <2>3, <2>4, LandedStill DEF LeftClosed
<1>7. ASSUME NEW s \in Streams, OnCredit(s) PROVE LandedInv'
  <2>1. /\ Complete' = Complete
        /\ \A t \in Complete : LeftClosed(t)
    BY <1>7 DEF LeftClosed, OnCredit, FlowAdd, Woken, loopVars, uploadVars, Complete, Kept, SetsOK, StagesOK,
       CountsOK
  <2>2. QED BY <2>1, LandedStill
<1>8. ASSUME NEW s \in Streams, OnData(s) PROVE LandedInv'
  <2>1. /\ Complete' = Complete
        /\ \A t \in Complete : LeftClosed(t)
    BY <1>8 DEF LeftClosed, OnData, uploadVars, Complete, Kept, SetsOK, StagesOK, CountsOK
  <2>2. QED BY <2>1, LandedStill
<1>9. ASSUME NEW s \in Streams, OnClose(s) PROVE LandedInv'
  <2>1. ReadsFrame("close", s) /\ holds' = holds /\ toSend' = toSend /\ loop = "reading"
    BY <1>9 DEF OnClose, ReadsFrame
  <2>2. remaining' = remaining /\ subscriptions' = subscriptions \ {s}
    BY <1>9 DEF OnClose
  <2>3. CASE Complete' \subseteq Complete
    BY <2>1, <2>2, <2>3, LandedStill DEF LeftClosed
  <2>4. CASE ~(Complete' \subseteq Complete)
    <3>1. /\ Complete' \subseteq Complete \cup {s} /\ Kind[s] = "upload" /\ remaining[s] = 0
      BY <1>9, <2>4 DEF OnClose, Activate, Land, uploadVars, SubscribedInv, Complete, Kept
    <3>2. holds[s] = "closed"
      BY <2>1, FirstFrame
    <3>3. UnderWay(FrameOf("data", s)) = 0
      BY <2>1, ClosedAndDone, CountedOff
    <3>4. toSend[s] + Size[s] + UnderWay(FrameOf("data", s)) = Upstream[s] + remaining[s]
      BY <2>1, <3>1 DEF UploadInv
    <3>5. toSend[s] + Size[s] = Upstream[s]
      BY <3>1, <3>3, <3>4, StreamsAssumption DEF CountsOK
    <3>6. QED BY <2>1, <2>2, <3>1, <3>2, <3>5 DEF LandedInv
  <2>5. QED BY <2>3, <2>4
<1>10. ASSUME NEW s \in Streams, ReadSocket(s) PROVE LandedInv'
  <2>1. /\ Complete' = Complete
        /\ \A t \in Complete : LeftClosed(t)
    BY <1>10 DEF LeftClosed, ReadSocket, Moves, clientVars, loopVars, uploadVars, Complete, Kept, SetsOK,
       StagesOK, CountsOK
  <2>2. QED BY <2>1, LandedStill
<1>11. ASSUME NEW s \in Streams, NextOfFile(s) PROVE LandedInv'
  <2>1. /\ Complete' = Complete
        /\ \A t \in Complete : LeftClosed(t)
    BY <1>11 DEF LeftClosed, NextOfFile, Moves, clientVars, loopVars, uploadVars, Complete, Kept, SetsOK,
       StagesOK, CountsOK
  <2>2. QED BY <2>1, LandedStill
<1>12. ASSUME NEW s \in Streams, Consume(s) PROVE LandedInv'
  <2>1. /\ Complete' = Complete
        /\ \A t \in Complete : LeftClosed(t)
    BY <1>12 DEF LeftClosed, Consume, Moves, clientVars, loopVars, uploadVars, Complete, Kept, SetsOK, StagesOK,
       CountsOK
  <2>2. QED BY <2>1, LandedStill
<1>13. ASSUME NEW s \in Streams, StartWaiting(s) PROVE LandedInv'
  <2>1. /\ Complete' = Complete
        /\ \A t \in Complete : LeftClosed(t)
    BY <1>13 DEF LeftClosed, StartWaiting, Moves, clientVars, loopVars, uploadVars, Complete, Kept, SetsOK,
       StagesOK, CountsOK
  <2>2. QED BY <2>1, LandedStill
<1>14. ASSUME NEW s \in Streams, FileIsShort(s) PROVE LandedInv'
  <2>1. /\ Complete' = Complete
        /\ \A t \in Complete : LeftClosed(t)
    BY <1>14 DEF LeftClosed, FileIsShort, Moves, clientVars, loopVars, uploadVars, Complete, Kept, SetsOK,
       StagesOK, CountsOK
  <2>2. QED BY <2>1, LandedStill
<1>15. ASSUME NEW s \in Streams, WriteChunk(s) PROVE LandedInv'
  <2>1. /\ Complete' = Complete
        /\ \A t \in Complete : LeftClosed(t)
    BY <1>15 DEF LeftClosed, WriteChunk, Moves, clientVars, loopVars, uploadVars, Complete, Kept, SetsOK,
       StagesOK, CountsOK
  <2>2. QED BY <2>1, LandedStill
<1>16. ASSUME NEW s \in Streams, PumpEnds(s) PROVE LandedInv'
  <2>1. /\ Complete' = Complete
        /\ \A t \in Complete : LeftClosed(t)
    BY <1>16 DEF LeftClosed, PumpEnds, Moves, clientVars, loopVars, uploadVars, Complete, Kept, SetsOK, StagesOK,
       CountsOK
  <2>2. QED BY <2>1, LandedStill
<1>17. ASSUME NEW s \in Streams, PeerReads(s) PROVE LandedInv'
  <2>1. /\ Complete' = Complete
        /\ \A t \in Complete : LeftClosed(t)
    BY <1>17 DEF LeftClosed, PeerReads, clientVars, loopVars, uploadVars, Complete, Kept, SetsOK, StagesOK,
       CountsOK
  <2>2. QED BY <2>1, LandedStill
<1>18. ASSUME NEW s \in Streams, PeerWrites(s) PROVE LandedInv'
  <2>1. /\ Complete' = Complete
        /\ \A t \in Complete : LeftClosed(t)
    BY <1>18 DEF LeftClosed, PeerWrites, clientVars, loopVars, uploadVars, Complete, Kept, SetsOK, StagesOK,
       CountsOK
  <2>2. QED BY <2>1, LandedStill
<1>19. ASSUME NEW s \in Streams, PeerCloses(s) PROVE LandedInv'
  <2>1. /\ Complete' = Complete
        /\ \A t \in Complete : LeftClosed(t)
    BY <1>19 DEF LeftClosed, PeerCloses, clientVars, loopVars, uploadVars, Complete, Kept, SetsOK, StagesOK,
       CountsOK
  <2>2. QED BY <2>1, LandedStill
<1>20. ASSUME Leave PROVE LandedInv'
  <2>1. /\ Complete' = Complete
        /\ \A t \in Complete : LeftClosed(t)
    BY <1>20 DEF LeftClosed, Leave, loopVars, uploadVars, Complete, Kept, SetsOK, StagesOK, CountsOK
  <2>2. QED BY <2>1, LandedStill
<1>21. ASSUME WriteToPeer PROVE LandedInv'
  <2>1. /\ Complete' = Complete
        /\ \A t \in Complete : LeftClosed(t)
    BY <1>21 DEF LeftClosed, WriteToPeer, clientVars, uploadVars, Complete, Kept, SetsOK, StagesOK, CountsOK
  <2>2. QED BY <2>1, LandedStill
<1>22. ASSUME EndOfFrames PROVE LandedInv'
  <2>1. /\ Complete' = Complete
        /\ \A t \in Complete : LeftClosed(t)
    BY <1>22 DEF LeftClosed, EndOfFrames, clientVars, uploadVars, Complete, Kept, SetsOK, StagesOK, CountsOK
  <2>2. QED BY <2>1, LandedStill
<1>23. ASSUME CleanUp PROVE LandedInv'
  <2>1. /\ Complete' = Complete
        /\ \A t \in Complete : LeftClosed(t)
    BY <1>23 DEF LeftClosed, CleanUp, clientVars, Complete, Kept, SetsOK, StagesOK, CountsOK
  <2>2. QED BY <2>1, LandedStill
<1>24. ASSUME Disconnect PROVE LandedInv'
  <2>1. /\ Complete' = Complete
        /\ \A t \in Complete : LeftClosed(t)
    BY <1>24 DEF LeftClosed, Disconnect, Woken, clientVars, uploadVars, Complete, Kept, SetsOK, StagesOK, CountsOK
  <2>2. QED BY <2>1, LandedStill
<1>25. ASSUME CloseConnection PROVE LandedInv'
  <2>1. /\ Complete' = Complete
        /\ \A t \in Complete : LeftClosed(t)
    BY <1>25 DEF LeftClosed, CloseConnection, loopVars, uploadVars, Complete, Kept, SetsOK, StagesOK, CountsOK
  <2>2. QED BY <2>1, LandedStill
<1>26. CASE UNCHANGED streamsVars
  BY <1>26 DEF streamsVars, clientVars, loopVars, uploadVars, Complete, Kept, LandedInv
<1>27. QED
  BY <1>1, <1>2, <1>3, <1>4, <1>5, <1>6, <1>7, <1>8, <1>9, <1>10, <1>11, <1>12, <1>13,
     <1>14, <1>15, <1>16, <1>17, <1>18, <1>19, <1>20, <1>21, <1>22, <1>23, <1>24, <1>25,
     <1>26 DEF StreamsNext, LoopStep, PumpStep, ReaderStep

(***************************************************************************)
(* The theorems.                                                           *)
(***************************************************************************)
StreamsInv ==
    /\ StreamsTypeOK /\ DownloadInv /\ FreshInv /\ OrderInv /\ CreditConserved
    /\ SubscribedInv /\ LandedInv /\ UploadInv

\* It holds when the connection is made.
LEMMA StreamsStart == StreamsInit => StreamsInv
<1> SUFFICES ASSUME StreamsInit PROVE StreamsInv
  OBVIOUS
<1>1. up = <<>> /\ DOMAIN up = {} /\ up \in Seq(Frame) /\ Len(up) = 0
  BY EmptySeq DEF StreamsInit
<1>2. \A f : UnderWay(f) = 0
  BY <1>1, FS_EmptySet DEF UnderWay
<1>3. (CHOOSE s \in Streams : TRUE) \in Streams
  BY StreamsAssumption
<1>4. UpOK
  BY <1>1, LimitsAssumption DEF UpOK
<1>5. SetsOK /\ StagesOK
  BY <1>3 DEF StreamsInit, SetsOK, StagesOK, Holds, Pump
<1>6. CountsOK
  BY StreamsAssumption DEF StreamsInit, CountsOK
<1>7. DownloadInv /\ CreditConserved /\ SubscribedInv /\ LandedInv
  BY DEF StreamsInit, DownloadInv, CreditConserved, SubscribedInv, LandedInv, Complete, Kept
<1>8. FreshInv
  BY <1>2 DEF StreamsInit, FreshInv, CreditsUnderWay
<1>9. OrderInv
  BY <1>1 DEF OrderInv
<1>10. UploadInv
  <2> SUFFICES ASSUME NEW s \in Streams
               PROVE  /\ toSend[s] + Size[s] + UnderWay(FrameOf("data", s))
                            = Upstream[s] + remaining[s]
                      /\ ~Unfinished(s)
    BY DEF UploadInv
  <2>1. toSend[s] = Upstream[s] /\ remaining[s] = Size[s] /\ holds[s] = "unopened"
    BY DEF StreamsInit
  <2>2. Upstream[s] \in Nat /\ Size[s] \in Nat
    BY StreamsAssumption
  <2>3. QED BY <1>1, <1>2, <2>1, <2>2 DEF Unfinished
<1>11. QED
  BY <1>4, <1>5, <1>6, <1>7, <1>8, <1>9, <1>10, StreamsParts DEF StreamsInv

\* Every step keeps it.
LEMMA StreamsSteps ==
    ASSUME StreamsInv, [StreamsNext]_streamsVars PROVE StreamsInv'
<1>1. /\ UpOK /\ SetsOK /\ StagesOK /\ CountsOK /\ DownloadInv /\ FreshInv /\ OrderInv
      /\ CreditConserved /\ SubscribedInv /\ LandedInv /\ UploadInv
  BY StreamsParts DEF StreamsInv
<1>2. UpOK' /\ SetsOK' /\ StagesOK' /\ CountsOK'
  BY <1>1, UpStep, SetsStep, StagesStep, CountsStep
<1>3. DownloadInv' /\ FreshInv' /\ OrderInv' /\ CreditConserved'
  BY <1>1, DownloadStep, FreshStep, OrderStep, CreditStep
<1>4. SubscribedInv' /\ LandedInv' /\ UploadInv'
  BY <1>1, SubscribedStep, LandedStep, UploadStep
<1>5. StreamsTypeOK'
  BY <1>2 DEF StreamsTypeOK, UpOK, SetsOK, StagesOK, CountsOK
<1>6. QED BY <1>3, <1>4, <1>5 DEF StreamsInv

\* The invariant holds of every state: the streams' types, the order of the frames
\* on their way, and what each stream is owed.
LEMMA StreamsInvariance == StreamsSpec => []StreamsInv
<1>1. StreamsInv /\ [StreamsNext]_streamsVars => StreamsInv'
  BY StreamsSteps
<1>2. QED BY <1>1, StreamsStart, PTL DEF StreamsSpec

\* For any streams, window and queue: while the client is there a stream's window
\* is whole, whatever becomes of the connections beside it (daemon.rs:684-735).
THEOREM WindowsStayWhole == StreamsSpec => []CreditConserved
<1>1. StreamsInv => CreditConserved
  BY DEF StreamsInv
<1>2. QED BY <1>1, StreamsInvariance, PTL

\* For any number of uploads, each lands whole or not at all, and no part of one is
\* left behind: what keeps its temporary name is whole, and the only one
\* (daemon.rs:2971-3031).
THEOREM WholeOrNothing == StreamsSpec => []UploadsAllOrNothing
<1>1. StreamsInv => UploadsAllOrNothing
  <2> SUFFICES ASSUME StreamsInv PROVE UploadsAllOrNothing
    OBVIOUS
  <2>1. SetsOK /\ CountsOK
    BY StreamsParts DEF StreamsInv
  <2>2. ASSUME NEW s \in Complete PROVE Whole(s)
    <3>1. toSend[s] + Size[s] = Upstream[s] /\ remaining[s] = 0
      BY <2>2 DEF StreamsInv, LandedInv
    <3>2. toSend[s] \in Nat /\ Size[s] \in Nat /\ Upstream[s] \in Nat
      BY <2>1, <2>2, StreamsAssumption DEF SetsOK, CountsOK, Complete, Kept
    <3>3. QED BY <3>1, <3>2 DEF Whole
  <2>3. temporary \cap landed = {}
    BY DEF StreamsInv, SubscribedInv
  <2>4. ASSUME loop \in {"cleaned", "over"}
        PROVE  temporary = Kept /\ \A s, t \in temporary : s = t
    BY <2>4 DEF StreamsInv, SubscribedInv, Kept
  <2>5. QED BY <2>2, <2>3, <2>4 DEF UploadsAllOrNothing, Complete
<1>2. QED BY <1>1, StreamsInvariance, PTL
=============================================================================
