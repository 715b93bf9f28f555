--------------------------- MODULE AdoptionProofs ---------------------------
(***************************************************************************)
(* Proofs about Adoption, for any number of daemons, and, in the second    *)
(* half, about Lineage, the records those daemons hand on.                 *)
(*                                                                         *)
(* What is proved is that no reader of a daemon that was told to stand     *)
(* down buries a session the next daemon has brought back.  The argument   *)
(* needs what each thread may still believe after the lock has gone: a     *)
(* daemon that ends has latched its shutdown, a connection is cut only by  *)
(* the keeper's end or by a successor, and a handle that says `dead` is    *)
(* one whose child is dead or was asked to die.  That a deleted session    *)
(* stays deleted needs no more of the world than that daemons start in     *)
(* turn: who deletes it serves, those after it find nothing, and only the  *)
(* threads of those before it, until they end, may still write.            *)
(***************************************************************************)
EXTENDS Adoption, Lineage, FiniteSetTheorems, WellFoundedInduction, TLAPS

\* What the proofs assume of the world: accept never fails for good, and a
\* keeper comes up while its launch waits for it or not at all.
Environment == AcceptFails = {FALSE} /\ ~SlowKeeper

\* At most one daemon holds the lock, and one whose threads outlive it was told
\* to stand down.
LockInv ==
    /\ \A g, h \in Gen : pc[g] \in Holding /\ pc[h] \in Holding => g = h
    /\ \A g \in Gen : pc[g] = "ending" => shutdown[g]
    /\ \A g \in Gen : pc[g] = "scanning" => keeper # "spawned"

\* Before the launch there is nothing; before the first client nobody has a
\* handle or a reader.
BirthInv ==
    /\ kind = "unlaunched" =>
          /\ keeper = "none" /\ record = NoRecord
          /\ \A g \in Gen : /\ holds[g] = "nothing" /\ ~discarded[g]
                            /\ work[g] = {}
    /\ keeper \in {"none", "spawned"} => ~claimed /\ child = "none"
    /\ keeper = "up" => child # "none"
    /\ ~claimed =>
          /\ client = Nobody
          /\ \A g \in Gen : /\ holds[g] # "live" /\ reader[g] = "none"
                            /\ pc[g] \notin {"greeted", "burying"}

\* While a launch is in hand nothing but the launch has touched the session.
LaunchInv ==
    /\ \A g \in Gen : work[g] # {} => pc[g] \in {"serving", "ending"}
    /\ \A g \in Gen :
        pc[g] = "serving" /\ work[g] \cap Launching # {} =>
            /\ kind # "unlaunched" /\ record = Live /\ ~claimed
            /\ \A h \in Gen : holds[h] = "nothing" /\ ~discarded[h]
            /\ "recorded" \in work[g] => work[g] = {"recorded"} /\ keeper = "none"
            /\ "spawned" \in work[g] => work[g] = {"spawned"} /\ keeper # "none"

\* The connection says the exit only after it, and is cut only when the keeper
\* has gone or the daemon has been replaced; a reader has heard no more, and
\* what a daemon buries is dead.
StreamInv ==
    \A g \in Gen :
        /\ stream[g] = "exited" => child = "dead"
        /\ stream[g] = "cut" => keeper = "gone" \/ pc[g] = "ending"
        /\ pc[g] = "burying" => child = "dead"
        /\ reader[g] = "judging" =>
              IF heard[g].exited THEN child = "dead"
              ELSE keeper = "gone" \/ pc[g] = "ending"

\* The child is there, or on its way, and nobody has asked for its end.
Alive == keeper \in {"spawned", "up"} /\ child # "dead" /\ ~condemned

\* The handles daemons have to the session agree with its being alive.
HandleInv ==
    \A g \in Gen :
        /\ holds[g] = "live" /\ Alive => ~copy[g].dead
        /\ holds[g] = "shelved" => ~(keeper \in {"spawned", "up"} /\ child # "dead")
        /\ holds[g] # "nothing" => kind # "unlaunched"
        /\ work[g] \cap {"deleting", "archiving"} # {} => condemned

\* A session that is alive is not recorded as dead, and is on record from its
\* first client on.
RecordInv ==
    Alive /\ ~temporary =>
        /\ record # NoRecord => ~record.dead
        /\ claimed => record # NoRecord

IInv ==
    TypeOK /\ LockInv /\ BirthInv /\ LaunchInv /\ StreamInv /\ HandleInv
    /\ RecordInv

\* The empty slot is no daemon.
LEMMA NobodyIsNoGen == Nobody \notin Gen
  BY MaxGenAssumption DEF Nobody, Gen

\* Having no record is not a record.
LEMMA NoRecordIsNone == NoRecord \notin Records
  BY NoRecordAssumption DEF Records

\* Flags of a record, and of one with a flag set.
LEMMA RecordFacts ==
    /\ Live \in Records /\ ~Live.dead
    /\ [dead |-> TRUE, archived |-> TRUE] \in Records
    /\ \A r \in Records : r.dead \in BOOLEAN
    /\ \A r \in Records, b \in BOOLEAN :
          [r EXCEPT !.dead = b] \in Records /\ [r EXCEPT !.dead = b].dead = b
    /\ \A r \in Records :
          /\ [r EXCEPT !.archived = TRUE] \in Records
          /\ [r EXCEPT !.archived = TRUE].dead = r.dead
  BY DEF Records, Live

\* Retiring a record leaves a record.
LEMMA RetiredFacts ==
    ASSUME NEW r \in Records
    PROVE  /\ Retired(r) \in Records
           /\ [Retired(r) EXCEPT !.dead = TRUE] \in Records
  BY RecordFacts DEF Retired

\* Setting one daemon's copy leaves a copy for every daemon.
LEMMA CopyFacts ==
    ASSUME NEW f \in [Gen -> Records], NEW g \in Gen, NEW r \in Records
    PROVE  [f EXCEPT ![g] = r] \in [Gen -> Records]
  OBVIOUS

\* Cutting a connection changes that connection only, and to `cut`.
LEMMA CutFacts ==
    ASSUME stream \in [Gen -> {"none", "open", "exited", "cut"}],
           NEW c \in Gen \cup {Nobody}
    PROVE  /\ Cut(c) \in [Gen -> {"none", "open", "exited", "cut"}]
           /\ \A h \in Gen : Cut(c)[h] # stream[h] => h = c /\ Cut(c)[h] = "cut"
<1>1. CASE c # Nobody /\ stream[c] = "open"
  <2>1. c \in Gen /\ Cut(c) = [stream EXCEPT ![c] = "cut"]
    BY <1>1 DEF Cut
  <2>2. QED
    BY <2>1
<1>2. CASE ~(c # Nobody /\ stream[c] = "open")
  BY <1>2 DEF Cut
<1>3. QED
  BY <1>1, <1>2

\* The invariant holds before anything has been started.
LEMMA InitInv == Init => IInv
<1> SUFFICES ASSUME Init PROVE IInv
  OBVIOUS
<1> USE NobodyIsNoGen, NoRecordIsNone DEF Init
<1>1. TypeOK
  BY RecordFacts DEF TypeOK, Holding, Launching, Unheard
<1>2. LockInv /\ BirthInv /\ LaunchInv
  BY DEF LockInv, BirthInv, LaunchInv, Holding
<1>3. StreamInv /\ HandleInv /\ RecordInv
  BY DEF StreamInv, HandleInv, RecordInv, Alive
<1>4. QED
  BY <1>1, <1>2, <1>3 DEF IInv

\* Types: the slot is given to a daemon that lives, and a vanishing one leaves
\* it.
LEMMA TypeStep == Environment /\ IInv /\ [Next]_vars => TypeOK'
<1> SUFFICES ASSUME Environment, IInv, [Next]_vars PROVE TypeOK'
  OBVIOUS
<1> USE NobodyIsNoGen, NoRecordIsNone, RecordFacts DEF Environment, IInv,
   TypeOK, Living, Holding, flagVars, handleVars, readerVars, keeperVars,
   LockInv, BirthInv, Launching, Unheard
<1>1. ASSUME NEW g \in Gen, Start(g) PROVE TypeOK'
  BY <1>1 DEF Start
<1>2. ASSUME NEW g \in Gen, NothingToAdopt(g) PROVE TypeOK'
  BY <1>2 DEF NothingToAdopt
<1>3. ASSUME NEW g \in Gen, LoadInterrupted(g) PROVE TypeOK'
  <2> DEFINE retired == Retired(record)
             shown == [Retired(record) EXCEPT !.dead = TRUE]
  <2>1. retired \in Records /\ shown \in Records
    BY <1>3, RetiredFacts DEF LoadInterrupted
  <2>2. record' \in {NoRecord, retired}
    BY <1>3 DEF LoadInterrupted, Shelve
  <2>3. copy' \in {copy, [copy EXCEPT ![g] = shown]}
    BY <1>3 DEF LoadInterrupted, Shelve
  <2>4. holds' \in {holds, [holds EXCEPT ![g] = "shelved"]} /\ discarded' = discarded
    BY <1>3 DEF LoadInterrupted, Shelve
  <2>5. pc' = [pc EXCEPT ![g] = "serving"]
    BY <1>3 DEF LoadInterrupted
  <2>6. UNCHANGED <<flagVars, stream, readerVars, work, keeperVars, kind, condemned>>
    BY <1>3 DEF LoadInterrupted
  <2> HIDE DEF retired, shown
  <2>7. record' \in Records \cup {NoRecord} /\ copy' \in [Gen -> Records]
    <3>1. copy \in [Gen -> Records]
      OBVIOUS
    <3> HIDE DEF IInv
    <3>2. QED
      BY <2>1, <2>2, <2>3, <3>1, CopyFacts
  <2>8. /\ client' \in Living' \cup {Nobody}
        /\ pc' \in [Gen -> Holding \cup {"unborn", "ending", "gone"}]
    BY <2>5, <2>6
  <2>9. holds' \in [Gen -> {"nothing", "live", "shelved"}]
    BY <2>4
  <2>10. QED
    BY <2>4, <2>6, <2>7, <2>8, <2>9
<1>4. ASSUME NEW g \in Gen, ConnectKeeper(g) PROVE TypeOK'
  BY <1>4 DEF ConnectKeeper, TakeSlot, Cut
<1>5. ASSUME NEW g \in Gen, BuryFinished(g) PROVE TypeOK'
  <2> DEFINE buried == [record EXCEPT !.dead = TRUE]
  <2>0. buried \in Records
    BY <1>5 DEF BuryFinished
  <2> HIDE DEF buried
  <2> DEFINE retired == Retired(buried)
             shown == [Retired(buried) EXCEPT !.dead = TRUE]
  <2>1. retired \in Records /\ shown \in Records
    BY <2>0, RetiredFacts
  <2>2. record' \in {NoRecord, retired}
    BY <1>5 DEF BuryFinished, Shelve, buried
  <2>3. copy' \in {copy, [copy EXCEPT ![g] = shown]}
    BY <1>5 DEF BuryFinished, Shelve, buried
  <2>4. holds' \in {holds, [holds EXCEPT ![g] = "shelved"]} /\ discarded' = discarded
    BY <1>5 DEF BuryFinished, Shelve
  <2>5. pc' = [pc EXCEPT ![g] = "serving"]
    BY <1>5 DEF BuryFinished
  <2>6. keeper' \in {keeper, "gone"} /\ client' \in {client, Nobody}
    BY <1>5 DEF BuryFinished, SendQuit
  <2>7. UNCHANGED <<flagVars, stream, readerVars, work, claimed, child, kind, condemned>>
    BY <1>5 DEF BuryFinished
  <2> HIDE DEF retired, shown
  <2>8. record' \in Records \cup {NoRecord} /\ copy' \in [Gen -> Records]
    <3>1. copy \in [Gen -> Records]
      OBVIOUS
    <3> HIDE DEF IInv
    <3>2. QED
      BY <2>1, <2>2, <2>3, <3>1, CopyFacts
  <2>9. /\ client' \in Living' \cup {Nobody}
        /\ pc' \in [Gen -> Holding \cup {"unborn", "ending", "gone"}]
    BY <2>5, <2>6
  <2>10. QED
    BY <2>4, <2>5, <2>6, <2>7, <2>8, <2>9
<1>6. ASSUME NEW g \in Gen, AdoptLive(g) PROVE TypeOK'
  <2>1. [record EXCEPT !.dead = FALSE] \in Records
    BY <1>6 DEF AdoptLive
  <2>2. record' \in Records \cup {NoRecord} /\ copy' \in [Gen -> Records]
    BY <1>6, <2>1 DEF AdoptLive, Persist
  <2>3. /\ holds' = [holds EXCEPT ![g] = "live"]
        /\ reader' = [reader EXCEPT ![g] = "reading"]
        /\ pc' = [pc EXCEPT ![g] = "serving"]
    BY <1>6 DEF AdoptLive
  <2>4. UNCHANGED <<flagVars, discarded, stream, heard, work, keeperVars, kind, condemned>>
    BY <1>6 DEF AdoptLive
  <2>5. QED
    BY <2>2, <2>3, <2>4
<1>7. ASSUME NEW g \in Gen, AdoptFails(g) PROVE TypeOK'
  BY <1>7 DEF AdoptFails, DropConnection, OwnsSlot
<1>8. ASSUME NEW g \in Gen, DismissOrphan(g) PROVE TypeOK'
  BY <1>8 DEF DismissOrphan, Cut
<1>9. ASSUME NEW g \in Gen, PrepareHandover(g) PROVE TypeOK'
  BY <1>9 DEF PrepareHandover
<1>10. ASSUME NEW g \in Gen, AnswerHandover(g) PROVE TypeOK'
  BY <1>10 DEF AnswerHandover
<1>11. ASSUME NEW g \in Gen, LeaveAcceptLoop(g) PROVE TypeOK'
  BY <1>11 DEF LeaveAcceptLoop, Latched
<1>12. ASSUME NEW g \in Gen, ProcessEnds(g) PROVE TypeOK'
  BY <1>12 DEF ProcessEnds, Vanish, DropConnection, OwnsSlot
<1>13. ASSUME NEW g \in Gen, Crash(g) PROVE TypeOK'
  BY <1>13 DEF Crash, Vanish, DropConnection, OwnsSlot
<1>14. ASSUME NEW g \in Gen, CatchSignal(g) PROVE TypeOK'
  BY <1>14 DEF CatchSignal
<1>15. ASSUME NEW g \in Gen, LaunchRecords(g) PROVE TypeOK'
  BY <1>15 DEF LaunchRecords
<1>16. ASSUME NEW g \in Gen, LaunchSpawns(g) PROVE TypeOK'
  BY <1>16 DEF LaunchSpawns
<1>17. ASSUME NEW g \in Gen, LaunchFinishes(g) PROVE TypeOK'
  BY <1>17 DEF LaunchFinishes, TakeSlot, Cut, Persist, GateOpen
<1>18. ASSUME NEW g \in Gen, LaunchFails(g) PROVE TypeOK'
  BY <1>18 DEF LaunchFails
<1>19. ASSUME NEW g \in Gen, DeleteStops(g) PROVE TypeOK'
  BY <1>19 DEF DeleteStops
<1>20. ASSUME NEW g \in Gen, DeleteDiscards(g) PROVE TypeOK'
  BY <1>20 DEF DeleteDiscards, Discard
<1>21. ASSUME NEW g \in Gen, ArchiveStops(g) PROVE TypeOK'
  BY <1>21 DEF ArchiveStops
<1>22. ASSUME NEW g \in Gen, ArchiveRecords(g) PROVE TypeOK'
  BY <1>22 DEF ArchiveRecords, MarkDead, Persist, GateOpen
<1>23. ASSUME NEW g \in Gen, Touch(g) PROVE TypeOK'
  BY <1>23 DEF Touch, Persist, GateOpen
<1>24. ASSUME NEW g \in Gen, DeleteShelved(g) PROVE TypeOK'
  BY <1>24 DEF DeleteShelved, Discard
<1>25. ASSUME NEW g \in Gen, ArchiveShelved(g) PROVE TypeOK'
  BY <1>25 DEF ArchiveShelved, Persist, GateOpen
<1>26. ASSUME NEW g \in Gen, ReaderHears(g) PROVE TypeOK'
  BY <1>26 DEF ReaderHears
<1>27. ASSUME NEW g \in Gen, ReaderJudges(g) PROVE TypeOK'
  <2> DEFINE marked == [copy[g] EXCEPT !.dead = TRUE]
  <2>1. marked \in Records
    OBVIOUS
  <2> HIDE DEF marked
  <2>2. record' \in {record, marked}
    BY <1>27 DEF ReaderJudges, MarkDead, Persist, marked
  <2>3. copy' \in {copy, [copy EXCEPT ![g] = marked]}
    BY <1>27 DEF ReaderJudges, MarkDead, Persist, marked
  <2>4. keeper' \in {keeper, "gone"} /\ client' \in {client, Nobody}
    BY <1>27 DEF ReaderJudges, SendQuit
  <2>5. reader' = [reader EXCEPT ![g] = "done"]
    BY <1>27 DEF ReaderJudges
  <2>6. UNCHANGED <<pc, flagVars, holds, discarded, stream, heard, work, claimed,
                    child, kind, condemned>>
    BY <1>27 DEF ReaderJudges
  <2>7. record' \in Records \cup {NoRecord} /\ copy' \in [Gen -> Records]
    BY <2>1, <2>2, <2>3, CopyFacts
  <2>8. /\ client' \in Living' \cup {Nobody}
        /\ pc' \in [Gen -> Holding \cup {"unborn", "ending", "gone"}]
    BY <2>4, <2>6
  <2>9. QED
    BY <2>4, <2>5, <2>6, <2>7, <2>8
<1>28. ASSUME NEW g \in Gen, ReaderRemoves(g) PROVE TypeOK'
  BY <1>28 DEF ReaderRemoves, Discard, SendQuit, OwnsSlot
<1>29. CASE KeeperComesUp
  BY <1>29 DEF KeeperComesUp
<1>30. CASE KeeperFails
  BY <1>30 DEF KeeperFails
<1>31. CASE ChildDies
  BY <1>31 DEF ChildDies, NobodyLeftToTell
<1>32. CASE KeeperGivesUp
  BY <1>32 DEF KeeperGivesUp
<1>33. CASE KeeperCrash
  BY <1>33 DEF KeeperCrash, Cut
<1>34. CASE UNCHANGED vars
  BY <1>34 DEF vars
<1>35. QED
  BY <1>1, <1>2, <1>3, <1>4, <1>5, <1>6, <1>7, <1>8, <1>9, <1>10, <1>11,
     <1>12, <1>13, <1>14, <1>15, <1>16, <1>17, <1>18, <1>19, <1>20, <1>21,
     <1>22, <1>23, <1>24, <1>25, <1>26, <1>27, <1>28, <1>29, <1>30, <1>31,
     <1>32, <1>33, <1>34 DEF Next, Generation, Adopting, StandingDown,
     Asking, Finishing, Reading, Keeping

\* The lock: only a start takes it, and a daemon that lets go has latched its
\* shutdown.
LEMMA LockStep == Environment /\ IInv /\ [Next]_vars => LockInv'
<1> SUFFICES ASSUME Environment, IInv, [Next]_vars PROVE LockInv'
  OBVIOUS
<1> USE NobodyIsNoGen, NoRecordIsNone, RecordFacts DEF Environment, IInv,
   TypeOK, Living, Holding, flagVars, handleVars, readerVars, keeperVars,
   LockInv, LaunchInv, Launching
<1>1. ASSUME NEW g \in Gen, Start(g) PROVE LockInv'
  BY <1>1 DEF Start
<1>2. ASSUME NEW g \in Gen, NothingToAdopt(g) PROVE LockInv'
  BY <1>2 DEF NothingToAdopt
<1>3. ASSUME NEW g \in Gen, LoadInterrupted(g) PROVE LockInv'
  BY <1>3 DEF LoadInterrupted, Shelve, Retired
<1>4. ASSUME NEW g \in Gen, ConnectKeeper(g) PROVE LockInv'
  BY <1>4 DEF ConnectKeeper, TakeSlot, Cut
<1>5. ASSUME NEW g \in Gen, BuryFinished(g) PROVE LockInv'
  BY <1>5 DEF BuryFinished, Shelve, Retired, SendQuit, OwnsSlot
<1>6. ASSUME NEW g \in Gen, AdoptLive(g) PROVE LockInv'
  BY <1>6 DEF AdoptLive, Persist, GateOpen
<1>7. ASSUME NEW g \in Gen, AdoptFails(g) PROVE LockInv'
  BY <1>7 DEF AdoptFails, DropConnection, OwnsSlot
<1>8. ASSUME NEW g \in Gen, DismissOrphan(g) PROVE LockInv'
  BY <1>8 DEF DismissOrphan, Cut
<1>9. ASSUME NEW g \in Gen, PrepareHandover(g) PROVE LockInv'
  BY <1>9 DEF PrepareHandover
<1>10. ASSUME NEW g \in Gen, AnswerHandover(g) PROVE LockInv'
  BY <1>10 DEF AnswerHandover
<1>11. ASSUME NEW g \in Gen, LeaveAcceptLoop(g) PROVE LockInv'
  BY <1>11 DEF LeaveAcceptLoop, Latched
<1>12. ASSUME NEW g \in Gen, ProcessEnds(g) PROVE LockInv'
  BY <1>12 DEF ProcessEnds, Vanish, DropConnection, OwnsSlot
<1>13. ASSUME NEW g \in Gen, Crash(g) PROVE LockInv'
  BY <1>13 DEF Crash, Vanish, DropConnection, OwnsSlot
<1>14. ASSUME NEW g \in Gen, CatchSignal(g) PROVE LockInv'
  BY <1>14 DEF CatchSignal
<1>15. ASSUME NEW g \in Gen, LaunchRecords(g) PROVE LockInv'
  BY <1>15 DEF LaunchRecords
<1>16. ASSUME NEW g \in Gen, LaunchSpawns(g) PROVE LockInv'
  BY <1>16 DEF LaunchSpawns
<1>17. ASSUME NEW g \in Gen, LaunchFinishes(g) PROVE LockInv'
  BY <1>17 DEF LaunchFinishes, TakeSlot, Cut, Persist, GateOpen
<1>18. ASSUME NEW g \in Gen, LaunchFails(g) PROVE LockInv'
  BY <1>18 DEF LaunchFails
<1>19. ASSUME NEW g \in Gen, DeleteStops(g) PROVE LockInv'
  BY <1>19 DEF DeleteStops
<1>20. ASSUME NEW g \in Gen, DeleteDiscards(g) PROVE LockInv'
  BY <1>20 DEF DeleteDiscards, Discard
<1>21. ASSUME NEW g \in Gen, ArchiveStops(g) PROVE LockInv'
  BY <1>21 DEF ArchiveStops
<1>22. ASSUME NEW g \in Gen, ArchiveRecords(g) PROVE LockInv'
  BY <1>22 DEF ArchiveRecords, MarkDead, Persist, GateOpen
<1>23. ASSUME NEW g \in Gen, Touch(g) PROVE LockInv'
  BY <1>23 DEF Touch, Persist, GateOpen
<1>24. ASSUME NEW g \in Gen, DeleteShelved(g) PROVE LockInv'
  BY <1>24 DEF DeleteShelved, Discard
<1>25. ASSUME NEW g \in Gen, ArchiveShelved(g) PROVE LockInv'
  BY <1>25 DEF ArchiveShelved, Persist, GateOpen
<1>26. ASSUME NEW g \in Gen, ReaderHears(g) PROVE LockInv'
  BY <1>26 DEF ReaderHears
<1>27. ASSUME NEW g \in Gen, ReaderJudges(g) PROVE LockInv'
  BY <1>27 DEF ReaderJudges, MarkDead, Persist, GateOpen, SendQuit,
     OwnsSlot, RecordsADeath, KeeperCrashed, Dismisses
<1>28. ASSUME NEW g \in Gen, ReaderRemoves(g) PROVE LockInv'
  BY <1>28 DEF ReaderRemoves, Discard, SendQuit, OwnsSlot
<1>29. CASE KeeperComesUp
  BY <1>29 DEF KeeperComesUp
<1>30. CASE KeeperFails
  BY <1>30 DEF KeeperFails
<1>31. CASE ChildDies
  BY <1>31 DEF ChildDies, NobodyLeftToTell
<1>32. CASE KeeperGivesUp
  BY <1>32 DEF KeeperGivesUp
<1>33. CASE KeeperCrash
  BY <1>33 DEF KeeperCrash, Cut
<1>34. CASE UNCHANGED vars
  BY <1>34 DEF vars
<1>35. QED
  BY <1>1, <1>2, <1>3, <1>4, <1>5, <1>6, <1>7, <1>8, <1>9, <1>10, <1>11,
     <1>12, <1>13, <1>14, <1>15, <1>16, <1>17, <1>18, <1>19, <1>20, <1>21,
     <1>22, <1>23, <1>24, <1>25, <1>26, <1>27, <1>28, <1>29, <1>30, <1>31,
     <1>32, <1>33, <1>34 DEF Next, Generation, Adopting, StandingDown,
     Asking, Finishing, Reading, Keeping

\* The first client: handles and readers come with a connection to the keeper.
LEMMA BirthStep == Environment /\ IInv /\ [Next]_vars => BirthInv'
<1> SUFFICES ASSUME Environment, IInv, [Next]_vars PROVE BirthInv'
  OBVIOUS
<1> USE NobodyIsNoGen, NoRecordIsNone, RecordFacts DEF Environment, IInv,
   TypeOK, Living, Holding, flagVars, handleVars, readerVars, keeperVars,
   LaunchInv, LockInv, HandleInv, BirthInv, Launching, temporary
<1>1. ASSUME NEW g \in Gen, Start(g) PROVE BirthInv'
  BY <1>1 DEF Start
<1>2. ASSUME NEW g \in Gen, NothingToAdopt(g) PROVE BirthInv'
  BY <1>2 DEF NothingToAdopt
<1>3. ASSUME NEW g \in Gen, LoadInterrupted(g) PROVE BirthInv'
  BY <1>3 DEF LoadInterrupted, Shelve, Retired
<1>4. ASSUME NEW g \in Gen, ConnectKeeper(g) PROVE BirthInv'
  BY <1>4 DEF ConnectKeeper, TakeSlot, Cut
<1>5. ASSUME NEW g \in Gen, BuryFinished(g) PROVE BirthInv'
  BY <1>5 DEF BuryFinished, Shelve, Retired, SendQuit, OwnsSlot
<1>6. ASSUME NEW g \in Gen, AdoptLive(g) PROVE BirthInv'
  BY <1>6 DEF AdoptLive, Persist, GateOpen
<1>7. ASSUME NEW g \in Gen, AdoptFails(g) PROVE BirthInv'
  BY <1>7 DEF AdoptFails, DropConnection, OwnsSlot
<1>8. ASSUME NEW g \in Gen, DismissOrphan(g) PROVE BirthInv'
  BY <1>8 DEF DismissOrphan, Cut
<1>9. ASSUME NEW g \in Gen, PrepareHandover(g) PROVE BirthInv'
  BY <1>9 DEF PrepareHandover
<1>10. ASSUME NEW g \in Gen, AnswerHandover(g) PROVE BirthInv'
  BY <1>10 DEF AnswerHandover
<1>11. ASSUME NEW g \in Gen, LeaveAcceptLoop(g) PROVE BirthInv'
  BY <1>11 DEF LeaveAcceptLoop, Latched
<1>12. ASSUME NEW g \in Gen, ProcessEnds(g) PROVE BirthInv'
  BY <1>12 DEF ProcessEnds, Vanish, DropConnection, OwnsSlot
<1>13. ASSUME NEW g \in Gen, Crash(g) PROVE BirthInv'
  BY <1>13 DEF Crash, Vanish, DropConnection, OwnsSlot
<1>14. ASSUME NEW g \in Gen, CatchSignal(g) PROVE BirthInv'
  BY <1>14 DEF CatchSignal
<1>15. ASSUME NEW g \in Gen, LaunchRecords(g) PROVE BirthInv'
  BY <1>15 DEF LaunchRecords
<1>16. ASSUME NEW g \in Gen, LaunchSpawns(g) PROVE BirthInv'
  BY <1>16 DEF LaunchSpawns
<1>17. ASSUME NEW g \in Gen, LaunchFinishes(g) PROVE BirthInv'
  BY <1>17 DEF LaunchFinishes, TakeSlot, Cut, Persist, GateOpen
<1>18. ASSUME NEW g \in Gen, LaunchFails(g) PROVE BirthInv'
  BY <1>18 DEF LaunchFails
<1>19. ASSUME NEW g \in Gen, DeleteStops(g) PROVE BirthInv'
  BY <1>19 DEF DeleteStops
<1>20. ASSUME NEW g \in Gen, DeleteDiscards(g) PROVE BirthInv'
  BY <1>20 DEF DeleteDiscards, Discard
<1>21. ASSUME NEW g \in Gen, ArchiveStops(g) PROVE BirthInv'
  BY <1>21 DEF ArchiveStops
<1>22. ASSUME NEW g \in Gen, ArchiveRecords(g) PROVE BirthInv'
  BY <1>22 DEF ArchiveRecords, MarkDead, Persist, GateOpen
<1>23. ASSUME NEW g \in Gen, Touch(g) PROVE BirthInv'
  BY <1>23 DEF Touch, Persist, GateOpen
<1>24. ASSUME NEW g \in Gen, DeleteShelved(g) PROVE BirthInv'
  BY <1>24 DEF DeleteShelved, Discard
<1>25. ASSUME NEW g \in Gen, ArchiveShelved(g) PROVE BirthInv'
  BY <1>25 DEF ArchiveShelved, Persist, GateOpen
<1>26. ASSUME NEW g \in Gen, ReaderHears(g) PROVE BirthInv'
  BY <1>26 DEF ReaderHears
<1>27. ASSUME NEW g \in Gen, ReaderJudges(g) PROVE BirthInv'
  BY <1>27 DEF ReaderJudges, MarkDead, Persist, GateOpen, SendQuit,
     OwnsSlot, RecordsADeath, KeeperCrashed, Dismisses
<1>28. ASSUME NEW g \in Gen, ReaderRemoves(g) PROVE BirthInv'
  BY <1>28 DEF ReaderRemoves, Discard, SendQuit, OwnsSlot
<1>29. CASE KeeperComesUp
  BY <1>29 DEF KeeperComesUp
<1>30. CASE KeeperFails
  BY <1>30 DEF KeeperFails
<1>31. CASE ChildDies
  BY <1>31 DEF ChildDies, NobodyLeftToTell
<1>32. CASE KeeperGivesUp
  BY <1>32 DEF KeeperGivesUp
<1>33. CASE KeeperCrash
  BY <1>33 DEF KeeperCrash, Cut
<1>34. CASE UNCHANGED vars
  BY <1>34 DEF vars
<1>35. QED
  BY <1>1, <1>2, <1>3, <1>4, <1>5, <1>6, <1>7, <1>8, <1>9, <1>10, <1>11,
     <1>12, <1>13, <1>14, <1>15, <1>16, <1>17, <1>18, <1>19, <1>20, <1>21,
     <1>22, <1>23, <1>24, <1>25, <1>26, <1>27, <1>28, <1>29, <1>30, <1>31,
     <1>32, <1>33, <1>34 DEF Next, Generation, Adopting, StandingDown,
     Asking, Finishing, Reading, Keeping

\* A launch in hand: the gate and the one use of an id keep everybody else out.
LEMMA LaunchStep == Environment /\ IInv /\ [Next]_vars => LaunchInv'
<1> SUFFICES ASSUME Environment, IInv, [Next]_vars PROVE LaunchInv'
  OBVIOUS
<1> USE NobodyIsNoGen, NoRecordIsNone, RecordFacts DEF Environment, IInv,
   TypeOK, Living, Holding, flagVars, handleVars, readerVars, keeperVars,
   LaunchInv, LockInv, HandleInv, BirthInv, Launching, temporary, Live,
   Records
<1>1. ASSUME NEW g \in Gen, Start(g) PROVE LaunchInv'
  BY <1>1 DEF Start
<1>2. ASSUME NEW g \in Gen, NothingToAdopt(g) PROVE LaunchInv'
  <2>1. work' = work /\ work[g] = {}
    BY <1>2 DEF NothingToAdopt
  <2>2. \A h \in Gen : pc'[h] = "serving" => h = g
    BY <1>2 DEF NothingToAdopt
  <2>3. \A h \in Gen : work[h] # {} => pc'[h] \in {"serving", "ending"}
    BY <1>2, <2>1 DEF NothingToAdopt
  <2>4. QED
    BY <2>1, <2>2, <2>3
<1>3. ASSUME NEW g \in Gen, LoadInterrupted(g) PROVE LaunchInv'
  <2>1. work' = work /\ work[g] = {}
    BY <1>3 DEF LoadInterrupted
  <2>2. \A h \in Gen : pc'[h] = "serving" => h = g
    BY <1>3 DEF LoadInterrupted
  <2>3. \A h \in Gen : work[h] # {} => pc'[h] \in {"serving", "ending"}
    BY <1>3, <2>1 DEF LoadInterrupted
  <2>4. QED
    BY <2>1, <2>2, <2>3
<1>4. ASSUME NEW g \in Gen, ConnectKeeper(g) PROVE LaunchInv'
  BY <1>4 DEF ConnectKeeper, TakeSlot, Cut
<1>5. ASSUME NEW g \in Gen, BuryFinished(g) PROVE LaunchInv'
  BY <1>5 DEF BuryFinished, Shelve, Retired, SendQuit, OwnsSlot
<1>6. ASSUME NEW g \in Gen, AdoptLive(g) PROVE LaunchInv'
  <2>1. work' = work /\ work[g] = {}
    BY <1>6 DEF AdoptLive
  <2>2. \A h \in Gen : pc'[h] = "serving" => h = g
    BY <1>6 DEF AdoptLive
  <2>3. \A h \in Gen : work[h] # {} => pc'[h] \in {"serving", "ending"}
    BY <1>6, <2>1 DEF AdoptLive
  <2>4. QED
    BY <2>1, <2>2, <2>3
<1>7. ASSUME NEW g \in Gen, AdoptFails(g) PROVE LaunchInv'
  BY <1>7 DEF AdoptFails, DropConnection, OwnsSlot
<1>8. ASSUME NEW g \in Gen, DismissOrphan(g) PROVE LaunchInv'
  BY <1>8 DEF DismissOrphan, Cut
<1>9. ASSUME NEW g \in Gen, PrepareHandover(g) PROVE LaunchInv'
  BY <1>9 DEF PrepareHandover
<1>10. ASSUME NEW g \in Gen, AnswerHandover(g) PROVE LaunchInv'
  BY <1>10 DEF AnswerHandover
<1>11. ASSUME NEW g \in Gen, LeaveAcceptLoop(g) PROVE LaunchInv'
  BY <1>11 DEF LeaveAcceptLoop, Latched
<1>12. ASSUME NEW g \in Gen, ProcessEnds(g) PROVE LaunchInv'
  BY <1>12 DEF ProcessEnds, Vanish, DropConnection, OwnsSlot
<1>13. ASSUME NEW g \in Gen, Crash(g) PROVE LaunchInv'
  BY <1>13 DEF Crash, Vanish, DropConnection, OwnsSlot
<1>14. ASSUME NEW g \in Gen, CatchSignal(g) PROVE LaunchInv'
  BY <1>14 DEF CatchSignal
<1>15. ASSUME NEW g \in Gen, LaunchRecords(g) PROVE LaunchInv'
  BY <1>15 DEF LaunchRecords
<1>16. ASSUME NEW g \in Gen, LaunchSpawns(g) PROVE LaunchInv'
  <2>1. \A h \in Gen : pc'[h] = "serving" => h = g
    BY <1>16 DEF LaunchSpawns
  <2>2. work'[g] = {"spawned"} /\ keeper' # "none"
    BY <1>16 DEF LaunchSpawns
  <2>3. /\ kind' # "unlaunched" /\ record' = Live /\ ~claimed'
        /\ \A h \in Gen : holds'[h] = "nothing" /\ ~discarded'[h]
    <3> HIDE DEF Live
    <3>1. "recorded" \in work[g] /\ pc[g] = "serving"
      BY <1>16 DEF LaunchSpawns
    <3>2. /\ kind # "unlaunched" /\ record = Live /\ ~claimed
          /\ \A h \in Gen : holds[h] = "nothing" /\ ~discarded[h]
      BY <3>1
    <3>3. UNCHANGED <<kind, record, claimed, holds, discarded>>
      BY <1>16 DEF LaunchSpawns
    <3>4. QED
      BY <3>2, <3>3
  <2>4. \A h \in Gen : work'[h] # {} => pc'[h] \in {"serving", "ending"}
    BY <1>16 DEF LaunchSpawns
  <2>5. QED
    BY <2>1, <2>2, <2>3, <2>4
<1>17. ASSUME NEW g \in Gen, LaunchFinishes(g) PROVE LaunchInv'
  BY <1>17 DEF LaunchFinishes, TakeSlot, Cut, Persist, GateOpen
<1>18. ASSUME NEW g \in Gen, LaunchFails(g) PROVE LaunchInv'
  BY <1>18 DEF LaunchFails
<1>19. ASSUME NEW g \in Gen, DeleteStops(g) PROVE LaunchInv'
  BY <1>19 DEF DeleteStops
<1>20. ASSUME NEW g \in Gen, DeleteDiscards(g) PROVE LaunchInv'
  BY <1>20 DEF DeleteDiscards, Discard
<1>21. ASSUME NEW g \in Gen, ArchiveStops(g) PROVE LaunchInv'
  BY <1>21 DEF ArchiveStops
<1>22. ASSUME NEW g \in Gen, ArchiveRecords(g) PROVE LaunchInv'
  BY <1>22 DEF ArchiveRecords, MarkDead, Persist, GateOpen
<1>23. ASSUME NEW g \in Gen, Touch(g) PROVE LaunchInv'
  BY <1>23 DEF Touch, Persist, GateOpen
<1>24. ASSUME NEW g \in Gen, DeleteShelved(g) PROVE LaunchInv'
  BY <1>24 DEF DeleteShelved, Discard
<1>25. ASSUME NEW g \in Gen, ArchiveShelved(g) PROVE LaunchInv'
  BY <1>25 DEF ArchiveShelved, Persist, GateOpen
<1>26. ASSUME NEW g \in Gen, ReaderHears(g) PROVE LaunchInv'
  BY <1>26 DEF ReaderHears
<1>27. ASSUME NEW g \in Gen, ReaderJudges(g) PROVE LaunchInv'
  BY <1>27 DEF ReaderJudges, MarkDead, Persist, GateOpen, SendQuit,
     OwnsSlot, RecordsADeath, KeeperCrashed, Dismisses
<1>28. ASSUME NEW g \in Gen, ReaderRemoves(g) PROVE LaunchInv'
  BY <1>28 DEF ReaderRemoves, Discard, SendQuit, OwnsSlot
<1>29. CASE KeeperComesUp
  BY <1>29 DEF KeeperComesUp
<1>30. CASE KeeperFails
  BY <1>30 DEF KeeperFails
<1>31. CASE ChildDies
  BY <1>31 DEF ChildDies, NobodyLeftToTell
<1>32. CASE KeeperGivesUp
  BY <1>32 DEF KeeperGivesUp
<1>33. CASE KeeperCrash
  BY <1>33 DEF KeeperCrash, Cut
<1>34. CASE UNCHANGED vars
  BY <1>34 DEF vars
<1>35. QED
  BY <1>1, <1>2, <1>3, <1>4, <1>5, <1>6, <1>7, <1>8, <1>9, <1>10, <1>11,
     <1>12, <1>13, <1>14, <1>15, <1>16, <1>17, <1>18, <1>19, <1>20, <1>21,
     <1>22, <1>23, <1>24, <1>25, <1>26, <1>27, <1>28, <1>29, <1>30, <1>31,
     <1>32, <1>33, <1>34 DEF Next, Generation, Adopting, StandingDown,
     Asking, Finishing, Reading, Keeping

\* Connections and readers: what brings an exit or a cut, and what is heard.
LEMMA StreamStep == Environment /\ IInv /\ [Next]_vars => StreamInv'
<1> SUFFICES ASSUME Environment, IInv, [Next]_vars PROVE StreamInv'
  OBVIOUS
<1> USE NobodyIsNoGen, NoRecordIsNone, RecordFacts DEF Environment, IInv,
   TypeOK, Living, Holding, flagVars, handleVars, readerVars, keeperVars,
   LaunchInv, LockInv, BirthInv, StreamInv, Launching, Unheard
<1>1. ASSUME NEW g \in Gen, Start(g) PROVE StreamInv'
  BY <1>1 DEF Start
<1>2. ASSUME NEW g \in Gen, NothingToAdopt(g) PROVE StreamInv'
  BY <1>2 DEF NothingToAdopt
<1>3. ASSUME NEW g \in Gen, LoadInterrupted(g) PROVE StreamInv'
  BY <1>3 DEF LoadInterrupted, Shelve, Retired
<1>4. ASSUME NEW g \in Gen, ConnectKeeper(g) PROVE StreamInv'
  <2> DEFINE brings == IF child = "alive" THEN "open" ELSE "exited"
  <2>1. \A h \in Gen : pc'[h] = "ending" <=> pc[h] = "ending"
    BY <1>4 DEF ConnectKeeper
  <2>2. keeper = "up" /\ child \in {"alive", "dead"}
    BY <1>4 DEF ConnectKeeper
  <2>3. stream' = [Cut(client) EXCEPT ![g] = brings]
    BY <1>4 DEF ConnectKeeper, TakeSlot
  <2>4. Cut(client) \in [Gen -> {"none", "open", "exited", "cut"}]
    BY DEF Cut
  <2>5. \A h \in Gen : Cut(client)[h] # stream[h] => h = client /\ Cut(client)[h] = "cut"
    BY CutFacts
  <2>6. /\ stream'[g] \in {"open", "exited"}
        /\ stream'[g] = "exited" => child = "dead"
    BY <2>2, <2>3, <2>4
  <2>7. \A h \in Gen :
          h # g /\ stream'[h] # stream[h] => h = client /\ stream'[h] = "cut"
    BY <2>3, <2>4, <2>5
  <2>8. client \in Gen /\ client # g => pc[client] = "ending"
    BY <1>4 DEF ConnectKeeper
  <2>9. QED
    BY <1>4, <2>1, <2>2, <2>6, <2>7, <2>8 DEF ConnectKeeper
<1>5. ASSUME NEW g \in Gen, BuryFinished(g) PROVE StreamInv'
  BY <1>5 DEF BuryFinished, Shelve, Retired, SendQuit, OwnsSlot
<1>6. ASSUME NEW g \in Gen, AdoptLive(g) PROVE StreamInv'
  BY <1>6 DEF AdoptLive, Persist, GateOpen
<1>7. ASSUME NEW g \in Gen, AdoptFails(g) PROVE StreamInv'
  BY <1>7 DEF AdoptFails, DropConnection, OwnsSlot
<1>8. ASSUME NEW g \in Gen, DismissOrphan(g) PROVE StreamInv'
  BY <1>8 DEF DismissOrphan, Cut
<1>9. ASSUME NEW g \in Gen, PrepareHandover(g) PROVE StreamInv'
  BY <1>9 DEF PrepareHandover
<1>10. ASSUME NEW g \in Gen, AnswerHandover(g) PROVE StreamInv'
  BY <1>10 DEF AnswerHandover
<1>11. ASSUME NEW g \in Gen, LeaveAcceptLoop(g) PROVE StreamInv'
  BY <1>11 DEF LeaveAcceptLoop, Latched
<1>12. ASSUME NEW g \in Gen, ProcessEnds(g) PROVE StreamInv'
  BY <1>12 DEF ProcessEnds, Vanish, DropConnection, OwnsSlot
<1>13. ASSUME NEW g \in Gen, Crash(g) PROVE StreamInv'
  BY <1>13 DEF Crash, Vanish, DropConnection, OwnsSlot
<1>14. ASSUME NEW g \in Gen, CatchSignal(g) PROVE StreamInv'
  BY <1>14 DEF CatchSignal
<1>15. ASSUME NEW g \in Gen, LaunchRecords(g) PROVE StreamInv'
  BY <1>15 DEF LaunchRecords
<1>16. ASSUME NEW g \in Gen, LaunchSpawns(g) PROVE StreamInv'
  BY <1>16 DEF LaunchSpawns
<1>17. ASSUME NEW g \in Gen, LaunchFinishes(g) PROVE StreamInv'
  <2>1. client = Nobody /\ reader[g] = "none"
    BY <1>17 DEF LaunchFinishes
  <2>2. stream' = [stream EXCEPT ![g] = IF child = "alive" THEN "open" ELSE "exited"]
    BY <1>17, <2>1 DEF LaunchFinishes, TakeSlot, Cut
  <2>3. keeper = "up" /\ (child = "alive" \/ child = "dead")
    BY <1>17 DEF LaunchFinishes
  <2>4. QED
    BY <1>17, <2>1, <2>2, <2>3 DEF LaunchFinishes
<1>18. ASSUME NEW g \in Gen, LaunchFails(g) PROVE StreamInv'
  BY <1>18 DEF LaunchFails
<1>19. ASSUME NEW g \in Gen, DeleteStops(g) PROVE StreamInv'
  BY <1>19 DEF DeleteStops
<1>20. ASSUME NEW g \in Gen, DeleteDiscards(g) PROVE StreamInv'
  BY <1>20 DEF DeleteDiscards, Discard
<1>21. ASSUME NEW g \in Gen, ArchiveStops(g) PROVE StreamInv'
  BY <1>21 DEF ArchiveStops
<1>22. ASSUME NEW g \in Gen, ArchiveRecords(g) PROVE StreamInv'
  BY <1>22 DEF ArchiveRecords, MarkDead, Persist, GateOpen
<1>23. ASSUME NEW g \in Gen, Touch(g) PROVE StreamInv'
  BY <1>23 DEF Touch, Persist, GateOpen
<1>24. ASSUME NEW g \in Gen, DeleteShelved(g) PROVE StreamInv'
  BY <1>24 DEF DeleteShelved, Discard
<1>25. ASSUME NEW g \in Gen, ArchiveShelved(g) PROVE StreamInv'
  BY <1>25 DEF ArchiveShelved, Persist, GateOpen
<1>26. ASSUME NEW g \in Gen, ReaderHears(g) PROVE StreamInv'
  BY <1>26 DEF ReaderHears
<1>27. ASSUME NEW g \in Gen, ReaderJudges(g) PROVE StreamInv'
  BY <1>27 DEF ReaderJudges, MarkDead, Persist, GateOpen, SendQuit,
     OwnsSlot, RecordsADeath, KeeperCrashed, Dismisses
<1>28. ASSUME NEW g \in Gen, ReaderRemoves(g) PROVE StreamInv'
  BY <1>28 DEF ReaderRemoves, Discard, SendQuit, OwnsSlot
<1>29. CASE KeeperComesUp
  BY <1>29 DEF KeeperComesUp
<1>30. CASE KeeperFails
  BY <1>30 DEF KeeperFails
<1>31. CASE ChildDies
  BY <1>31 DEF ChildDies, NobodyLeftToTell
<1>32. CASE KeeperGivesUp
  BY <1>32 DEF KeeperGivesUp
<1>33. CASE KeeperCrash
  BY <1>33 DEF KeeperCrash, Cut
<1>34. CASE UNCHANGED vars
  BY <1>34 DEF vars
<1>35. QED
  BY <1>1, <1>2, <1>3, <1>4, <1>5, <1>6, <1>7, <1>8, <1>9, <1>10, <1>11,
     <1>12, <1>13, <1>14, <1>15, <1>16, <1>17, <1>18, <1>19, <1>20, <1>21,
     <1>22, <1>23, <1>24, <1>25, <1>26, <1>27, <1>28, <1>29, <1>30, <1>31,
     <1>32, <1>33, <1>34 DEF Next, Generation, Adopting, StandingDown,
     Asking, Finishing, Reading, Keeping

\* Handles: `dead` is written by a thread that knows of a death, or after a
\* request to stop.
LEMMA HandleStep == Environment /\ IInv /\ [Next]_vars => HandleInv'
<1> SUFFICES ASSUME Environment, IInv, [Next]_vars PROVE HandleInv'
  OBVIOUS
<1> USE NobodyIsNoGen, NoRecordIsNone, RecordFacts DEF Environment, IInv,
   TypeOK, Living, Holding, flagVars, handleVars, readerVars, keeperVars,
   LaunchInv, LockInv, BirthInv, StreamInv, HandleInv, RecordInv, Launching,
   Alive, Live, temporary
<1>1. ASSUME NEW g \in Gen, Start(g) PROVE HandleInv'
  BY <1>1 DEF Start
<1>2. ASSUME NEW g \in Gen, NothingToAdopt(g) PROVE HandleInv'
  BY <1>2 DEF NothingToAdopt
<1>3. ASSUME NEW g \in Gen, LoadInterrupted(g) PROVE HandleInv'
  BY <1>3 DEF LoadInterrupted, Shelve, Retired
<1>4. ASSUME NEW g \in Gen, ConnectKeeper(g) PROVE HandleInv'
  BY <1>4 DEF ConnectKeeper, TakeSlot, Cut
<1>5. ASSUME NEW g \in Gen, BuryFinished(g) PROVE HandleInv'
  <2>1. child = "dead" /\ child' = child
    BY <1>5 DEF BuryFinished
  <2>2. kind' # "unlaunched"
    BY <1>5 DEF BuryFinished
  <2>3. \A h \in Gen : holds'[h] = "live" => holds[h] = "live"
    BY <1>5 DEF BuryFinished, Shelve
  <2>4. QED
    BY <1>5, <2>1, <2>2, <2>3 DEF BuryFinished, Shelve
<1>6. ASSUME NEW g \in Gen, AdoptLive(g) PROVE HandleInv'
  BY <1>6 DEF AdoptLive, Persist, GateOpen
<1>7. ASSUME NEW g \in Gen, AdoptFails(g) PROVE HandleInv'
  BY <1>7 DEF AdoptFails, DropConnection, OwnsSlot
<1>8. ASSUME NEW g \in Gen, DismissOrphan(g) PROVE HandleInv'
  BY <1>8 DEF DismissOrphan, Cut
<1>9. ASSUME NEW g \in Gen, PrepareHandover(g) PROVE HandleInv'
  BY <1>9 DEF PrepareHandover
<1>10. ASSUME NEW g \in Gen, AnswerHandover(g) PROVE HandleInv'
  BY <1>10 DEF AnswerHandover
<1>11. ASSUME NEW g \in Gen, LeaveAcceptLoop(g) PROVE HandleInv'
  BY <1>11 DEF LeaveAcceptLoop, Latched
<1>12. ASSUME NEW g \in Gen, ProcessEnds(g) PROVE HandleInv'
  BY <1>12 DEF ProcessEnds, Vanish, DropConnection, OwnsSlot
<1>13. ASSUME NEW g \in Gen, Crash(g) PROVE HandleInv'
  BY <1>13 DEF Crash, Vanish, DropConnection, OwnsSlot
<1>14. ASSUME NEW g \in Gen, CatchSignal(g) PROVE HandleInv'
  BY <1>14 DEF CatchSignal
<1>15. ASSUME NEW g \in Gen, LaunchRecords(g) PROVE HandleInv'
  BY <1>15 DEF LaunchRecords
<1>16. ASSUME NEW g \in Gen, LaunchSpawns(g) PROVE HandleInv'
  <2>1. "recorded" \in work[g] /\ pc[g] = "serving"
    BY <1>16 DEF LaunchSpawns
  <2>2. \A h \in Gen : holds[h] = "nothing"
    BY <2>1
  <2>3. \A h \in Gen : work'[h] \cap {"deleting", "archiving"} # {} => condemned
    BY <1>16 DEF LaunchSpawns
  <2>4. QED
    BY <1>16, <2>2, <2>3 DEF LaunchSpawns
<1>17. ASSUME NEW g \in Gen, LaunchFinishes(g) PROVE HandleInv'
  BY <1>17 DEF LaunchFinishes, TakeSlot, Cut, Persist, GateOpen
<1>18. ASSUME NEW g \in Gen, LaunchFails(g) PROVE HandleInv'
  BY <1>18 DEF LaunchFails
<1>19. ASSUME NEW g \in Gen, DeleteStops(g) PROVE HandleInv'
  BY <1>19 DEF DeleteStops
<1>20. ASSUME NEW g \in Gen, DeleteDiscards(g) PROVE HandleInv'
  BY <1>20 DEF DeleteDiscards, Discard
<1>21. ASSUME NEW g \in Gen, ArchiveStops(g) PROVE HandleInv'
  BY <1>21 DEF ArchiveStops
<1>22. ASSUME NEW g \in Gen, ArchiveRecords(g) PROVE HandleInv'
  BY <1>22 DEF ArchiveRecords, MarkDead, Persist, GateOpen
<1>23. ASSUME NEW g \in Gen, Touch(g) PROVE HandleInv'
  BY <1>23 DEF Touch, Persist, GateOpen
<1>24. ASSUME NEW g \in Gen, DeleteShelved(g) PROVE HandleInv'
  BY <1>24 DEF DeleteShelved, Discard
<1>25. ASSUME NEW g \in Gen, ArchiveShelved(g) PROVE HandleInv'
  BY <1>25 DEF ArchiveShelved, Persist, GateOpen
<1>26. ASSUME NEW g \in Gen, ReaderHears(g) PROVE HandleInv'
  BY <1>26 DEF ReaderHears
<1>27. ASSUME NEW g \in Gen, ReaderJudges(g) PROVE HandleInv'
  BY <1>27 DEF ReaderJudges, MarkDead, Persist, GateOpen, SendQuit,
     OwnsSlot, RecordsADeath, KeeperCrashed, Dismisses
<1>28. ASSUME NEW g \in Gen, ReaderRemoves(g) PROVE HandleInv'
  BY <1>28 DEF ReaderRemoves, Discard, SendQuit, OwnsSlot
<1>29. CASE KeeperComesUp
  BY <1>29 DEF KeeperComesUp
<1>30. CASE KeeperFails
  BY <1>30 DEF KeeperFails
<1>31. CASE ChildDies
  BY <1>31 DEF ChildDies, NobodyLeftToTell
<1>32. CASE KeeperGivesUp
  BY <1>32 DEF KeeperGivesUp
<1>33. CASE KeeperCrash
  BY <1>33 DEF KeeperCrash, Cut
<1>34. CASE UNCHANGED vars
  BY <1>34 DEF vars
<1>35. QED
  BY <1>1, <1>2, <1>3, <1>4, <1>5, <1>6, <1>7, <1>8, <1>9, <1>10, <1>11,
     <1>12, <1>13, <1>14, <1>15, <1>16, <1>17, <1>18, <1>19, <1>20, <1>21,
     <1>22, <1>23, <1>24, <1>25, <1>26, <1>27, <1>28, <1>29, <1>30, <1>31,
     <1>32, <1>33, <1>34 DEF Next, Generation, Adopting, StandingDown,
     Asking, Finishing, Reading, Keeping

\* The record: every writer of it agrees with the session's being alive.
LEMMA RecordStep == Environment /\ IInv /\ [Next]_vars => RecordInv'
<1> SUFFICES ASSUME Environment, IInv, [Next]_vars PROVE RecordInv'
  OBVIOUS
<1> USE NobodyIsNoGen, NoRecordIsNone, RecordFacts DEF Environment, IInv,
   TypeOK, Living, Holding, flagVars, handleVars, readerVars, keeperVars,
   LaunchInv, LockInv, BirthInv, StreamInv, HandleInv, RecordInv, Launching,
   Alive, Live, temporary
<1>1. ASSUME NEW g \in Gen, Start(g) PROVE RecordInv'
  BY <1>1 DEF Start
<1>2. ASSUME NEW g \in Gen, NothingToAdopt(g) PROVE RecordInv'
  BY <1>2 DEF NothingToAdopt
<1>3. ASSUME NEW g \in Gen, LoadInterrupted(g) PROVE RecordInv'
  BY <1>3 DEF LoadInterrupted, Shelve, Retired
<1>4. ASSUME NEW g \in Gen, ConnectKeeper(g) PROVE RecordInv'
  BY <1>4 DEF ConnectKeeper, TakeSlot, Cut
<1>5. ASSUME NEW g \in Gen, BuryFinished(g) PROVE RecordInv'
  BY <1>5 DEF BuryFinished
<1>6. ASSUME NEW g \in Gen, AdoptLive(g) PROVE RecordInv'
  <2> DEFINE revived == [record EXCEPT !.dead = FALSE]
  <2>1. ~revived.dead
    BY <1>6 DEF AdoptLive
  <2>2. record' \in {record, revived} /\ record # NoRecord
    BY <1>6 DEF AdoptLive, Persist
  <2>3. UNCHANGED <<keeperVars, kind, condemned>>
    BY <1>6 DEF AdoptLive
  <2>4. record \in Records
    BY <1>6 DEF AdoptLive
  <2>5. revived \in Records
    BY <2>4, RecordFacts
  <2> HIDE DEF revived
  <2>6. Alive /\ ~temporary => record' # NoRecord /\ ~record'.dead
    BY <2>1, <2>2, <2>5
  <2>7. QED
    BY <2>3, <2>6
<1>7. ASSUME NEW g \in Gen, AdoptFails(g) PROVE RecordInv'
  BY <1>7 DEF AdoptFails, DropConnection, OwnsSlot
<1>8. ASSUME NEW g \in Gen, DismissOrphan(g) PROVE RecordInv'
  BY <1>8 DEF DismissOrphan, Cut
<1>9. ASSUME NEW g \in Gen, PrepareHandover(g) PROVE RecordInv'
  BY <1>9 DEF PrepareHandover
<1>10. ASSUME NEW g \in Gen, AnswerHandover(g) PROVE RecordInv'
  BY <1>10 DEF AnswerHandover
<1>11. ASSUME NEW g \in Gen, LeaveAcceptLoop(g) PROVE RecordInv'
  BY <1>11 DEF LeaveAcceptLoop, Latched
<1>12. ASSUME NEW g \in Gen, ProcessEnds(g) PROVE RecordInv'
  BY <1>12 DEF ProcessEnds, Vanish, DropConnection, OwnsSlot
<1>13. ASSUME NEW g \in Gen, Crash(g) PROVE RecordInv'
  BY <1>13 DEF Crash, Vanish, DropConnection, OwnsSlot
<1>14. ASSUME NEW g \in Gen, CatchSignal(g) PROVE RecordInv'
  BY <1>14 DEF CatchSignal
<1>15. ASSUME NEW g \in Gen, LaunchRecords(g) PROVE RecordInv'
  BY <1>15 DEF LaunchRecords
<1>16. ASSUME NEW g \in Gen, LaunchSpawns(g) PROVE RecordInv'
  BY <1>16 DEF LaunchSpawns
<1>17. ASSUME NEW g \in Gen, LaunchFinishes(g) PROVE RecordInv'
  <2>1. ~discarded[g]
    BY <1>17 DEF LaunchFinishes
  <2>2. record' = Live
    BY <1>17, <2>1 DEF LaunchFinishes, Persist, GateOpen
  <2>3. record' # NoRecord /\ ~record'.dead
    <3> HIDE DEF Live, IInv
    <3>1. QED
      BY <2>2, RecordFacts, NoRecordIsNone
  <2>4. QED
    BY <2>3
<1>18. ASSUME NEW g \in Gen, LaunchFails(g) PROVE RecordInv'
  BY <1>18 DEF LaunchFails
<1>19. ASSUME NEW g \in Gen, DeleteStops(g) PROVE RecordInv'
  BY <1>19 DEF DeleteStops
<1>20. ASSUME NEW g \in Gen, DeleteDiscards(g) PROVE RecordInv'
  BY <1>20 DEF DeleteDiscards, Discard
<1>21. ASSUME NEW g \in Gen, ArchiveStops(g) PROVE RecordInv'
  BY <1>21 DEF ArchiveStops
<1>22. ASSUME NEW g \in Gen, ArchiveRecords(g) PROVE RecordInv'
  BY <1>22 DEF ArchiveRecords, MarkDead, Persist, GateOpen
<1>23. ASSUME NEW g \in Gen, Touch(g) PROVE RecordInv'
  BY <1>23 DEF Touch, Persist, GateOpen
<1>24. ASSUME NEW g \in Gen, DeleteShelved(g) PROVE RecordInv'
  BY <1>24 DEF DeleteShelved, Discard
<1>25. ASSUME NEW g \in Gen, ArchiveShelved(g) PROVE RecordInv'
  BY <1>25 DEF ArchiveShelved, Persist, GateOpen
<1>26. ASSUME NEW g \in Gen, ReaderHears(g) PROVE RecordInv'
  BY <1>26 DEF ReaderHears
<1>27. ASSUME NEW g \in Gen, ReaderJudges(g) PROVE RecordInv'
  BY <1>27 DEF ReaderJudges, MarkDead, Persist, GateOpen, SendQuit,
     OwnsSlot, RecordsADeath, KeeperCrashed, Dismisses
<1>28. ASSUME NEW g \in Gen, ReaderRemoves(g) PROVE RecordInv'
  BY <1>28 DEF ReaderRemoves, Discard, SendQuit, OwnsSlot
<1>29. CASE KeeperComesUp
  BY <1>29 DEF KeeperComesUp
<1>30. CASE KeeperFails
  BY <1>30 DEF KeeperFails
<1>31. CASE ChildDies
  BY <1>31 DEF ChildDies, NobodyLeftToTell
<1>32. CASE KeeperGivesUp
  BY <1>32 DEF KeeperGivesUp
<1>33. CASE KeeperCrash
  BY <1>33 DEF KeeperCrash, Cut
<1>34. CASE UNCHANGED vars
  BY <1>34 DEF vars
<1>35. QED
  BY <1>1, <1>2, <1>3, <1>4, <1>5, <1>6, <1>7, <1>8, <1>9, <1>10, <1>11,
     <1>12, <1>13, <1>14, <1>15, <1>16, <1>17, <1>18, <1>19, <1>20, <1>21,
     <1>22, <1>23, <1>24, <1>25, <1>26, <1>27, <1>28, <1>29, <1>30, <1>31,
     <1>32, <1>33, <1>34 DEF Next, Generation, Adopting, StandingDown,
     Asking, Finishing, Reading, Keeping

\* Every step keeps the invariant.
LEMMA NextInv == Environment /\ IInv /\ [Next]_vars => IInv'
  BY TypeStep, LockStep, BirthStep, LaunchStep, StreamStep, HandleStep,
     RecordStep
  DEF IInv

\* What every thread may rely on, in every state of every number of daemons.
THEOREM Invariance == Environment => (Spec => []IInv)
<1> SUFFICES ASSUME Environment PROVE Spec => []IInv
  OBVIOUS
<1>1. Init => IInv
  BY InitInv
<1>2. IInv /\ [Next]_vars => IInv'
  BY NextInv
<1>3. QED
  BY <1>1, <1>2, PTL DEF Spec

\* Every variable keeps its type, and the keeper's slot holds a daemon that
\* lives or nobody.
THEOREM TypeCorrect == Environment => (Spec => []TypeOK)
<1>1. IInv => TypeOK
  BY DEF IInv
<1>2. QED
  BY <1>1, Invariance, PTL

\* A running session is on record and not as dead, whatever the readers of the
\* daemons before this one still write.
THEOREM NeverBuried == Environment => (Spec => []NeverBuriedAlive)
<1>1. IInv => NeverBuriedAlive
  BY DEF IInv, RecordInv, NeverBuriedAlive, Running, Alive
<1>2. QED
  BY <1>1, Invariance, PTL

\* A daemon that has greeted a keeper whose child is alive has its slot, and
\* one that serves has the session.
ServeInv ==
    /\ \A g \in Gen :
          pc[g] = "greeted" /\ Running => client = g /\ stream[g] = "open"
    /\ ServedByTheDaemon

\* Every step of a daemon and of the keeper keeps that.
LEMMA ServeStep == Environment /\ IInv /\ ServeInv /\ [Next]_vars => ServeInv'
<1> SUFFICES ASSUME Environment, IInv, ServeInv, [Next]_vars PROVE ServeInv'
  OBVIOUS
<1> USE NobodyIsNoGen DEF Environment, IInv, TypeOK, Living, Holding, flagVars,
   handleVars, readerVars, keeperVars, LaunchInv, LockInv, BirthInv, StreamInv,
   RecordInv, Launching, Alive, temporary, Running, ServedByTheDaemon, ServeInv
<1>1. ASSUME NEW g \in Gen, Start(g) PROVE ServeInv'
  BY <1>1 DEF Start
<1>2. ASSUME NEW g \in Gen, NothingToAdopt(g) PROVE ServeInv'
  BY <1>2 DEF NothingToAdopt
<1>3. ASSUME NEW g \in Gen, LoadInterrupted(g) PROVE ServeInv'
  BY <1>3 DEF LoadInterrupted, Shelve
<1>4. ASSUME NEW g \in Gen, ConnectKeeper(g) PROVE ServeInv'
  BY <1>4 DEF ConnectKeeper, TakeSlot, Cut
<1>5. ASSUME NEW g \in Gen, BuryFinished(g) PROVE ServeInv'
  BY <1>5 DEF BuryFinished, Shelve, SendQuit, OwnsSlot
<1>6. ASSUME NEW g \in Gen, AdoptLive(g) PROVE ServeInv'
  BY <1>6 DEF AdoptLive, Persist
<1>7. ASSUME NEW g \in Gen, AdoptFails(g) PROVE ServeInv'
  BY <1>7 DEF AdoptFails, DropConnection, OwnsSlot
<1>8. ASSUME NEW g \in Gen, DismissOrphan(g) PROVE ServeInv'
  BY <1>8 DEF DismissOrphan, Cut
<1>9. ASSUME NEW g \in Gen, PrepareHandover(g) PROVE ServeInv'
  BY <1>9 DEF PrepareHandover
<1>10. ASSUME NEW g \in Gen, AnswerHandover(g) PROVE ServeInv'
  BY <1>10 DEF AnswerHandover
<1>11. ASSUME NEW g \in Gen, LeaveAcceptLoop(g) PROVE ServeInv'
  BY <1>11 DEF LeaveAcceptLoop, Latched
<1>12. ASSUME NEW g \in Gen, ProcessEnds(g) PROVE ServeInv'
  BY <1>12 DEF ProcessEnds, Vanish, DropConnection, OwnsSlot
<1>13. ASSUME NEW g \in Gen, Crash(g) PROVE ServeInv'
  BY <1>13 DEF Crash, Vanish, DropConnection, OwnsSlot
<1>14. ASSUME NEW g \in Gen, CatchSignal(g) PROVE ServeInv'
  BY <1>14 DEF CatchSignal
<1>15. ASSUME NEW g \in Gen, LaunchRecords(g) PROVE ServeInv'
  BY <1>15 DEF LaunchRecords
<1>16. ASSUME NEW g \in Gen, LaunchSpawns(g) PROVE ServeInv'
  BY <1>16 DEF LaunchSpawns
<1>17. ASSUME NEW g \in Gen, LaunchFinishes(g) PROVE ServeInv'
  BY <1>17 DEF LaunchFinishes, TakeSlot, Cut, Persist
<1>18. ASSUME NEW g \in Gen, LaunchFails(g) PROVE ServeInv'
  BY <1>18 DEF LaunchFails
<1>19. ASSUME NEW g \in Gen, DeleteStops(g) PROVE ServeInv'
  BY <1>19 DEF DeleteStops
<1>20. ASSUME NEW g \in Gen, DeleteDiscards(g) PROVE ServeInv'
  BY <1>20 DEF DeleteDiscards, Discard
<1>21. ASSUME NEW g \in Gen, ArchiveStops(g) PROVE ServeInv'
  BY <1>21 DEF ArchiveStops
<1>22. ASSUME NEW g \in Gen, ArchiveRecords(g) PROVE ServeInv'
  BY <1>22 DEF ArchiveRecords, MarkDead, Persist
<1>23. ASSUME NEW g \in Gen, Touch(g) PROVE ServeInv'
  BY <1>23 DEF Touch, Persist
<1>24. ASSUME NEW g \in Gen, DeleteShelved(g) PROVE ServeInv'
  BY <1>24 DEF DeleteShelved, Discard
<1>25. ASSUME NEW g \in Gen, ArchiveShelved(g) PROVE ServeInv'
  BY <1>25 DEF ArchiveShelved, Persist
<1>26. ASSUME NEW g \in Gen, ReaderHears(g) PROVE ServeInv'
  BY <1>26 DEF ReaderHears
<1>27. ASSUME NEW g \in Gen, ReaderJudges(g) PROVE ServeInv'
  BY <1>27 DEF ReaderJudges, MarkDead, Persist, SendQuit, OwnsSlot
<1>28. ASSUME NEW g \in Gen, ReaderRemoves(g) PROVE ServeInv'
  BY <1>28 DEF ReaderRemoves, Discard, SendQuit, OwnsSlot
<1>29. CASE KeeperComesUp
  BY <1>29 DEF KeeperComesUp
<1>30. CASE KeeperFails
  BY <1>30 DEF KeeperFails
<1>31. CASE ChildDies
  BY <1>31 DEF ChildDies, NobodyLeftToTell
<1>32. CASE KeeperGivesUp
  BY <1>32 DEF KeeperGivesUp
<1>33. CASE KeeperCrash
  BY <1>33 DEF KeeperCrash, Cut
<1>34. CASE UNCHANGED vars
  BY <1>34 DEF vars
<1>35. QED
  BY <1>1, <1>2, <1>3, <1>4, <1>5, <1>6, <1>7, <1>8, <1>9, <1>10, <1>11, <1>12, <1>13,
     <1>14, <1>15, <1>16,
     <1>17, <1>18, <1>19, <1>20, <1>21, <1>22, <1>23, <1>24, <1>25, <1>26, <1>27, <1>28,
     <1>29, <1>30, <1>31, <1>32, <1>33, <1>34
  DEF Next, Generation, Adopting, StandingDown, Asking, Finishing, Reading,
      Keeping

\* The daemon that serves has every running session, on a connection nothing
\* has cut, with a reader that will hear it end.
THEOREM ServedAlways == Environment => (Spec => []ServedByTheDaemon)
<1> SUFFICES ASSUME Environment PROVE Spec => []ServedByTheDaemon
  OBVIOUS
<1>1. Init => ServeInv
  BY DEF Init, ServeInv, ServedByTheDaemon
<1>2. IInv /\ ServeInv /\ [Next]_vars => ServeInv'
  BY ServeStep
<1>3. ServeInv => ServedByTheDaemon
  BY DEF ServeInv
<1>4. Spec => []IInv
  BY Invariance
<1>5. QED
  BY <1>1, <1>2, <1>3, <1>4, PTL DEF Spec

\* The session's maps, threads and requests, in a daemon that has none.
Empty(g) == holds[g] = "nothing" /\ reader[g] = "none" /\ work[g] = {}

\* Daemons start in turn: while one holds the lock or is still to come, so are
\* all that come after it; and one that has not come to serve has nothing.
TurnInv ==
    \A g \in Gen :
        /\ pc[g] \in Holding \cup {"unborn"} =>
               \A h \in Gen : g < h => pc[h] = "unborn"
        /\ pc[g] \notin {"serving", "ending"} => Empty(g)
        /\ pc[g] \notin {"serving", "ending", "gone"} => ~discarded[g]

\* Nobody has anything of a session before its launch is over, but the launch
\* itself.
FirstInv ==
    /\ kind = "unlaunched" =>
          record = NoRecord /\ \A g \in Gen : Empty(g) /\ ~discarded[g]
    /\ \A g \in Gen : pc[g] = "serving" /\ work[g] \cap Launching # {} =>
          /\ work[g] \subseteq Launching /\ kind # "unlaunched"
          /\ \A h \in Gen : /\ holds[h] = "nothing" /\ reader[h] = "none"
                            /\ ~discarded[h] /\ (h # g => work[h] = {})

\* Of a session that was deleted and is not on record, no daemon younger than
\* one that deleted it has anything.
GoneInv ==
    record = NoRecord /\ ~temporary /\ (\E g \in Gen : discarded[g]) =>
        \E g \in Gen : discarded[g] /\ \A h \in Gen : g < h => Empty(h)

\* The types this needs, whatever the world is like.
HandleTypes ==
    /\ pc \in [Gen -> Holding \cup {"unborn", "ending", "gone"}]
    /\ discarded \in [Gen -> BOOLEAN]
    /\ holds \in [Gen -> {"nothing", "live", "shelved"}]
    /\ reader \in [Gen -> {"none", "reading", "judging", "done"}]
    /\ work \in [Gen -> SUBSET (Launching \cup {"deleting", "archiving"})]

\* The record and what daemons remember of it.
PaperTypes == record \in Records \cup {NoRecord} /\ copy \in [Gen -> Records]

EraseInv == HandleTypes /\ PaperTypes /\ TurnInv /\ FirstInv /\ GoneInv

\* Generations are numbered from one, and one before another is a number too.
LEMMA GenFacts ==
    /\ Gen \subseteq Int
    /\ \A g \in Gen : g > 1 => g - 1 \in Gen
    /\ \A g, h \in Gen : g < h => h > 1 /\ (g = h - 1 \/ g < h - 1)
  BY MaxGenAssumption DEF Gen

\* A session that may be brought back stays on record when it is shelved.
LEMMA Shelving ==
    ASSUME NEW g \in Gen, NEW metadata \in Records, Shelve(g, metadata), ~temporary
    PROVE  record' # NoRecord
<1>1. record' = Retired(metadata)
  BY DEF Shelve
<1>2. QED
  BY <1>1, RetiredFacts, NoRecordIsNone

\* Records and copies of them stay records.
LEMMA PaperStep == PaperTypes /\ [Next]_vars => PaperTypes'
<1> SUFFICES ASSUME PaperTypes, [Next]_vars PROVE PaperTypes'
  OBVIOUS
<1> USE DEF PaperTypes, flagVars, handleVars, readerVars, keeperVars
<1>1. ASSUME NEW g \in Gen, Start(g) PROVE PaperTypes'
  BY <1>1 DEF Start
<1>2. ASSUME NEW g \in Gen, NothingToAdopt(g) PROVE PaperTypes'
  BY <1>2 DEF NothingToAdopt
<1>3. ASSUME NEW g \in Gen, LoadInterrupted(g) PROVE PaperTypes'
  <2>1. record \in Records
    BY <1>3, RecordFacts DEF LoadInterrupted, PaperTypes
  <2>2. Retired(record) \in Records /\ [Retired(record) EXCEPT !.dead = TRUE] \in Records
    BY <2>1, RetiredFacts
  <2>3. /\ record' \in {NoRecord, Retired(record)}
        /\ copy' \in {copy, [copy EXCEPT ![g] = [Retired(record) EXCEPT !.dead = TRUE]]}
    BY <1>3 DEF LoadInterrupted, Shelve, handleVars
  <2>4. QED
    BY <2>2, <2>3, CopyFacts DEF PaperTypes
<1>4. ASSUME NEW g \in Gen, ConnectKeeper(g) PROVE PaperTypes'
  BY <1>4 DEF ConnectKeeper, TakeSlot
<1>5. ASSUME NEW g \in Gen, BuryFinished(g) PROVE PaperTypes'
  <2>1. [record EXCEPT !.dead = TRUE] \in Records
    BY <1>5, RecordFacts DEF BuryFinished, PaperTypes
  <2>2. /\ Retired([record EXCEPT !.dead = TRUE]) \in Records
        /\ [Retired([record EXCEPT !.dead = TRUE]) EXCEPT !.dead = TRUE] \in Records
    BY <2>1, RetiredFacts
  <2>3. /\ record' \in {NoRecord, Retired([record EXCEPT !.dead = TRUE])}
        /\ copy' \in
              {copy, [copy EXCEPT ![g] =
                          [Retired([record EXCEPT !.dead = TRUE]) EXCEPT !.dead = TRUE]]}
    BY <1>5 DEF BuryFinished, Shelve, handleVars
  <2>4. QED
    BY <2>2, <2>3, CopyFacts DEF PaperTypes
<1>6. ASSUME NEW g \in Gen, AdoptLive(g) PROVE PaperTypes'
  <2>1. [record EXCEPT !.dead = FALSE] \in Records
    BY <1>6, RecordFacts DEF AdoptLive, PaperTypes
  <2>2. /\ record' \in {record, [record EXCEPT !.dead = FALSE]}
        /\ copy' \in {copy, [copy EXCEPT ![g] = [record EXCEPT !.dead = FALSE]]}
    BY <1>6 DEF AdoptLive, Persist
  <2>3. QED
    BY <2>1, <2>2, CopyFacts DEF PaperTypes
<1>7. ASSUME NEW g \in Gen, AdoptFails(g) PROVE PaperTypes'
  BY <1>7 DEF AdoptFails
<1>8. ASSUME NEW g \in Gen, DismissOrphan(g) PROVE PaperTypes'
  BY <1>8 DEF DismissOrphan
<1>9. ASSUME NEW g \in Gen, PrepareHandover(g) PROVE PaperTypes'
  BY <1>9 DEF PrepareHandover
<1>10. ASSUME NEW g \in Gen, AnswerHandover(g) PROVE PaperTypes'
  BY <1>10 DEF AnswerHandover
<1>11. ASSUME NEW g \in Gen, LeaveAcceptLoop(g) PROVE PaperTypes'
  BY <1>11 DEF LeaveAcceptLoop
<1>12. ASSUME NEW g \in Gen, ProcessEnds(g) PROVE PaperTypes'
  BY <1>12, RecordFacts, CopyFacts DEF ProcessEnds, Vanish, PaperTypes
<1>13. ASSUME NEW g \in Gen, Crash(g) PROVE PaperTypes'
  BY <1>13, RecordFacts, CopyFacts DEF Crash, Vanish, PaperTypes
<1>14. ASSUME NEW g \in Gen, CatchSignal(g) PROVE PaperTypes'
  BY <1>14 DEF CatchSignal
<1>15. ASSUME NEW g \in Gen, LaunchRecords(g) PROVE PaperTypes'
  BY <1>15, RecordFacts DEF LaunchRecords, PaperTypes
<1>16. ASSUME NEW g \in Gen, LaunchSpawns(g) PROVE PaperTypes'
  BY <1>16 DEF LaunchSpawns
<1>17. ASSUME NEW g \in Gen, LaunchFinishes(g) PROVE PaperTypes'
  <2>1. Live \in Records
    BY <1>17, RecordFacts DEF LaunchFinishes, PaperTypes
  <2>2. /\ record' \in {record, Live}
        /\ copy' \in {copy, [copy EXCEPT ![g] = Live]}
    BY <1>17 DEF LaunchFinishes, Persist
  <2>3. QED
    BY <2>1, <2>2, CopyFacts DEF PaperTypes
<1>18. ASSUME NEW g \in Gen, LaunchFails(g) PROVE PaperTypes'
  BY <1>18 DEF LaunchFails
<1>19. ASSUME NEW g \in Gen, DeleteStops(g) PROVE PaperTypes'
  BY <1>19 DEF DeleteStops
<1>20. ASSUME NEW g \in Gen, DeleteDiscards(g) PROVE PaperTypes'
  BY <1>20 DEF DeleteDiscards, Discard
<1>21. ASSUME NEW g \in Gen, ArchiveStops(g) PROVE PaperTypes'
  <2>1. [copy[g] EXCEPT !.archived = TRUE] \in Records
    BY RecordFacts DEF PaperTypes
  <2>2. record' = record /\ copy' = [copy EXCEPT ![g] = [copy[g] EXCEPT !.archived = TRUE]]
    BY <1>21 DEF ArchiveStops
  <2>3. QED
    BY <2>1, <2>2, CopyFacts DEF PaperTypes
<1>22. ASSUME NEW g \in Gen, ArchiveRecords(g) PROVE PaperTypes'
  <2>1. [copy[g] EXCEPT !.dead = TRUE] \in Records
    BY <1>22, RecordFacts DEF ArchiveRecords, PaperTypes
  <2>2. /\ record' \in {record, [copy[g] EXCEPT !.dead = TRUE]}
        /\ copy' \in {copy, [copy EXCEPT ![g] = [copy[g] EXCEPT !.dead = TRUE]]}
    BY <1>22 DEF ArchiveRecords, MarkDead, Persist
  <2>3. QED
    BY <2>1, <2>2, CopyFacts DEF PaperTypes
<1>23. ASSUME NEW g \in Gen, Touch(g) PROVE PaperTypes'
  <2>1. copy[g] \in Records
    BY <1>23, RecordFacts DEF Touch, PaperTypes
  <2>2. /\ record' \in {record, copy[g]}
        /\ copy' \in {copy, [copy EXCEPT ![g] = copy[g]]}
    BY <1>23 DEF Touch, Persist
  <2>3. QED
    BY <2>1, <2>2, CopyFacts DEF PaperTypes
<1>24. ASSUME NEW g \in Gen, DeleteShelved(g) PROVE PaperTypes'
  BY <1>24 DEF DeleteShelved, Discard
<1>25. ASSUME NEW g \in Gen, ArchiveShelved(g) PROVE PaperTypes'
  <2>1. [dead |-> TRUE, archived |-> TRUE] \in Records
    BY <1>25, RecordFacts DEF ArchiveShelved, PaperTypes
  <2>2. /\ record' \in {record, [dead |-> TRUE, archived |-> TRUE]}
        /\ copy' \in {copy, [copy EXCEPT ![g] = [dead |-> TRUE, archived |-> TRUE]]}
    BY <1>25 DEF ArchiveShelved, Persist
  <2>3. QED
    BY <2>1, <2>2, CopyFacts DEF PaperTypes
<1>26. ASSUME NEW g \in Gen, ReaderHears(g) PROVE PaperTypes'
  BY <1>26 DEF ReaderHears
<1>27. ASSUME NEW g \in Gen, ReaderJudges(g) PROVE PaperTypes'
  <2>1. [copy[g] EXCEPT !.dead = TRUE] \in Records
    BY <1>27, RecordFacts DEF ReaderJudges, PaperTypes
  <2>2. /\ record' \in {record, [copy[g] EXCEPT !.dead = TRUE]}
        /\ copy' \in {copy, [copy EXCEPT ![g] = [copy[g] EXCEPT !.dead = TRUE]]}
    BY <1>27 DEF ReaderJudges, MarkDead, Persist
  <2>3. QED
    BY <2>1, <2>2, CopyFacts DEF PaperTypes
<1>28. ASSUME NEW g \in Gen, ReaderRemoves(g) PROVE PaperTypes'
  BY <1>28 DEF ReaderRemoves, Discard
<1>29. CASE KeeperComesUp
  BY <1>29 DEF KeeperComesUp
<1>30. CASE KeeperFails
  BY <1>30 DEF KeeperFails
<1>31. CASE ChildDies
  BY <1>31 DEF ChildDies
<1>32. CASE KeeperGivesUp
  BY <1>32 DEF KeeperGivesUp
<1>33. CASE KeeperCrash
  BY <1>33 DEF KeeperCrash
<1>34. CASE UNCHANGED vars
  BY <1>34 DEF vars
<1>35. QED
  BY <1>1, <1>2, <1>3, <1>4, <1>5, <1>6, <1>7, <1>8, <1>9, <1>10, <1>11,
     <1>12, <1>13, <1>14, <1>15, <1>16, <1>17, <1>18, <1>19, <1>20, <1>21,
     <1>22, <1>23, <1>24, <1>25, <1>26, <1>27, <1>28, <1>29, <1>30, <1>31,
     <1>32, <1>33, <1>34
  DEF Next, Generation, Adopting, StandingDown, Asking, Finishing, Reading,
      Keeping

\* So do the rest.
LEMMA HandleTypesStep == EraseInv /\ [Next]_vars => HandleTypes'
<1> SUFFICES ASSUME EraseInv, [Next]_vars PROVE HandleTypes'
  OBVIOUS
<1> USE GenFacts DEF EraseInv, HandleTypes, TurnInv, FirstInv, GoneInv, Empty,
   Holding, Launching, flagVars, handleVars, readerVars, keeperVars, temporary
<1>1. ASSUME NEW g \in Gen, Start(g) PROVE HandleTypes'
  BY <1>1 DEF Start
<1>2. ASSUME NEW g \in Gen, NothingToAdopt(g) PROVE HandleTypes'
  BY <1>2 DEF NothingToAdopt
<1>3. ASSUME NEW g \in Gen, LoadInterrupted(g) PROVE HandleTypes'
  BY <1>3 DEF LoadInterrupted, Shelve
<1>4. ASSUME NEW g \in Gen, ConnectKeeper(g) PROVE HandleTypes'
  BY <1>4 DEF ConnectKeeper, TakeSlot
<1>5. ASSUME NEW g \in Gen, BuryFinished(g) PROVE HandleTypes'
  BY <1>5 DEF BuryFinished, Shelve, SendQuit
<1>6. ASSUME NEW g \in Gen, AdoptLive(g) PROVE HandleTypes'
  BY <1>6 DEF AdoptLive, Persist
<1>7. ASSUME NEW g \in Gen, AdoptFails(g) PROVE HandleTypes'
  BY <1>7 DEF AdoptFails
<1>8. ASSUME NEW g \in Gen, DismissOrphan(g) PROVE HandleTypes'
  BY <1>8 DEF DismissOrphan
<1>9. ASSUME NEW g \in Gen, PrepareHandover(g) PROVE HandleTypes'
  BY <1>9 DEF PrepareHandover
<1>10. ASSUME NEW g \in Gen, AnswerHandover(g) PROVE HandleTypes'
  BY <1>10 DEF AnswerHandover
<1>11. ASSUME NEW g \in Gen, LeaveAcceptLoop(g) PROVE HandleTypes'
  BY <1>11 DEF LeaveAcceptLoop
<1>12. ASSUME NEW g \in Gen, ProcessEnds(g) PROVE HandleTypes'
  BY <1>12 DEF ProcessEnds, Vanish
<1>13. ASSUME NEW g \in Gen, Crash(g) PROVE HandleTypes'
  BY <1>13 DEF Crash, Vanish
<1>14. ASSUME NEW g \in Gen, CatchSignal(g) PROVE HandleTypes'
  BY <1>14 DEF CatchSignal
<1>15. ASSUME NEW g \in Gen, LaunchRecords(g) PROVE HandleTypes'
  BY <1>15 DEF LaunchRecords
<1>16. ASSUME NEW g \in Gen, LaunchSpawns(g) PROVE HandleTypes'
  BY <1>16 DEF LaunchSpawns
<1>17. ASSUME NEW g \in Gen, LaunchFinishes(g) PROVE HandleTypes'
  BY <1>17 DEF LaunchFinishes, Persist
<1>18. ASSUME NEW g \in Gen, LaunchFails(g) PROVE HandleTypes'
  BY <1>18 DEF LaunchFails
<1>19. ASSUME NEW g \in Gen, DeleteStops(g) PROVE HandleTypes'
  BY <1>19 DEF DeleteStops
<1>20. ASSUME NEW g \in Gen, DeleteDiscards(g) PROVE HandleTypes'
  BY <1>20 DEF DeleteDiscards, Discard
<1>21. ASSUME NEW g \in Gen, ArchiveStops(g) PROVE HandleTypes'
  BY <1>21 DEF ArchiveStops
<1>22. ASSUME NEW g \in Gen, ArchiveRecords(g) PROVE HandleTypes'
  BY <1>22 DEF ArchiveRecords, MarkDead, Persist
<1>23. ASSUME NEW g \in Gen, Touch(g) PROVE HandleTypes'
  BY <1>23 DEF Touch, Persist
<1>24. ASSUME NEW g \in Gen, DeleteShelved(g) PROVE HandleTypes'
  BY <1>24 DEF DeleteShelved, Discard
<1>25. ASSUME NEW g \in Gen, ArchiveShelved(g) PROVE HandleTypes'
  BY <1>25 DEF ArchiveShelved, Persist
<1>26. ASSUME NEW g \in Gen, ReaderHears(g) PROVE HandleTypes'
  BY <1>26 DEF ReaderHears
<1>27. ASSUME NEW g \in Gen, ReaderJudges(g) PROVE HandleTypes'
  BY <1>27 DEF ReaderJudges, MarkDead, Persist
<1>28. ASSUME NEW g \in Gen, ReaderRemoves(g) PROVE HandleTypes'
  BY <1>28 DEF ReaderRemoves, Discard
<1>29. CASE KeeperComesUp
  BY <1>29 DEF KeeperComesUp
<1>30. CASE KeeperFails
  BY <1>30 DEF KeeperFails
<1>31. CASE ChildDies
  BY <1>31 DEF ChildDies
<1>32. CASE KeeperGivesUp
  BY <1>32 DEF KeeperGivesUp
<1>33. CASE KeeperCrash
  BY <1>33 DEF KeeperCrash
<1>34. CASE UNCHANGED vars
  BY <1>34 DEF vars
<1>35. QED
  BY <1>1, <1>2, <1>3, <1>4, <1>5, <1>6, <1>7, <1>8, <1>9, <1>10, <1>11,
     <1>12, <1>13, <1>14, <1>15, <1>16, <1>17, <1>18, <1>19, <1>20, <1>21,
     <1>22, <1>23, <1>24, <1>25, <1>26, <1>27, <1>28, <1>29, <1>30, <1>31,
     <1>32, <1>33, <1>34
  DEF Next, Generation, Adopting, StandingDown, Asking, Finishing, Reading,
      Keeping

\* A daemon starts when all before it have let go of the lock.
LEMMA TurnStep == EraseInv /\ [Next]_vars => TurnInv'
<1> SUFFICES ASSUME EraseInv, [Next]_vars PROVE TurnInv'
  OBVIOUS
<1> USE GenFacts DEF EraseInv, HandleTypes, TurnInv, FirstInv, GoneInv, Empty,
   Holding, Launching, flagVars, handleVars, readerVars, keeperVars, temporary
<1>1. ASSUME NEW g \in Gen, Start(g) PROVE TurnInv'
  BY <1>1 DEF Start
<1>2. ASSUME NEW g \in Gen, NothingToAdopt(g) PROVE TurnInv'
  BY <1>2 DEF NothingToAdopt
<1>3. ASSUME NEW g \in Gen, LoadInterrupted(g) PROVE TurnInv'
  BY <1>3 DEF LoadInterrupted, Shelve
<1>4. ASSUME NEW g \in Gen, ConnectKeeper(g) PROVE TurnInv'
  BY <1>4 DEF ConnectKeeper, TakeSlot
<1>5. ASSUME NEW g \in Gen, BuryFinished(g) PROVE TurnInv'
  BY <1>5 DEF BuryFinished, Shelve, SendQuit
<1>6. ASSUME NEW g \in Gen, AdoptLive(g) PROVE TurnInv'
  BY <1>6 DEF AdoptLive, Persist
<1>7. ASSUME NEW g \in Gen, AdoptFails(g) PROVE TurnInv'
  BY <1>7 DEF AdoptFails
<1>8. ASSUME NEW g \in Gen, DismissOrphan(g) PROVE TurnInv'
  BY <1>8 DEF DismissOrphan
<1>9. ASSUME NEW g \in Gen, PrepareHandover(g) PROVE TurnInv'
  BY <1>9 DEF PrepareHandover
<1>10. ASSUME NEW g \in Gen, AnswerHandover(g) PROVE TurnInv'
  BY <1>10 DEF AnswerHandover
<1>11. ASSUME NEW g \in Gen, LeaveAcceptLoop(g) PROVE TurnInv'
  BY <1>11 DEF LeaveAcceptLoop
<1>12. ASSUME NEW g \in Gen, ProcessEnds(g) PROVE TurnInv'
  BY <1>12 DEF ProcessEnds, Vanish
<1>13. ASSUME NEW g \in Gen, Crash(g) PROVE TurnInv'
  BY <1>13 DEF Crash, Vanish
<1>14. ASSUME NEW g \in Gen, CatchSignal(g) PROVE TurnInv'
  BY <1>14 DEF CatchSignal
<1>15. ASSUME NEW g \in Gen, LaunchRecords(g) PROVE TurnInv'
  BY <1>15 DEF LaunchRecords
<1>16. ASSUME NEW g \in Gen, LaunchSpawns(g) PROVE TurnInv'
  BY <1>16 DEF LaunchSpawns
<1>17. ASSUME NEW g \in Gen, LaunchFinishes(g) PROVE TurnInv'
  BY <1>17 DEF LaunchFinishes, Persist
<1>18. ASSUME NEW g \in Gen, LaunchFails(g) PROVE TurnInv'
  BY <1>18 DEF LaunchFails
<1>19. ASSUME NEW g \in Gen, DeleteStops(g) PROVE TurnInv'
  BY <1>19 DEF DeleteStops
<1>20. ASSUME NEW g \in Gen, DeleteDiscards(g) PROVE TurnInv'
  BY <1>20 DEF DeleteDiscards, Discard
<1>21. ASSUME NEW g \in Gen, ArchiveStops(g) PROVE TurnInv'
  BY <1>21 DEF ArchiveStops
<1>22. ASSUME NEW g \in Gen, ArchiveRecords(g) PROVE TurnInv'
  BY <1>22 DEF ArchiveRecords, MarkDead, Persist
<1>23. ASSUME NEW g \in Gen, Touch(g) PROVE TurnInv'
  BY <1>23 DEF Touch, Persist
<1>24. ASSUME NEW g \in Gen, DeleteShelved(g) PROVE TurnInv'
  BY <1>24 DEF DeleteShelved, Discard
<1>25. ASSUME NEW g \in Gen, ArchiveShelved(g) PROVE TurnInv'
  BY <1>25 DEF ArchiveShelved, Persist
<1>26. ASSUME NEW g \in Gen, ReaderHears(g) PROVE TurnInv'
  BY <1>26 DEF ReaderHears
<1>27. ASSUME NEW g \in Gen, ReaderJudges(g) PROVE TurnInv'
  BY <1>27 DEF ReaderJudges, MarkDead, Persist
<1>28. ASSUME NEW g \in Gen, ReaderRemoves(g) PROVE TurnInv'
  BY <1>28 DEF ReaderRemoves, Discard
<1>29. CASE KeeperComesUp
  BY <1>29 DEF KeeperComesUp
<1>30. CASE KeeperFails
  BY <1>30 DEF KeeperFails
<1>31. CASE ChildDies
  BY <1>31 DEF ChildDies
<1>32. CASE KeeperGivesUp
  BY <1>32 DEF KeeperGivesUp
<1>33. CASE KeeperCrash
  BY <1>33 DEF KeeperCrash
<1>34. CASE UNCHANGED vars
  BY <1>34 DEF vars
<1>35. QED
  BY <1>1, <1>2, <1>3, <1>4, <1>5, <1>6, <1>7, <1>8, <1>9, <1>10, <1>11,
     <1>12, <1>13, <1>14, <1>15, <1>16, <1>17, <1>18, <1>19, <1>20, <1>21,
     <1>22, <1>23, <1>24, <1>25, <1>26, <1>27, <1>28, <1>29, <1>30, <1>31,
     <1>32, <1>33, <1>34
  DEF Next, Generation, Adopting, StandingDown, Asking, Finishing, Reading,
      Keeping

\* While a launch is in hand no other thread has the session.
LEMMA FirstStep == EraseInv /\ [Next]_vars => FirstInv'
<1> SUFFICES ASSUME EraseInv, [Next]_vars PROVE FirstInv'
  OBVIOUS
<1> USE GenFacts DEF EraseInv, HandleTypes, TurnInv, FirstInv, GoneInv, Empty,
   Holding, Launching, flagVars, handleVars, readerVars, keeperVars, temporary
<1>1. ASSUME NEW g \in Gen, Start(g) PROVE FirstInv'
  BY <1>1 DEF Start
<1>2. ASSUME NEW g \in Gen, NothingToAdopt(g) PROVE FirstInv'
  BY <1>2 DEF NothingToAdopt
<1>3. ASSUME NEW g \in Gen, LoadInterrupted(g) PROVE FirstInv'
  BY <1>3 DEF LoadInterrupted, Shelve
<1>4. ASSUME NEW g \in Gen, ConnectKeeper(g) PROVE FirstInv'
  BY <1>4 DEF ConnectKeeper, TakeSlot
<1>5. ASSUME NEW g \in Gen, BuryFinished(g) PROVE FirstInv'
  BY <1>5 DEF BuryFinished, Shelve, SendQuit
<1>6. ASSUME NEW g \in Gen, AdoptLive(g) PROVE FirstInv'
  BY <1>6 DEF AdoptLive, Persist
<1>7. ASSUME NEW g \in Gen, AdoptFails(g) PROVE FirstInv'
  BY <1>7 DEF AdoptFails
<1>8. ASSUME NEW g \in Gen, DismissOrphan(g) PROVE FirstInv'
  BY <1>8 DEF DismissOrphan
<1>9. ASSUME NEW g \in Gen, PrepareHandover(g) PROVE FirstInv'
  BY <1>9 DEF PrepareHandover
<1>10. ASSUME NEW g \in Gen, AnswerHandover(g) PROVE FirstInv'
  BY <1>10 DEF AnswerHandover
<1>11. ASSUME NEW g \in Gen, LeaveAcceptLoop(g) PROVE FirstInv'
  BY <1>11 DEF LeaveAcceptLoop
<1>12. ASSUME NEW g \in Gen, ProcessEnds(g) PROVE FirstInv'
  BY <1>12 DEF ProcessEnds, Vanish
<1>13. ASSUME NEW g \in Gen, Crash(g) PROVE FirstInv'
  BY <1>13 DEF Crash, Vanish
<1>14. ASSUME NEW g \in Gen, CatchSignal(g) PROVE FirstInv'
  BY <1>14 DEF CatchSignal
<1>15. ASSUME NEW g \in Gen, LaunchRecords(g) PROVE FirstInv'
  BY <1>15 DEF LaunchRecords
<1>16. ASSUME NEW g \in Gen, LaunchSpawns(g) PROVE FirstInv'
  BY <1>16 DEF LaunchSpawns
<1>17. ASSUME NEW g \in Gen, LaunchFinishes(g) PROVE FirstInv'
  BY <1>17 DEF LaunchFinishes, Persist
<1>18. ASSUME NEW g \in Gen, LaunchFails(g) PROVE FirstInv'
  BY <1>18 DEF LaunchFails
<1>19. ASSUME NEW g \in Gen, DeleteStops(g) PROVE FirstInv'
  BY <1>19 DEF DeleteStops
<1>20. ASSUME NEW g \in Gen, DeleteDiscards(g) PROVE FirstInv'
  BY <1>20 DEF DeleteDiscards, Discard
<1>21. ASSUME NEW g \in Gen, ArchiveStops(g) PROVE FirstInv'
  BY <1>21 DEF ArchiveStops
<1>22. ASSUME NEW g \in Gen, ArchiveRecords(g) PROVE FirstInv'
  BY <1>22 DEF ArchiveRecords, MarkDead, Persist
<1>23. ASSUME NEW g \in Gen, Touch(g) PROVE FirstInv'
  BY <1>23 DEF Touch, Persist
<1>24. ASSUME NEW g \in Gen, DeleteShelved(g) PROVE FirstInv'
  BY <1>24 DEF DeleteShelved, Discard
<1>25. ASSUME NEW g \in Gen, ArchiveShelved(g) PROVE FirstInv'
  BY <1>25 DEF ArchiveShelved, Persist
<1>26. ASSUME NEW g \in Gen, ReaderHears(g) PROVE FirstInv'
  BY <1>26 DEF ReaderHears
<1>27. ASSUME NEW g \in Gen, ReaderJudges(g) PROVE FirstInv'
  BY <1>27 DEF ReaderJudges, MarkDead, Persist
<1>28. ASSUME NEW g \in Gen, ReaderRemoves(g) PROVE FirstInv'
  BY <1>28 DEF ReaderRemoves, Discard
<1>29. CASE KeeperComesUp
  BY <1>29 DEF KeeperComesUp
<1>30. CASE KeeperFails
  BY <1>30 DEF KeeperFails
<1>31. CASE ChildDies
  BY <1>31 DEF ChildDies
<1>32. CASE KeeperGivesUp
  BY <1>32 DEF KeeperGivesUp
<1>33. CASE KeeperCrash
  BY <1>33 DEF KeeperCrash
<1>34. CASE UNCHANGED vars
  BY <1>34 DEF vars
<1>35. QED
  BY <1>1, <1>2, <1>3, <1>4, <1>5, <1>6, <1>7, <1>8, <1>9, <1>10, <1>11,
     <1>12, <1>13, <1>14, <1>15, <1>16, <1>17, <1>18, <1>19, <1>20, <1>21,
     <1>22, <1>23, <1>24, <1>25, <1>26, <1>27, <1>28, <1>29, <1>30, <1>31,
     <1>32, <1>33, <1>34
  DEF Next, Generation, Adopting, StandingDown, Asking, Finishing, Reading,
      Keeping

\* Who deletes a session serves, and those before it serve no more.
LEMMA GoneStep == EraseInv /\ [Next]_vars => GoneInv'
<1> SUFFICES ASSUME EraseInv, [Next]_vars PROVE GoneInv'
  OBVIOUS
<1> USE GenFacts DEF EraseInv, HandleTypes, TurnInv, FirstInv, GoneInv, Empty,
   Holding, Launching, flagVars, handleVars, readerVars, keeperVars, temporary
<1>1. ASSUME NEW g \in Gen, Start(g) PROVE GoneInv'
  BY <1>1 DEF Start
<1>2. ASSUME NEW g \in Gen, NothingToAdopt(g) PROVE GoneInv'
  BY <1>2 DEF NothingToAdopt
<1>3. ASSUME NEW g \in Gen, LoadInterrupted(g) PROVE GoneInv'
  <2> DEFINE found == record
  <2>1. found \in Records
    BY <1>3, RecordFacts DEF LoadInterrupted, PaperTypes
  <2>2. Shelve(g, found)
    BY <1>3 DEF LoadInterrupted
  <2> HIDE DEF found
  <2>3. ~temporary => record' # NoRecord
    BY <2>1, <2>2, Shelving
  <2>4. UNCHANGED kind
    BY <1>3 DEF LoadInterrupted
  <2>5. QED
    BY <2>3, <2>4
<1>4. ASSUME NEW g \in Gen, ConnectKeeper(g) PROVE GoneInv'
  BY <1>4 DEF ConnectKeeper, TakeSlot
<1>5. ASSUME NEW g \in Gen, BuryFinished(g) PROVE GoneInv'
  <2> DEFINE found == [record EXCEPT !.dead = TRUE]
  <2>1. found \in Records
    BY <1>5, RecordFacts DEF BuryFinished, PaperTypes
  <2>2. Shelve(g, found)
    BY <1>5 DEF BuryFinished
  <2> HIDE DEF found
  <2>3. ~temporary => record' # NoRecord
    BY <2>1, <2>2, Shelving
  <2>4. UNCHANGED kind
    BY <1>5 DEF BuryFinished
  <2>5. QED
    BY <2>3, <2>4
<1>6. ASSUME NEW g \in Gen, AdoptLive(g) PROVE GoneInv'
  <2> DEFINE written == [record EXCEPT !.dead = FALSE]
  <2>1. written \in Records
    BY <1>6, RecordFacts DEF AdoptLive, PaperTypes
  <2>2. record' \in {record, written}
    BY <1>6 DEF AdoptLive, Persist
  <2> HIDE DEF written
  <2>3. record' = NoRecord => record = NoRecord
    BY <2>1, <2>2, NoRecordIsNone
  <2>4. record # NoRecord
    BY <1>6 DEF AdoptLive
  <2>5. QED
    BY <2>3, <2>4
<1>7. ASSUME NEW g \in Gen, AdoptFails(g) PROVE GoneInv'
  BY <1>7 DEF AdoptFails
<1>8. ASSUME NEW g \in Gen, DismissOrphan(g) PROVE GoneInv'
  BY <1>8 DEF DismissOrphan
<1>9. ASSUME NEW g \in Gen, PrepareHandover(g) PROVE GoneInv'
  BY <1>9 DEF PrepareHandover
<1>10. ASSUME NEW g \in Gen, AnswerHandover(g) PROVE GoneInv'
  BY <1>10 DEF AnswerHandover
<1>11. ASSUME NEW g \in Gen, LeaveAcceptLoop(g) PROVE GoneInv'
  BY <1>11 DEF LeaveAcceptLoop
<1>12. ASSUME NEW g \in Gen, ProcessEnds(g) PROVE GoneInv'
  BY <1>12 DEF ProcessEnds, Vanish
<1>13. ASSUME NEW g \in Gen, Crash(g) PROVE GoneInv'
  BY <1>13 DEF Crash, Vanish
<1>14. ASSUME NEW g \in Gen, CatchSignal(g) PROVE GoneInv'
  BY <1>14 DEF CatchSignal
<1>15. ASSUME NEW g \in Gen, LaunchRecords(g) PROVE GoneInv'
  BY <1>15 DEF LaunchRecords
<1>16. ASSUME NEW g \in Gen, LaunchSpawns(g) PROVE GoneInv'
  BY <1>16 DEF LaunchSpawns
<1>17. ASSUME NEW g \in Gen, LaunchFinishes(g) PROVE GoneInv'
  BY <1>17 DEF LaunchFinishes, Persist
<1>18. ASSUME NEW g \in Gen, LaunchFails(g) PROVE GoneInv'
  BY <1>18 DEF LaunchFails
<1>19. ASSUME NEW g \in Gen, DeleteStops(g) PROVE GoneInv'
  BY <1>19 DEF DeleteStops
<1>20. ASSUME NEW g \in Gen, DeleteDiscards(g) PROVE GoneInv'
  BY <1>20 DEF DeleteDiscards, Discard
<1>21. ASSUME NEW g \in Gen, ArchiveStops(g) PROVE GoneInv'
  BY <1>21 DEF ArchiveStops
<1>22. ASSUME NEW g \in Gen, ArchiveRecords(g) PROVE GoneInv'
  <2> DEFINE written == [copy[g] EXCEPT !.dead = TRUE]
  <2>1. written \in Records
    BY <1>22, RecordFacts DEF ArchiveRecords, PaperTypes
  <2>2. record' \in {record, written}
    BY <1>22 DEF ArchiveRecords, MarkDead, Persist
  <2> HIDE DEF written
  <2>3. record' = NoRecord => record = NoRecord
    BY <2>1, <2>2, NoRecordIsNone
  <2>4. UNCHANGED discarded /\ UNCHANGED kind /\ \A h \in Gen : Empty(h) => Empty(h)'
    BY <1>22 DEF ArchiveRecords
  <2>5. QED
    BY <2>3, <2>4
<1>23. ASSUME NEW g \in Gen, Touch(g) PROVE GoneInv'
  <2> DEFINE written == copy[g]
  <2>1. written \in Records
    BY <1>23, RecordFacts DEF Touch, PaperTypes
  <2>2. record' \in {record, written}
    BY <1>23 DEF Touch, Persist
  <2> HIDE DEF written
  <2>3. record' = NoRecord => record = NoRecord
    BY <2>1, <2>2, NoRecordIsNone
  <2>4. UNCHANGED discarded /\ UNCHANGED kind /\ \A h \in Gen : Empty(h) => Empty(h)'
    BY <1>23 DEF Touch
  <2>5. QED
    BY <2>3, <2>4
<1>24. ASSUME NEW g \in Gen, DeleteShelved(g) PROVE GoneInv'
  BY <1>24 DEF DeleteShelved, Discard
<1>25. ASSUME NEW g \in Gen, ArchiveShelved(g) PROVE GoneInv'
  <2> DEFINE written == [dead |-> TRUE, archived |-> TRUE]
  <2>1. written \in Records
    BY <1>25, RecordFacts DEF ArchiveShelved, PaperTypes
  <2>2. record' \in {record, written}
    BY <1>25 DEF ArchiveShelved, Persist
  <2> HIDE DEF written
  <2>3. record' = NoRecord => record = NoRecord
    BY <2>1, <2>2, NoRecordIsNone
  <2>4. UNCHANGED discarded /\ UNCHANGED kind /\ \A h \in Gen : Empty(h) => Empty(h)'
    BY <1>25 DEF ArchiveShelved
  <2>5. QED
    BY <2>3, <2>4
<1>26. ASSUME NEW g \in Gen, ReaderHears(g) PROVE GoneInv'
  BY <1>26 DEF ReaderHears
<1>27. ASSUME NEW g \in Gen, ReaderJudges(g) PROVE GoneInv'
  <2> DEFINE written == [copy[g] EXCEPT !.dead = TRUE]
  <2>1. written \in Records
    BY <1>27, RecordFacts DEF ReaderJudges, PaperTypes
  <2>2. record' \in {record, written}
    BY <1>27 DEF ReaderJudges, MarkDead, Persist
  <2> HIDE DEF written
  <2>3. record' = NoRecord => record = NoRecord
    BY <2>1, <2>2, NoRecordIsNone
  <2>4. UNCHANGED discarded /\ UNCHANGED kind /\ \A h \in Gen : Empty(h) => Empty(h)'
    BY <1>27 DEF ReaderJudges
  <2>5. QED
    BY <2>3, <2>4
<1>28. ASSUME NEW g \in Gen, ReaderRemoves(g) PROVE GoneInv'
  BY <1>28 DEF ReaderRemoves, Discard
<1>29. CASE KeeperComesUp
  BY <1>29 DEF KeeperComesUp
<1>30. CASE KeeperFails
  BY <1>30 DEF KeeperFails
<1>31. CASE ChildDies
  BY <1>31 DEF ChildDies
<1>32. CASE KeeperGivesUp
  BY <1>32 DEF KeeperGivesUp
<1>33. CASE KeeperCrash
  BY <1>33 DEF KeeperCrash
<1>34. CASE UNCHANGED vars
  BY <1>34 DEF vars
<1>35. QED
  BY <1>1, <1>2, <1>3, <1>4, <1>5, <1>6, <1>7, <1>8, <1>9, <1>10, <1>11,
     <1>12, <1>13, <1>14, <1>15, <1>16, <1>17, <1>18, <1>19, <1>20, <1>21,
     <1>22, <1>23, <1>24, <1>25, <1>26, <1>27, <1>28, <1>29, <1>30, <1>31,
     <1>32, <1>33, <1>34
  DEF Next, Generation, Adopting, StandingDown, Asking, Finishing, Reading,
      Keeping

\* A deleted session is on record again.
Reappears ==
    record = NoRecord /\ record' # NoRecord /\ ~temporary /\ (\E g \in Gen : discarded[g])

\* Who has a handle of its own to what is gone is older than one that deleted
\* it: its process is ending.
LEMMA WritersEnd ==
    ASSUME EraseInv, NEW h \in Gen, ~discarded[h], ~Empty(h),
           pc[h] \in {"serving", "ending"}, Reappears
    PROVE  \E g \in Gen : discarded[g] /\ h < g /\ pc[h] = "ending"
<1>1. PICK g \in Gen : discarded[g] /\ \A k \in Gen : g < k => Empty(k)
  BY DEF EraseInv, GoneInv, Reappears
<1>2. h < g
  <2>1. g \in Int /\ h \in Int /\ g # h /\ ~(g < h)
    BY <1>1, GenFacts
  <2>2. QED
    BY <2>1
<1>3. pc[g] # "unborn"
  BY <1>1 DEF EraseInv, TurnInv, Holding
<1>4. pc[h] # "serving"
  BY <1>2, <1>3 DEF EraseInv, TurnInv, Holding
<1>5. QED
  BY <1>1, <1>2, <1>4

\* Only such a one brings it back.
OnlyOlder == Reappears => \E g, h \in Gen : discarded[g] /\ h < g /\ pc[h] = "ending"

\* No other step writes a record where there was none, but a launch.
LEMMA ReappearStep == EraseInv /\ [Next]_vars => OnlyOlder
<1> SUFFICES ASSUME EraseInv, [Next]_vars PROVE OnlyOlder
  OBVIOUS
<1> USE DEF OnlyOlder, Reappears, EraseInv, FirstInv, Launching, Empty, flagVars, handleVars,
   readerVars, keeperVars
<1>1. ASSUME NEW g \in Gen, Start(g) PROVE OnlyOlder
  BY <1>1 DEF Start
<1>2. ASSUME NEW g \in Gen, NothingToAdopt(g) PROVE OnlyOlder
  BY <1>2 DEF NothingToAdopt
<1>3. ASSUME NEW g \in Gen, LoadInterrupted(g) PROVE OnlyOlder
  BY <1>3 DEF LoadInterrupted, Shelve
<1>4. ASSUME NEW g \in Gen, ConnectKeeper(g) PROVE OnlyOlder
  BY <1>4 DEF ConnectKeeper, TakeSlot
<1>5. ASSUME NEW g \in Gen, BuryFinished(g) PROVE OnlyOlder
  BY <1>5 DEF BuryFinished, Shelve, SendQuit
<1>6. ASSUME NEW g \in Gen, AdoptLive(g) PROVE OnlyOlder
  BY <1>6 DEF AdoptLive, Persist
<1>7. ASSUME NEW g \in Gen, AdoptFails(g) PROVE OnlyOlder
  BY <1>7 DEF AdoptFails
<1>8. ASSUME NEW g \in Gen, DismissOrphan(g) PROVE OnlyOlder
  BY <1>8 DEF DismissOrphan
<1>9. ASSUME NEW g \in Gen, PrepareHandover(g) PROVE OnlyOlder
  BY <1>9 DEF PrepareHandover
<1>10. ASSUME NEW g \in Gen, AnswerHandover(g) PROVE OnlyOlder
  BY <1>10 DEF AnswerHandover
<1>11. ASSUME NEW g \in Gen, LeaveAcceptLoop(g) PROVE OnlyOlder
  BY <1>11 DEF LeaveAcceptLoop
<1>12. ASSUME NEW g \in Gen, ProcessEnds(g) PROVE OnlyOlder
  BY <1>12 DEF ProcessEnds, Vanish
<1>13. ASSUME NEW g \in Gen, Crash(g) PROVE OnlyOlder
  BY <1>13 DEF Crash, Vanish
<1>14. ASSUME NEW g \in Gen, CatchSignal(g) PROVE OnlyOlder
  BY <1>14 DEF CatchSignal
<1>15. ASSUME NEW g \in Gen, LaunchRecords(g) PROVE OnlyOlder
  BY <1>15 DEF LaunchRecords
<1>16. ASSUME NEW g \in Gen, LaunchSpawns(g) PROVE OnlyOlder
  BY <1>16 DEF LaunchSpawns
<1>17. ASSUME NEW g \in Gen, LaunchFinishes(g) PROVE OnlyOlder
  BY <1>17 DEF LaunchFinishes, Persist
<1>18. ASSUME NEW g \in Gen, LaunchFails(g) PROVE OnlyOlder
  BY <1>18 DEF LaunchFails
<1>19. ASSUME NEW g \in Gen, DeleteStops(g) PROVE OnlyOlder
  BY <1>19 DEF DeleteStops
<1>20. ASSUME NEW g \in Gen, DeleteDiscards(g) PROVE OnlyOlder
  BY <1>20 DEF DeleteDiscards, Discard
<1>21. ASSUME NEW g \in Gen, ArchiveStops(g) PROVE OnlyOlder
  BY <1>21 DEF ArchiveStops
<1>22. ASSUME NEW g \in Gen, ArchiveRecords(g) PROVE OnlyOlder
  <2>1. Reappears => ~discarded[g] /\ ~Empty(g) /\ pc[g] \in {"serving", "ending"}
    BY <1>22 DEF ArchiveRecords, MarkDead, Persist, GateOpen, Reappears
  <2>2. QED
    BY <2>1, WritersEnd
<1>23. ASSUME NEW g \in Gen, Touch(g) PROVE OnlyOlder
  <2>1. Reappears => ~discarded[g] /\ ~Empty(g) /\ pc[g] \in {"serving", "ending"}
    BY <1>23 DEF Touch, Persist, GateOpen, Reappears
  <2>2. QED
    BY <2>1, WritersEnd
<1>24. ASSUME NEW g \in Gen, DeleteShelved(g) PROVE OnlyOlder
  BY <1>24 DEF DeleteShelved, Discard
<1>25. ASSUME NEW g \in Gen, ArchiveShelved(g) PROVE OnlyOlder
  <2>1. Reappears => ~discarded[g] /\ ~Empty(g) /\ pc[g] \in {"serving", "ending"}
    BY <1>25 DEF ArchiveShelved, Persist, GateOpen, Reappears
  <2>2. QED
    BY <2>1, WritersEnd
<1>26. ASSUME NEW g \in Gen, ReaderHears(g) PROVE OnlyOlder
  BY <1>26 DEF ReaderHears
<1>27. ASSUME NEW g \in Gen, ReaderJudges(g) PROVE OnlyOlder
  <2>1. Reappears => ~discarded[g] /\ ~Empty(g) /\ pc[g] \in {"serving", "ending"}
    BY <1>27 DEF ReaderJudges, MarkDead, Persist, GateOpen, Reappears, TurnInv
  <2>2. QED
    BY <2>1, WritersEnd
<1>28. ASSUME NEW g \in Gen, ReaderRemoves(g) PROVE OnlyOlder
  BY <1>28 DEF ReaderRemoves, Discard
<1>29. CASE KeeperComesUp
  BY <1>29 DEF KeeperComesUp
<1>30. CASE KeeperFails
  BY <1>30 DEF KeeperFails
<1>31. CASE ChildDies
  BY <1>31 DEF ChildDies
<1>32. CASE KeeperGivesUp
  BY <1>32 DEF KeeperGivesUp
<1>33. CASE KeeperCrash
  BY <1>33 DEF KeeperCrash
<1>34. CASE UNCHANGED vars
  BY <1>34 DEF vars
<1>35. QED
  BY <1>1, <1>2, <1>3, <1>4, <1>5, <1>6, <1>7, <1>8, <1>9, <1>10, <1>11,
     <1>12, <1>13, <1>14, <1>15, <1>16, <1>17, <1>18, <1>19, <1>20, <1>21,
     <1>22, <1>23, <1>24, <1>25, <1>26, <1>27, <1>28, <1>29, <1>30, <1>31,
     <1>32, <1>33, <1>34
  DEF Next, Generation, Adopting, StandingDown, Asking, Finishing, Reading,
      Keeping

\* A session that was deleted stays deleted, in any world: nothing brings its
\* record back but a thread of a daemon that is older than the one that deleted
\* it, and then only until that daemon's process has ended.
THEOREM DeletedForGood == Spec => DeletedStaysDeleted
<1>1. Init => EraseInv
  <2>1. Init => HandleTypes /\ PaperTypes
    BY RecordFacts DEF Init, HandleTypes, PaperTypes, Holding, Launching
  <2>2. Init => TurnInv /\ FirstInv /\ GoneInv
    BY DEF Init, TurnInv, FirstInv, GoneInv, Empty, Launching, Holding
  <2>3. QED
    BY <2>1, <2>2 DEF EraseInv
<1>2. EraseInv /\ [Next]_vars => EraseInv'
  BY HandleTypesStep, PaperStep, TurnStep, FirstStep, GoneStep DEF EraseInv
<1>3. EraseInv /\ [Next]_vars =>
        [record = NoRecord /\ record' # NoRecord /\ ~temporary
         /\ (\E g \in Gen : discarded[g])
            => \E g \in Gen, h \in Gen : discarded[g] /\ h < g /\ pc[h] = "ending"]_vars
  BY ReappearStep DEF OnlyOlder, Reappears
<1>4. QED
  BY <1>1, <1>2, <1>3, PTL DEF Spec, DeletedStaysDeleted

-----------------------------------------------------------------------------
(***************************************************************************)
(* Proofs about Lineage: what the daemon's sessions hold, for any number   *)
(* of them, of conversations and of launches.                              *)
(*                                                                         *)
(* A conversation has a chain of records; the argument is that only the    *)
(* last of them runs, is gone on from, or has sessions under it, at every  *)
(* stage of a launch and however many records were deleted from the chain. *)
(***************************************************************************)

\* What is assumed: that a conversation is gone on with from its last record, that
\* no client asks under a new number for one that runs, that a launch does not fail
\* once it has repointed a fleet, and that none is under way during a closing.
Undisturbed == Faults = {}

\* A record there is: in an index, or in the hands of the launch that took it out.
Kept(id) == id \in Known \/ (job.took /\ job.id = id)

JobType == [at : {"idle", "matching", "taken", "repointed"}, id : Ids \cup {Nothing},
            seed : Threads \cup {Nothing}, parent : Ids \cup {Nothing}, took : BOOLEAN,
            from : Ids \cup {Nothing}]
\* The variables' types, with those of the launch and of what is read of a closing.
LineageTypeInv ==
    /\ LineageTypeOK /\ job \in JobType
    /\ {"at", "how"} \subseteq DOMAIN closing /\ closing.how \in {"archive", "delete"}

\* A launch and a closing keep out of each other's way; a launch is of a number
\* that does not run.
JobInv ==
    /\ job.at = "idle" => job = Idle
    /\ job.at # "idle" => /\ closing = NotClosing /\ job.id \in Ids
                          /\ ~Runs(job.id) /\ job.id \notin filed
    /\ job.at # "idle" /\ ~job.took => job.id = made + 1
    /\ job.took => job.at # "matching" /\ job.id <= made /\ job.from = Nothing
                   /\ job.seed = thread[job.id] /\ (job.id \notin live => job.id \in over)
    /\ job.at = "matching" => job.from = Nothing

\* What is not a record holds no conversation, no mark.
BlankInv ==
    \A id \in Ids : ~Kept(id) => thread[id] = Nothing /\ resumedTo[id] = Nothing

\* Who holds a conversation is the last of its records.
LastInv ==
    \A r, o \in Ids :
        Runs(r) /\ Kept(o) /\ thread[o] = thread[r] /\ thread[r] # Nothing => o <= r

\* No record of o's conversation lies between o and x.
Between(o, x) == \A z \in Ids : Kept(z) /\ thread[z] = thread[o] => z <= o \/ x <= z

\* A mark leads on, to the next record of the same conversation if that is there.
MarkInv ==
    \A o \in Ids : Kept(o) /\ resumedTo[o] # Nothing =>
        /\ thread[o] # Nothing /\ o < resumedTo[o]
        /\ \/ resumedTo[o] <= made
           \/ job.at = "repointed" /\ job.from = o /\ resumedTo[o] = job.id
        /\ Kept(resumedTo[o]) => thread[resumedTo[o]] = thread[o] /\ Between(o, resumedTo[o])

\* Nobody holds the conversation a launch is for.
Quiet == \A r \in Ids : Runs(r) => thread[r] # job.seed

\* A launch that has matched is for a conversation nobody holds, and what it goes
\* on from is the last of its records; one that has not may find it held, but by
\* the one a record that has stopped is marked with.
SeedInv ==
    job.at # "idle" /\ job.seed # Nothing =>
        /\ job.at = "matching" =>
              Quiet \/ \E o \in Ids : Kept(o) /\ ~Runs(o) /\ thread[o] = job.seed
                                      /\ Runs(resumedTo[o])
        /\ job.at # "matching" =>
              /\ Quiet
              /\ \A o \in Ids : Kept(o) /\ thread[o] = job.seed =>
                    o <= IF job.took THEN job.id ELSE job.from

\* The record a launch reopens; once its fleet is repointed it has none.
FromInv ==
    job.from # Nothing =>
        /\ job.from \in Known /\ ~Runs(job.from) /\ job.seed # Nothing
        /\ thread[job.from] = job.seed /\ ~job.took
        /\ job.at = "repointed" =>
              /\ resumedTo[job.from] = job.id
              /\ \A c \in Ids : Kept(c) => parent[c] # job.from

\* A parent is the last record of its conversation, which is not its child's.
ParentInv ==
    \A c \in Ids : Kept(c) /\ parent[c] # Nothing =>
        /\ parent[c] # c
        /\ parent[c] <= made \/ (job.at = "repointed" /\ job.from # Nothing
                                 /\ parent[c] = job.id /\ thread[c] # job.seed)
        /\ thread[parent[c]] # Nothing =>
              /\ thread[c] # thread[parent[c]]
              /\ \A o \in Ids : Kept(o) /\ thread[o] = thread[parent[c]] => o <= parent[c]

\* The parent a launch is going to write.
HeirInv ==
    job.at # "idle" /\ job.parent # Nothing =>
        /\ job.parent # job.id /\ job.parent <= made
        /\ thread[job.parent] # Nothing =>
              /\ thread[job.parent] # job.seed
              /\ \A o \in Ids : Kept(o) /\ thread[o] = thread[job.parent] => o <= job.parent
\* The inductive invariant.
LineageInv ==
    /\ LineageTypeInv /\ JobInv /\ BlankInv /\ LastInv /\ MarkInv /\ SeedInv /\ FromInv
    /\ ParentInv /\ HeirInv

\* Every set of numbers has a greatest.
LEMMA Greatest ==
    ASSUME NEW N \in Nat, NEW S \in SUBSET (1..N), S # {}
    PROVE  \E n \in S : \A m \in S : m <= n
<1> DEFINE Above(n) == {m \in S : m > n}
           F == {Above(n) : n \in S}
<1>1. \A n \in S : Above(n) \in SUBSET S
  OBVIOUS
<1>2. ASSUME NEW n \in S, NEW m \in Above(n)
      PROVE  Above(m) \subseteq Above(n) /\ m \notin Above(m)
  <2>1. S \subseteq Int
    OBVIOUS
  <2>2. m \in S /\ m > n /\ n \in Int /\ m \in Int
    BY <2>1
  <2>3. \A l \in S : l > m => l > n
    BY <2>1, <2>2
  <2>4. ~(m > m)
    BY <2>2
  <2>5. Above(m) \subseteq Above(n)
    BY <2>3
  <2>6. m \notin Above(m)
    BY <2>4
  <2> QED BY <2>5, <2>6
<1>3. \A n \in S : Above(n) = {} => \A m \in S : m <= n
  OBVIOUS
<1> HIDE DEF Above
<1>4. IsFiniteSet(S)
  <2>1. IsFiniteSet(1..N)
    BY FS_Interval
  <2> QED BY <2>1, FS_Subset
<1>5. F \subseteq FiniteSubsetsOf(S) /\ F # {}
  <2>1. \A n \in S : Above(n) \in FiniteSubsetsOf(S)
    BY <1>1, <1>4, FS_Subset DEF FiniteSubsetsOf
  <2> QED BY <2>1
<1>6. \E X \in F : \A Y \in F : <<Y, X>> \notin StrictSubsetOrdering(S)
  <2> HIDE DEF F
  <2> QED
    BY <1>4, <1>5, FS_StrictSubsetOrderingWellFounded, WFMin
<1>7. PICK n \in S : \A m \in S : <<Above(m), Above(n)>> \notin StrictSubsetOrdering(S)
  BY <1>6
<1>8. ASSUME NEW m \in Above(n) PROVE FALSE
  <2>1. m \in S
    BY <1>1
  <2>2. Above(m) \subseteq Above(n) /\ m \notin Above(m)
    BY <1>2, <2>1
  <2> QED
    BY <1>1, <1>7, <2>1, <2>2 DEF StrictSubsetOrdering
<1> QED BY <1>3, <1>8

\* Numbers of sessions are positive, and nothing is not one of them.
LEMMA IdsAreNumbers ==
    ASSUME Undisturbed
    PROVE  /\ \A id \in Ids : id \in Nat /\ id >= 1
           /\ Nothing \notin Ids /\ Nothing = 0
BY SessionsAssumption DEF Undisturbed, Ids, Nothing

\* The invariant holds of a daemon without sessions.
LEMMA LineageStarts == ASSUME Undisturbed, LineageInit PROVE LineageInv
<1> USE DEF LineageInit
<1>1. LineageTypeInv
  BY SessionsAssumption DEF Undisturbed, LineageTypeInv, LineageTypeOK, JobType,
     Idle, NotClosing, Known, Ids, Nothing
<1>2. \A id \in Ids : ~Kept(id) /\ ~Runs(id)
  BY DEF Kept, Known, Runs, Idle
<1>3. JobInv /\ FromInv
  BY DEF JobInv, FromInv, Idle, Nothing
<1>4. BlankInv /\ LastInv /\ MarkInv /\ SeedInv /\ ParentInv /\ HeirInv
  BY <1>2 DEF BlankInv, LastInv, MarkInv, SeedInv, ParentInv, HeirInv, Idle
<1> QED BY <1>1, <1>3, <1>4 DEF LineageInv

\* Records are among the numbers handed out, and what runs is a record.
LEMMA KeptAreIds ==
    ASSUME Undisturbed, LineageTypeInv, JobInv
    PROVE  /\ made \in Nat
           /\ \A id : Kept(id) => id \in Ids /\ id <= made
           /\ \A id : Runs(id) => Kept(id) /\ id \in Ids
           /\ \A id : ~Runs(Nothing)
<1>1. made \in 0..MaxSessions /\ Known \subseteq 1..made /\ live \subseteq Ids
  BY DEF LineageTypeInv, LineageTypeOK
<1>2. \A id \in Known : id \in Ids /\ id <= made
  BY <1>1, SessionsAssumption DEF Ids, Undisturbed
<1>3. job.took => job.id \in Ids /\ job.id <= made
  BY DEF JobInv, LineageTypeInv, JobType, Idle
<1>4. job.took \in BOOLEAN
  BY DEF LineageTypeInv, JobType
<1> QED BY <1>1, <1>2, <1>3, <1>4, IdsAreNumbers DEF Kept, Runs, Known

\* And after a step.
LEMMA KeptAreIdsNext ==
    ASSUME Undisturbed, LineageTypeInv', JobInv'
    PROVE  /\ made' \in Nat
           /\ \A id : Kept(id)' => id \in Ids /\ id <= made'
           /\ \A id : Runs(id)' => Kept(id)' /\ id \in Ids
<1>1. made' \in 0..MaxSessions /\ Known' \subseteq 1..made' /\ live' \subseteq Ids
  BY DEF LineageTypeInv, LineageTypeOK
<1>2. \A id \in Known' : id \in Ids /\ id <= made'
  BY <1>1, SessionsAssumption DEF Ids, Undisturbed
<1>3. job'.took => job'.id \in Ids /\ job'.id <= made'
  BY DEF JobInv, LineageTypeInv, JobType, Idle
<1>4. job'.took \in BOOLEAN
  BY DEF LineageTypeInv, JobType
<1> QED BY <1>1, <1>2, <1>3, <1>4, IdsAreNumbers DEF Kept, Runs, Known

\* Sessions end, or records go while no launch is under way.
Shrinks ==
    /\ job' = job /\ made' = made
    /\ \A id \in Ids :
          Kept(id)' => /\ Kept(id) /\ thread'[id] = thread[id] /\ parent'[id] = parent[id]
                       /\ resumedTo'[id] = resumedTo[id]
    /\ \A id \in Ids : ~Kept(id)' => thread'[id] = Nothing /\ resumedTo'[id] = Nothing
    /\ \A id \in Ids : Runs(id)' => Runs(id)
    /\ job.at # "idle" =>
          Known' = Known /\ filed' = filed /\ over \subseteq over' /\ live' = live

\* Such a step keeps the invariant.
LEMMA Shrinking ==
    ASSUME Undisturbed, LineageInv, Shrinks, LineageTypeInv',
           job.at # "idle" => closing' = closing
    PROVE  LineageInv'
<1> USE DEF LineageInv
<1>a. LineageTypeInv /\ JobInv /\ BlankInv
  OBVIOUS
<1>b. job' = job /\ made' = made
  BY DEF Shrinks
<1>k. /\ made \in Nat
      /\ \A id : Kept(id) => id \in Ids /\ id <= made
      /\ \A id : Runs(id) => Kept(id) /\ id \in Ids
  BY KeptAreIds
<1>1. JobInv'
  <2>1. job.at = "idle" => job' = Idle
    BY <1>b DEF JobInv
  <2>2. CASE job.at # "idle"
    <3>1. /\ closing = NotClosing /\ job.id \in Ids
          /\ ~Runs(job.id) /\ job.id \notin filed
      BY <2>2 DEF JobInv
    <3>2. ~Runs(job.id)'
      BY <3>1, <1>b DEF Shrinks
    <3>3. job.took => thread'[job.id] = thread[job.id]
      BY <3>1, <1>b DEF Shrinks, Kept
    <3> QED BY <2>2, <3>1, <3>2, <3>3, <1>b DEF JobInv, Shrinks
  <2>3. CASE job.at = "idle"
    BY <2>1, <2>3 DEF JobInv, Idle
  <2> QED BY <2>2, <2>3
<1>2. BlankInv'
  BY DEF BlankInv, Shrinks
<1>l. /\ \A id : Kept(id)' => id \in Ids /\ id <= made
      /\ \A id : Runs(id)' => Kept(id)' /\ id \in Ids
  BY <1>1, <1>b, KeptAreIdsNext
<1>3. LastInv'
  BY <1>l DEF LastInv, Shrinks
<1>4. MarkInv'
  <2> SUFFICES ASSUME NEW o \in Ids, Kept(o)', NEW x, resumedTo'[o] = x, x # Nothing
               PROVE  /\ thread'[o] # Nothing /\ o < x
                      /\ \/ x <= made'
                         \/ job'.at = "repointed" /\ job'.from = o /\ x = job'.id
                      /\ Kept(x)' => thread'[x] = thread'[o] /\ Between(o, x)'
    BY DEF MarkInv, Between, Kept
  <2>1. Kept(o) /\ thread'[o] = thread[o] /\ resumedTo[o] = x
    BY DEF Shrinks
  <2>2. Kept(x)' => Kept(x) /\ x \in Ids /\ thread'[x] = thread[x]
    BY <1>l, <2>1 DEF Shrinks
  <2>3. Between(o, x) => Between(o, x)'
    BY <2>1 DEF Between, Shrinks
  <2> QED BY <2>1, <2>2, <2>3, <1>b DEF MarkInv
<1>5. SeedInv'
  <2> SUFFICES ASSUME job.at # "idle", job.seed # Nothing PROVE SeedInv'
    BY <1>b DEF SeedInv
  <2>1. \A id \in Ids : Kept(id)' = Kept(id)
    BY <1>b DEF Kept, Shrinks
  <2>2. \A id \in Ids : thread'[id] = thread[id] /\ resumedTo'[id] = resumedTo[id]
    BY <2>1 DEF Shrinks, BlankInv
  <2>3. Quiet => Quiet'
    BY <1>b, <2>2 DEF Quiet, Shrinks
  <2>4. ASSUME job.at = "matching", NEW o \in Ids, Kept(o), ~Runs(o),
               thread[o] = job.seed, NEW x, resumedTo[o] = x, Runs(x)
        PROVE  \/ Quiet'
               \/ /\ Kept(o)' /\ ~Runs(o)' /\ thread'[o] = job.seed
                  /\ resumedTo'[o] = x /\ Runs(x)'
    <3>1. CASE Runs(x)'
      BY <3>1, <2>1, <2>2, <2>4 DEF Shrinks
    <3>2. CASE ~Runs(x)'
      <4>1. x \in Ids /\ Kept(x) /\ x # Nothing
        BY <2>4, <1>k, IdsAreNumbers
      <4>2. thread[x] = job.seed
        BY <2>4, <4>1 DEF MarkInv
      <4>3. ASSUME NEW r \in Ids, Runs(r), thread[r] = job.seed
            PROVE  r = x
        <5>1. r <= x /\ x <= r
          BY <4>1, <4>2, <4>3, <2>4, <1>k DEF LastInv
        <5> QED BY <5>1, <4>1, IdsAreNumbers
      <4> QED BY <3>2, <4>3, <2>2, <1>b DEF Quiet, Shrinks
    <3> QED BY <3>1, <3>2
  <2>5. job.at = "matching" =>
          \/ Quiet'
          \/ \E o \in Ids : \E x : /\ Kept(o)' /\ ~Runs(o)' /\ thread'[o] = job.seed
                                 /\ resumedTo'[o] = x /\ Runs(x)'
    BY <2>3, <2>4 DEF SeedInv
  <2>7. (\E o \in Ids : \E x : /\ Kept(o)' /\ ~Runs(o)' /\ thread'[o] = job.seed
                              /\ resumedTo'[o] = x /\ Runs(x)')
        => (\E o \in Ids : /\ Kept(o) /\ ~Runs(o) /\ thread[o] = job.seed
                          /\ Runs(resumedTo[o]))'
    BY <1>b DEF Runs
  <2>6. job.at # "matching" => /\ Quiet'
                               /\ \A o \in Ids : Kept(o)' /\ thread'[o] = job.seed =>
                                     o <= IF job.took THEN job.id ELSE job.from
    BY <2>1, <2>2, <2>3 DEF SeedInv
  <2> QED BY <2>5, <2>6, <2>7, <1>b DEF SeedInv
<1>6. FromInv'
  <2> SUFFICES ASSUME job.from # Nothing PROVE FromInv'
    BY <1>b DEF FromInv
  <2>1. job.at # "idle"
    BY DEF JobInv, Idle
  <2>2. \A id \in Ids : Kept(id)' = Kept(id)
    BY <1>b, <2>1 DEF Kept, Shrinks
  <2>3. \A id \in Ids : thread'[id] = thread[id] /\ resumedTo'[id] = resumedTo[id]
    BY <2>2 DEF Shrinks, BlankInv
  <2>4. job.from \in Known /\ job.from \in Ids
    BY <1>k DEF FromInv, Kept
  <2> QED BY <1>b, <2>1, <2>2, <2>3, <2>4 DEF FromInv, Shrinks
<1>7. ParentInv'
  <2> SUFFICES ASSUME NEW c \in Ids, Kept(c)', parent'[c] # Nothing
               PROVE  /\ parent'[c] # c
                      /\ \/ parent'[c] <= made'
                         \/ /\ job'.at = "repointed" /\ job'.from # Nothing
                            /\ parent'[c] = job'.id /\ thread'[c] # job'.seed
                      /\ thread'[parent'[c]] # Nothing =>
                            /\ thread'[c] # thread'[parent'[c]]
                            /\ \A o \in Ids : Kept(o)' /\ thread'[o] = thread'[parent'[c]]
                                              => o <= parent'[c]
    BY DEF ParentInv
  <2>1. Kept(c) /\ thread'[c] = thread[c] /\ parent'[c] = parent[c]
    BY DEF Shrinks
  <2>2. parent[c] \in Ids
    BY <2>1 DEF LineageTypeInv, LineageTypeOK
  <2>3. thread'[parent[c]] # Nothing => thread'[parent[c]] = thread[parent[c]]
    BY <2>2 DEF Shrinks
  <2> QED BY <2>1, <2>2, <2>3, <1>b DEF ParentInv, Shrinks
<1>8. HeirInv'
  <2> SUFFICES ASSUME job.at # "idle", job.parent # Nothing PROVE HeirInv'
    BY <1>b DEF HeirInv
  <2>1. job.parent \in Ids
    BY DEF LineageTypeInv, JobType
  <2>2. thread'[job.parent] # Nothing => thread'[job.parent] = thread[job.parent]
    BY <2>1 DEF Shrinks
  <2> QED BY <2>1, <2>2, <1>b DEF HeirInv, Shrinks
<1> QED BY <1>1, <1>2, <1>3, <1>4, <1>5, <1>6, <1>7, <1>8

\* The end of a session is such a step,
LEMMA EndKeeps ==
    ASSUME Undisturbed, LineageInv, NEW id \in Ids, End(id)
    PROVE  LineageInv'
<1> USE DEF End
<1>1. LineageTypeInv'
  BY DEF LineageInv, LineageTypeInv, LineageTypeOK, JobType, Known
<1>2. Shrinks
  BY DEF LineageInv, BlankInv, Shrinks, Kept, Known, Runs
<1> QED BY <1>1, <1>2, Shrinking

\* so is putting one down,
LEMMA PutDownKeeps ==
    ASSUME Undisturbed, LineageInv, job = Idle,
           NEW id, NEW how \in {"archive", "delete"}, PutDown(id, how),
           job' = job, made' = made, closing'.at \in {"idle", "closed the root", "closing"},
           {"at", "how"} \subseteq DOMAIN closing', closing'.how \in {"archive", "delete"}
    PROVE  LineageInv'
<1> USE DEF PutDown
<1>1. LineageTypeInv'
  BY DEF LineageInv, LineageTypeInv, LineageTypeOK, JobType, Known, Nothing, Ids
<1>2. Shrinks
  <2>1. \A i \in Ids : (Kept(i) <=> i \in Known) /\ (Kept(i)' <=> i \in Known')
    BY DEF Kept, Idle
  <2>2. \A i \in Ids : i \in Known' => /\ i \in Known /\ thread'[i] = thread[i]
                                     /\ parent'[i] = parent[i] /\ resumedTo'[i] = resumedTo[i]
    BY DEF Known, LineageInv, LineageTypeInv, LineageTypeOK
  <2>3. \A i \in Ids : i \notin Known' => /\ thread'[i] = Nothing
                                       /\ resumedTo'[i] = Nothing
    BY <2>1 DEF Known, LineageInv, LineageTypeInv, LineageTypeOK, BlankInv
  <2>4. \A i \in Ids : Runs(i)' => Runs(i)
    BY DEF Runs
  <2> QED BY <2>1, <2>2, <2>3, <2>4 DEF Shrinks, Idle
<1> QED BY <1>1, <1>2, Shrinking DEF Idle

\* and with it all that a request to close does,
LEMMA ClosingKeeps ==
    ASSUME Undisturbed, LineageInv,
           \/ \E id \in Ids, how \in {"archive", "delete"} : Close(id, how)
           \/ FindFleet \/ CloseNext \/ Closed
    PROVE  LineageInv'
<1>1. ASSUME NEW id \in Ids, NEW how \in {"archive", "delete"}, Close(id, how)
      PROVE  LineageInv'
  <2>1. job = Idle
    BY <1>1, SessionsAssumption DEF Close, MayClose, Undisturbed
  <2> QED BY <1>1, <2>1, PutDownKeeps DEF Close, NotClosing
<1>2. closing.at # "idle" => job = Idle
  BY DEF LineageInv, JobInv, NotClosing
<1>3. CASE CloseNext
  <2>1. job = Idle
    BY <1>2, <1>3 DEF CloseNext
  <2>2. /\ closing'.at = "closing" /\ closing'.how = closing.how
        /\ {"at", "how"} \subseteq DOMAIN closing'
    BY <1>3 DEF CloseNext, LineageInv, LineageTypeInv
  <2> QED BY <1>3, <2>1, <2>2, PutDownKeeps DEF CloseNext, LineageInv, LineageTypeInv
<1>4. CASE FindFleet \/ Closed
  <2>1. job = Idle
    BY <1>2, <1>4 DEF FindFleet, Closed
  <2>4. /\ {"at", "how"} \subseteq DOMAIN closing' /\ closing'.how \in {"archive", "delete"}
        /\ closing'.at \in {"idle", "closing"}
    <3>1. CASE Closed
      BY <3>1 DEF Closed, NotClosing
    <3>2. CASE FindFleet
      <4> DEFINE fleet == FleetUnder(closing.root)
      <4>1. closing' = [closing EXCEPT !.at = "closing", !.todo = fleet]
        BY <3>2 DEF FindFleet
      <4>2. /\ "at" \in DOMAIN closing /\ "how" \in DOMAIN closing
            /\ DOMAIN closing' = DOMAIN closing
        BY <4>1 DEF LineageInv, LineageTypeInv
      <4>3. closing'.at = "closing" /\ closing'.how = closing.how
        BY <4>1, <4>2
      <4> QED BY <4>2, <4>3 DEF LineageInv, LineageTypeInv
    <3> QED BY <1>4, <3>1, <3>2
  <2>5. UNCHANGED <<recordVars, job>>
    BY <1>4 DEF FindFleet, Closed
  <2>2. LineageTypeInv'
    BY <2>4, <2>5 DEF LineageInv, LineageTypeInv, LineageTypeOK, JobType, Known,
       recordVars
  <2>3. Shrinks
    BY <2>1, <2>5 DEF LineageInv, BlankInv, Shrinks, Kept, Known, Runs, recordVars
  <2> QED BY <2>1, <2>2, <2>3, Shrinking DEF Idle
<1> QED BY <1>1, <1>3, <1>4

\* and a restart of the daemon.
LEMMA RestartKeeps == ASSUME Undisturbed, LineageInv, Restart PROVE LineageInv'
<1> USE DEF Restart
<1>1. live' \subseteq Known /\ Known' = Known
  BY DEF Known
<1>2. LineageTypeInv'
  <2>1. live' \subseteq Ids /\ filed' \subseteq Ids \ live' /\ filed' \subseteq over'
    BY DEF Known, Runs, LineageInv, LineageTypeInv, LineageTypeOK
  <2> QED BY <1>1, <2>1 DEF LineageInv, LineageTypeInv, LineageTypeOK, JobType
<1>3. Shrinks
  BY <1>1 DEF LineageInv, BlankInv, Shrinks, Kept, Runs, Idle
<1> QED BY <1>2, <1>3, Shrinking

\* What leaves the records and who runs as they were, outside a launch that
\* moves a conversation.
Untouched ==
    /\ made' = made /\ thread' = thread /\ parent' = parent /\ resumedTo' = resumedTo
    /\ \A id : (Kept(id)' <=> Kept(id)) /\ (Runs(id)' <=> Runs(id))

LEMMA SameRecords ==
    ASSUME Undisturbed, LineageInv, Untouched, job.at # "repointed" \/ job.from = Nothing
    PROVE  BlankInv' /\ LastInv' /\ MarkInv' /\ ParentInv'
<1> USE DEF LineageInv, Untouched
<1>1. BlankInv'
  BY DEF BlankInv
<1>2. LastInv'
  BY DEF LastInv
<1>3. MarkInv'
  <2> SUFFICES ASSUME NEW o \in Ids, Kept(o)', NEW x, resumedTo'[o] = x, x # Nothing
               PROVE  /\ thread'[o] # Nothing /\ o < x /\ x <= made'
                      /\ Kept(x)' => thread'[x] = thread'[o] /\ Between(o, x)'
    BY DEF MarkInv, Between, Kept
  <2>1. Between(o, x) => Between(o, x)'
    BY DEF Between
  <2> QED BY <2>1, IdsAreNumbers DEF MarkInv
<1>4. ParentInv'
  <2> SUFFICES ASSUME NEW c \in Ids, Kept(c), parent[c] # Nothing
               PROVE  /\ parent[c] # c /\ parent[c] <= made
                      /\ thread[parent[c]] # Nothing =>
                            /\ thread[c] # thread[parent[c]]
                            /\ \A o \in Ids : Kept(o) /\ thread[o] = thread[parent[c]]
                                              => o <= parent[c]
    BY DEF ParentInv
  <2> QED BY DEF ParentInv
<1> QED BY <1>1, <1>2, <1>3, <1>4

\* A record a client may go on from is the last of its conversation, which then
\* nobody holds, or it is marked with the one who holds it.
LEMMA GoneOnFrom ==
    ASSUME Undisturbed, LineageInv, job = Idle,
           NEW id \in Ids, id \in Known, ~Runs(id),
           MayGoOnFrom(id), thread[id] # Nothing, ~Runs(resumedTo[id])
    PROVE  /\ \A r \in Ids : Runs(r) => thread[r] # thread[id]
           /\ \A o \in Ids : Kept(o) /\ thread[o] = thread[id] => o <= id
<1>1. \A o : Kept(o) <=> o \in Known
  BY DEF Kept, Idle
<1>2. \A o \in Ids : Kept(o) /\ thread[o] = thread[id] => o <= id
  BY <1>1, SessionsAssumption DEF MayGoOnFrom, LastOf, Undisturbed
<1>3. \A r \in Ids : Runs(r) /\ thread[r] = thread[id] => id <= r /\ r <= id
  BY <1>1, <1>2, KeptAreIds DEF LineageInv, LastInv
<1> QED BY <1>2, <1>3, IdsAreNumbers

\* A launch under a number that exists takes the last record of a conversation
\* nobody holds.
LEMMA ReviveKeeps ==
    ASSUME Undisturbed, LineageInv, MayBegin,
           NEW id \in Ids, NEW asker \in Ids \cup {Nothing},
           MayAskFor(asker, thread[id]), ReviveInPlace(id, asker)
    PROVE  LineageInv'
<1>j. job = Idle /\ closing = NotClosing /\ job.at = "idle" /\ job.from = Nothing
  BY SessionsAssumption DEF MayBegin, Undisturbed, Idle
<1>k. /\ made \in Nat
      /\ \A i : Kept(i) => i \in Ids /\ i <= made
      /\ \A i : Runs(i) => Kept(i) /\ i \in Ids
      /\ ~Runs(Nothing)
  BY KeptAreIds DEF LineageInv
<1>r. \A i : Kept(i) <=> i \in Known
  BY <1>j DEF Kept, Idle
<1>u. /\ id \in Known /\ ~Runs(id) /\ Successor(id) = Nothing /\ MayGoOnFrom(id)
      /\ filed' = filed \ {id}
      /\ UNCHANGED <<live, over, thread, parent, resumedTo, made, closing>>
  BY DEF ReviveInPlace, TakeRecord
<1>p. PICK p \in Ids \cup {Nothing} :
         p = IF parent[id] # Nothing THEN parent[id] ELSE asker
  BY DEF LineageInv, LineageTypeInv, LineageTypeOK
<1>n. job' = [at |-> "taken", id |-> id, seed |-> thread[id], parent |-> p,
              took |-> TRUE, from |-> Nothing]
  BY <1>p DEF Idle, ReviveInPlace
<1>1. LineageTypeInv'
  <2>1. job' \in JobType
    <3>1. thread[id] \in Threads \cup {Nothing}
      BY DEF LineageInv, LineageTypeInv, LineageTypeOK
    <3> QED BY <1>n, <3>1 DEF JobType
  <2>2. /\ filed' \subseteq filed /\ live' = live /\ over' = over /\ thread' = thread
        /\ parent' = parent /\ resumedTo' = resumedTo /\ made' = made /\ closing' = closing
        /\ Known' \subseteq Known
    BY <1>u DEF Known
  <2> QED BY <1>n, <2>1, <2>2 DEF LineageInv, LineageTypeInv, LineageTypeOK
<1>2. Untouched
  <2>1. \A i : Kept(i)' <=> i \in Known
    BY <1>n, <1>u DEF Kept, Known
  <2> QED BY <1>r, <1>u, <2>1 DEF Untouched, Runs
<1>3. BlankInv' /\ LastInv' /\ MarkInv' /\ ParentInv'
  BY <1>2, <1>j, SameRecords
<1>4. JobInv'
  <2>1. (id \notin live => id \in over) /\ id \notin filed'
    BY <1>u DEF Known, LineageInv, LineageTypeInv, LineageTypeOK
  <2>2. id <= made /\ ~Runs(id)'
    BY <1>2, <1>k, <1>r, <1>u DEF Untouched
  <2> QED BY <1>n, <1>j, <1>u, <2>1, <2>2 DEF JobInv
<1>5. SeedInv'
  <2>1. ~Runs(resumedTo[id])
    BY <1>k, <1>u DEF Successor
  <2>2. thread[id] # Nothing =>
          /\ \A r \in Ids : Runs(r) => thread[r] # thread[id]
          /\ \A o \in Ids : Kept(o) /\ thread[o] = thread[id] => o <= id
    BY <1>j, <1>u, <2>1, GoneOnFrom
  <2> QED BY <1>n, <1>2, <2>2 DEF SeedInv, Quiet, Untouched
<1>6. FromInv'
  <2>1. job'.from = Nothing
    BY <1>n
  <2> QED BY <2>1 DEF FromInv
<1>7. HeirInv'
  <2>1. CASE parent[id] # Nothing
    BY <2>1, <1>n, <1>p, <1>u, <1>2, <1>r, <1>j DEF HeirInv, ParentInv, LineageInv,
       Untouched
  <2>2. CASE parent[id] = Nothing /\ asker # Nothing
    <3>1. Runs(asker) /\ asker # id /\ asker <= made /\ asker \in Ids
      BY <2>2, <1>k, <1>u DEF MayAskFor
    <3>2. thread[asker] # Nothing => thread[asker] # thread[id]
      BY <2>2 DEF MayAskFor
    <3>3. thread[asker] # Nothing =>
            \A o \in Ids : Kept(o) /\ thread[o] = thread[asker] => o <= asker
      BY <3>1 DEF LineageInv, LastInv
    <3> QED BY <2>2, <3>1, <3>2, <3>3, <1>n, <1>p, <1>2 DEF HeirInv, Untouched
  <2>3. CASE parent[id] = Nothing /\ asker = Nothing
    BY <2>3, <1>n, <1>p DEF HeirInv
  <2> QED BY <2>1, <2>2, <2>3
<1> QED BY <1>1, <1>3, <1>4, <1>5, <1>6, <1>7 DEF LineageInv

\* A launch under a new number has yet to find the record it goes on from.
LEMMA NewNumberKeeps ==
    ASSUME Undisturbed, LineageInv, MayBegin,
           NEW id \in Ids, NEW asker \in Ids \cup {Nothing},
           NEW seed \in Threads \cup {Nothing}, MayAskFor(asker, seed),
           NewNumber(id, seed, asker)
    PROVE  LineageInv'
<1>j. job = Idle /\ closing = NotClosing /\ job.at = "idle" /\ job.from = Nothing
  BY SessionsAssumption DEF MayBegin, Undisturbed, Idle
<1>k. /\ made \in Nat
      /\ \A i : Kept(i) => i \in Ids /\ i <= made
      /\ \A i : Runs(i) => Kept(i) /\ i \in Ids
      /\ ~Runs(Nothing)
  BY KeptAreIds DEF LineageInv
<1>r. \A i : Kept(i) <=> i \in Known
  BY <1>j DEF Kept, Idle
<1>n. job' = [at |-> "matching", id |-> id, seed |-> seed, parent |-> asker,
              took |-> FALSE, from |-> Nothing]
  BY DEF NewNumber, Idle
<1>u. UNCHANGED <<recordVars, closing>> /\ id = made + 1
  BY DEF NewNumber
<1>1. LineageTypeInv'
  <2>1. job' \in JobType
    BY <1>n DEF JobType
  <2>2. job'.at \in {"idle", "matching", "taken", "repointed"}
    BY <1>n
  <2> QED BY <1>u, <2>1, <2>2 DEF LineageInv, LineageTypeInv, LineageTypeOK,
     recordVars, Known
<1>2. Untouched
  BY <1>u, <1>r, <1>n DEF Untouched, Runs, recordVars, Kept, Known
<1>3. BlankInv' /\ LastInv' /\ MarkInv' /\ ParentInv'
  BY <1>2, <1>j, SameRecords
<1>4. JobInv'
  <2>1. ~Runs(id)' /\ id \notin filed'
    BY <1>2, <1>k, <1>r, <1>u DEF Untouched, recordVars, Known
  <2> QED BY <1>n, <1>j, <1>u, <2>1 DEF JobInv, recordVars
<1>5. SeedInv'
  <2> SUFFICES ASSUME seed # Nothing
               PROVE  \/ \A r \in Ids : Runs(r) => thread[r] # seed
                      \/ \E o \in Ids : Kept(o) /\ ~Runs(o) /\ thread[o] = seed
                                       /\ Runs(resumedTo[o])
    BY <1>n, <1>2 DEF SeedInv, Quiet, Untouched
  <2>1. "asked for while it runs" \notin Faults
    BY DEF Undisturbed
  <2>2. CASE \A o \in Known : thread[o] = seed => ~Runs(o)
    BY <2>2, <1>k, <1>r
  <2>3. CASE \E o \in Known : thread[o] = seed /\ ~Runs(o) /\ Runs(resumedTo[o])
    BY <2>3, <1>k, <1>r
  <2> QED BY <2>1, <2>2, <2>3 DEF NewNumber, MayReopen
<1>6. FromInv'
  <2>1. job'.from = Nothing
    BY <1>n
  <2> QED BY <2>1 DEF FromInv
<1>7. HeirInv'
  <2>2. CASE asker # Nothing
    <3>1. Runs(asker) /\ asker # id /\ asker <= made /\ asker \in Ids
      BY <2>2, <1>k, <1>u DEF MayAskFor
    <3>2. thread[asker] # Nothing => thread[asker] # seed
      BY <2>2 DEF MayAskFor
    <3>3. thread[asker] # Nothing =>
            \A o \in Ids : Kept(o) /\ thread[o] = thread[asker] => o <= asker
      BY <3>1 DEF LineageInv, LastInv
    <3> QED BY <2>2, <3>1, <3>2, <3>3, <1>n, <1>2 DEF HeirInv, Untouched
  <2>3. CASE asker = Nothing
    BY <2>3, <1>n DEF HeirInv
  <2> QED BY <2>2, <2>3
<1> QED BY <1>1, <1>3, <1>4, <1>5, <1>6, <1>7 DEF LineageInv

\* So every request keeps the invariant.
LEMMA RequestKeeps == ASSUME Undisturbed, LineageInv, Request PROVE LineageInv'
BY ReviveKeeps, NewNumberKeeps DEF Request

\* The newest record that has stopped is the last of all, or marked with the one
\* that runs, which ends the launch.
LEMMA MatchKeeps == ASSUME Undisturbed, LineageInv, Match PROVE LineageInv'
<1>k. /\ made \in Nat
      /\ \A i : Kept(i) => i \in Ids /\ i <= made
      /\ \A i : Runs(i) => Kept(i) /\ i \in Ids
  BY KeptAreIds DEF LineageInv
<1>u. UNCHANGED <<recordVars, closing>> /\ job.at = "matching"
  BY DEF Match
<1>j. job.took = FALSE /\ job.from = Nothing /\ job \in JobType
  BY <1>u DEF LineageInv, JobInv, LineageTypeInv, JobType
<1>r. \A i : Kept(i) <=> i \in Known
  BY <1>j DEF Kept
<1> DEFINE matches == Matching(job.seed)
           from == Newest(matches)
<1>m. \A i : i \in matches <=> /\ i \in Known /\ ~Runs(i) /\ job.seed # Nothing
                              /\ thread[i] = job.seed
  BY DEF Matching
<1>a. CASE matches = {}
  <2>n. job' = [job EXCEPT !.at = "taken"]
    BY <1>a DEF Match
  <2>o. /\ job'.at = "taken" /\ job'.id = job.id /\ job'.seed = job.seed
        /\ job'.parent = job.parent /\ job'.took = FALSE /\ job'.from = Nothing
        /\ job' \in JobType
    BY <1>j, <2>n DEF JobType
  <2>1. LineageTypeInv'
    BY <1>u, <2>o DEF LineageInv, LineageTypeInv, LineageTypeOK, recordVars, Known
  <2>2. Untouched
    BY <1>u, <1>r, <2>o DEF Untouched, Runs, recordVars, Kept, Known
  <2>3. BlankInv' /\ LastInv' /\ MarkInv' /\ ParentInv'
    BY <2>2, <1>j, SameRecords
  <2>4. JobInv'
    BY <2>o, <2>2, <1>u DEF LineageInv, JobInv, Untouched, recordVars
  <2>5. SeedInv'
    <3> SUFFICES ASSUME job.seed # Nothing
                 PROVE  /\ \A r \in Ids : Runs(r) => thread[r] # job.seed
                        /\ \A o \in Ids : Kept(o) => thread[o] # job.seed
      BY <2>o, <2>2 DEF SeedInv, Quiet, Untouched
    <3>1. \A o \in Ids : Kept(o) /\ thread[o] = job.seed => Runs(o)
      BY <1>a, <1>m, <1>r
    <3>2. Quiet
      BY <3>1, <1>u DEF LineageInv, SeedInv
    <3> QED BY <3>1, <3>2 DEF Quiet
  <2>6. FromInv'
    BY <2>o DEF FromInv
  <2>7. HeirInv'
    BY <2>o, <2>2, <1>u DEF HeirInv, LineageInv, Untouched
  <2> QED BY <2>1, <2>3, <2>4, <2>5, <2>6, <2>7 DEF LineageInv
<1>b. CASE matches # {} /\ Successor(from) # Nothing
  <2>n. job' = Idle
    BY <1>b DEF Match
  <2>1. LineageTypeInv'
    BY <1>u, <2>n DEF LineageInv, LineageTypeInv, LineageTypeOK, recordVars, Known,
       JobType, Idle
  <2>2. Untouched
    BY <1>u, <1>r, <2>n DEF Untouched, Runs, recordVars, Kept, Known, Idle
  <2>3. BlankInv' /\ LastInv' /\ MarkInv' /\ ParentInv'
    BY <2>2, <1>j, SameRecords
  <2>4. JobInv' /\ SeedInv' /\ FromInv' /\ HeirInv'
    BY <2>n DEF JobInv, SeedInv, FromInv, HeirInv, Idle
  <2> QED BY <2>1, <2>3, <2>4 DEF LineageInv
<1>c. CASE matches # {} /\ Successor(from) = Nothing
  <2>f. /\ from \in Ids /\ from \in Known /\ ~Runs(from) /\ job.seed # Nothing
        /\ thread[from] = job.seed
        /\ \A o \in matches : o <= from
    <3>1. matches \subseteq 1..MaxSessions /\ MaxSessions \in Nat
      BY <1>m, <1>r, <1>k, SessionsAssumption DEF Ids, Undisturbed
    <3>2. \E i \in matches : \A o \in matches : o <= i
      <4> HIDE DEF matches
      <4> QED BY <3>1, <1>c, Greatest
    <3>3. from \in matches /\ \A o \in matches : o <= from
      BY <3>2 DEF Newest
    <3> QED BY <3>1, <3>3, <1>m DEF Ids
  <2> HIDE DEF matches, from
  <2>p. PICK p \in Ids \cup {Nothing} :
            p = IF parent[from] # Nothing THEN parent[from] ELSE job.parent
    BY <2>f, <1>j DEF LineageInv, LineageTypeInv, LineageTypeOK, JobType
  <2>n. job' = [job EXCEPT !.at = "taken", !.from = from, !.parent = p]
    BY <1>c, <2>p DEF Match, matches, from
  <2>o. /\ job'.at = "taken" /\ job'.id = job.id /\ job'.seed = job.seed
        /\ job'.parent = p /\ job'.took = FALSE /\ job'.from = from
        /\ job' \in JobType
    BY <1>j, <2>n, <2>f DEF JobType
  <2>1. LineageTypeInv'
    BY <1>u, <2>o DEF LineageInv, LineageTypeInv, LineageTypeOK, recordVars, Known
  <2>2. Untouched
    BY <1>u, <1>r, <2>o DEF Untouched, Runs, recordVars, Kept, Known
  <2>3. BlankInv' /\ LastInv' /\ MarkInv' /\ ParentInv'
    BY <2>2, <1>j, SameRecords
  <2>4. JobInv'
    BY <2>o, <2>2, <1>u DEF LineageInv, JobInv, Untouched, recordVars
  <2>q. Quiet
    <3>1. SUFFICES ASSUME NEW o \in Ids, Kept(o), ~Runs(o), thread[o] = job.seed,
                          NEW x, resumedTo[o] = x, Runs(x)
                   PROVE  FALSE
      BY <1>u, <2>f DEF LineageInv, SeedInv
    <3>2. x \in Ids /\ x # Nothing /\ Kept(x)
      BY <3>1, <1>k, IdsAreNumbers
    <3>3. thread[x] = job.seed /\ Between(o, x)
      BY <3>1, <3>2 DEF LineageInv, MarkInv
    <3>4. o <= from
      BY <3>1, <2>f, <1>m, <1>r
    <3>5. from <= x
      BY <3>1, <3>2, <3>3, <2>f, <1>r DEF LineageInv, LastInv
    <3>6. from # x
      BY <3>1, <2>f
    <3>7. from <= o \/ x <= from
      BY <3>3, <3>1, <2>f, <1>r DEF Between
    <3>8. from = o
      BY <3>1, <3>2, <3>4, <3>5, <3>6, <3>7, <2>f, IdsAreNumbers
    <3>9. Successor(from) = x
      BY <3>1, <3>2, <3>8 DEF Successor
    <3> QED BY <3>9, <3>2, <1>c
  <2>5. SeedInv'
    <3>1. \A o \in Ids : Kept(o) /\ thread[o] = job.seed => o <= from
      BY <2>q, <2>f, <1>m, <1>r DEF Quiet
    <3> QED BY <2>o, <2>2, <2>q, <3>1 DEF SeedInv, Quiet, Untouched
  <2>6. FromInv'
    <3>1. Known' = Known
      BY <1>u DEF Known, recordVars
    <3> QED BY <2>o, <2>2, <2>f, <3>1 DEF FromInv, Untouched
  <2>7. HeirInv'
    <3>1. CASE parent[from] # Nothing
      <4>1. /\ p = parent[from] /\ p # from /\ p <= made
            /\ thread[p] # Nothing => /\ thread[from] # thread[p]
                                      /\ \A o \in Ids :
                                            Kept(o) /\ thread[o] = thread[p] => o <= p
        BY <3>1, <2>p, <2>f, <1>r, <1>u DEF LineageInv, ParentInv
      <4>2. p # job.id
        BY <4>1, <1>k, <1>j, <1>u DEF LineageInv, JobInv
      <4> QED BY <4>1, <4>2, <2>o, <2>f, <2>2 DEF HeirInv, Untouched
    <3>2. CASE parent[from] = Nothing
      BY <3>2, <2>p, <2>o, <2>2, <1>u DEF HeirInv, LineageInv, Untouched
    <3> QED BY <3>1, <3>2
  <2> QED BY <2>1, <2>3, <2>4, <2>5, <2>6, <2>7 DEF LineageInv
<1> QED BY <1>a, <1>b, <1>c

\* A launch that fails puts back what it took.
LEMMA FailKeeps == ASSUME Undisturbed, LineageInv, Fail PROVE LineageInv'
<1>u. /\ job.at \in {"taken", "repointed"} /\ job' = Idle
      /\ filed' = IF job.took /\ job.id \notin live THEN filed \cup {job.id} ELSE filed
      /\ UNCHANGED <<live, over, thread, parent, resumedTo, made, closing>>
  BY DEF Fail, PutBack
<1>k. /\ made \in Nat
      /\ \A i : Kept(i) => i \in Ids /\ i <= made
  BY KeptAreIds DEF LineageInv
<1>j. job \in JobType
  BY DEF LineageInv, LineageTypeInv
<1>1. Untouched
  BY <1>u, <1>j DEF Untouched, Runs, Kept, Known, JobType, Idle
<1>2. LineageTypeInv'
  <2>1. job.took /\ job.id \notin live =>
          job.id \in Ids /\ job.id \in over /\ job.id <= made
    BY <1>k DEF LineageInv, JobInv, Kept
  <2>2. /\ filed' \subseteq Ids \ live' /\ filed' \subseteq over'
    BY <1>u, <2>1 DEF LineageInv, LineageTypeInv, LineageTypeOK
  <2>3. Known' \subseteq 1..made'
    <3>1. \A i \in Known : i \in Ids /\ i <= made
      BY <1>k DEF Kept
    <3>2. \A i \in Known' : i \in Ids /\ i <= made
      BY <3>1, <2>1, <1>u DEF Known
    <3> QED BY <3>2, <1>k, <1>u, IdsAreNumbers
  <2>4. job' \in JobType /\ job'.at = "idle"
    BY <1>u DEF JobType, Idle
  <2> QED BY <1>u, <2>2, <2>3, <2>4 DEF LineageInv, LineageTypeInv, LineageTypeOK
<1>3. job.at # "repointed" \/ job.from = Nothing
  BY <1>u, SessionsAssumption DEF Fail, MayFail, Undisturbed
<1>4. BlankInv' /\ LastInv' /\ MarkInv' /\ ParentInv'
  BY <1>1, <1>3, SameRecords
<1>5. JobInv' /\ SeedInv' /\ FromInv' /\ HeirInv'
  BY <1>u DEF JobInv, SeedInv, FromInv, HeirInv, Idle
<1> QED BY <1>2, <1>4, <1>5 DEF LineageInv

\* Repointing gives the fleet to a number that holds nothing yet.
LEMMA RepointKeeps == ASSUME Undisturbed, LineageInv, Repoint PROVE LineageInv'
<1>k. /\ made \in Nat
      /\ \A i : Kept(i) => i \in Ids /\ i <= made
      /\ \A i : Runs(i) => Kept(i) /\ i \in Ids
  BY KeptAreIds DEF LineageInv
<1>u. /\ job.at = "taken" /\ UNCHANGED <<live, filed, over, thread, made, closing>>
      /\ job' = [job EXCEPT !.at = "repointed"]
  BY DEF Repoint
<1>o. /\ job'.at = "repointed" /\ job'.id = job.id /\ job'.seed = job.seed
      /\ job'.parent = job.parent /\ job'.took = job.took /\ job'.from = job.from
      /\ job' \in JobType /\ job \in JobType
  BY <1>u DEF LineageInv, LineageTypeInv, JobType
<1>s. /\ \A i : (Kept(i)' <=> Kept(i)) /\ (Runs(i)' <=> Runs(i))
      /\ Known' = Known
  BY <1>u, <1>o DEF Kept, Runs, Known
<1>4. JobInv'
  BY <1>o, <1>s, <1>u DEF LineageInv, JobInv
<1>5. SeedInv'
  BY <1>o, <1>s, <1>u DEF LineageInv, SeedInv, Quiet
<1>7. HeirInv'
  BY <1>o, <1>s, <1>u DEF LineageInv, HeirInv
<1>a. CASE job.from = Nothing
  <2>1. parent' = parent /\ resumedTo' = resumedTo
    BY <1>a DEF Repoint
  <2>2. LineageTypeInv'
    BY <1>u, <1>o, <1>s, <2>1 DEF LineageInv, LineageTypeInv, LineageTypeOK
  <2>3. BlankInv' /\ LastInv' /\ MarkInv' /\ ParentInv'
    BY <1>u, <1>s, <1>a, <2>1, SameRecords DEF Untouched
  <2>4. FromInv'
    BY <1>o, <1>a DEF FromInv
  <2> QED BY <1>4, <1>5, <1>7, <2>2, <2>3, <2>4 DEF LineageInv
<1>b. CASE job.from # Nothing
  <2>f. /\ job.from \in Known /\ job.from \in Ids
        /\ ~Runs(job.from) /\ job.seed # Nothing
        /\ thread[job.from] = job.seed /\ job.took = FALSE /\ Kept(job.from)
    BY <1>b, <1>k, <1>o DEF LineageInv, FromInv, Kept, JobType
  <2>i. job.id = made + 1 /\ job.id \in Ids /\ ~Kept(job.id) /\ job.id # Nothing
    BY <1>k, <1>u, <2>f, IdsAreNumbers DEF LineageInv, JobInv
  <2>r. \A i : Kept(i) <=> i \in Known
    BY <2>f DEF Kept
  <2>p. /\ \A c \in Ids :
              Kept(c) => parent'[c] = IF parent[c] = job.from THEN job.id ELSE parent[c]
        /\ parent' \in [Ids -> Ids \cup {Nothing}]
    BY <1>b, <2>r, <2>i DEF Repoint, Repointed, LineageInv, LineageTypeInv,
       LineageTypeOK
  <2>m. resumedTo' = [resumedTo EXCEPT ![job.from] = job.id]
    BY <1>b, <2>f DEF Repoint, Repointed
  <2>n. /\ \A i \in Ids : resumedTo'[i] = IF i = job.from THEN job.id ELSE resumedTo[i]
        /\ resumedTo' \in [Ids -> Ids \cup {Nothing}]
    BY <2>m, <2>f, <2>i DEF LineageInv, LineageTypeInv, LineageTypeOK
  <2>1. LineageTypeInv'
    BY <1>u, <1>o, <1>s, <2>p, <2>n DEF LineageInv, LineageTypeInv, LineageTypeOK
  <2>2. BlankInv'
    BY <1>u, <1>s, <2>n, <2>f DEF LineageInv, BlankInv
  <2>3. LastInv'
    BY <1>u, <1>s DEF LineageInv, LastInv
  <2>4. MarkInv'
    <3> SUFFICES ASSUME NEW o \in Ids, Kept(o)', NEW x, resumedTo'[o] = x, x # Nothing
                 PROVE  /\ thread'[o] # Nothing /\ o < x
                        /\ \/ x <= made'
                           \/ job'.at = "repointed" /\ job'.from = o /\ x = job'.id
                        /\ Kept(x)' => thread'[x] = thread'[o] /\ Between(o, x)'
      BY DEF MarkInv, Between, Kept
    <3>1. CASE o = job.from
      <4>1. x = job.id /\ o <= made /\ o \in Nat
        BY <3>1, <2>n, <2>f, <1>k, IdsAreNumbers
      <4> QED BY <3>1, <4>1, <2>f, <2>i, <1>k, <1>o, <1>s, <1>u
    <3>2. CASE o # job.from
      <4>1. resumedTo[o] = x
        BY <3>2, <2>n
      <4>2. Between(o, x) => Between(o, x)'
        BY <1>s, <1>u DEF Between
      <4> QED BY <4>1, <4>2, <1>s, <1>u DEF LineageInv, MarkInv
    <3> QED BY <3>1, <3>2
  <2>5. FromInv'
    <3>1. job.from # job.id
      BY <2>f, <2>i
    <3>2. \A c \in Ids : Kept(c)' => parent'[c] # job.from
      BY <3>1, <2>p, <1>s
    <3> QED BY <1>o, <1>s, <1>u, <2>f, <2>n, <3>2 DEF FromInv
  <2>6. ParentInv'
    <3> SUFFICES ASSUME NEW c \in Ids, Kept(c), parent'[c] # Nothing
                 PROVE  /\ parent'[c] # c
                        /\ \/ parent'[c] <= made'
                           \/ /\ job'.at = "repointed" /\ job'.from # Nothing
                              /\ parent'[c] = job'.id /\ thread'[c] # job'.seed
                        /\ thread'[parent'[c]] # Nothing =>
                              /\ thread'[c] # thread'[parent'[c]]
                              /\ \A o \in Ids : Kept(o)' /\ thread'[o] = thread'[parent'[c]]
                                                => o <= parent'[c]
      BY <1>s DEF ParentInv
    <3>1. CASE parent[c] = job.from
      <4>1. parent'[c] = job.id /\ c # job.id
        BY <3>1, <2>p, <2>i
      <4>2. thread[c] # job.seed
        BY <3>1, <2>f, <1>b DEF LineageInv, ParentInv
      <4>3. thread[job.id] = Nothing
        BY <2>i DEF LineageInv, BlankInv
      <4> QED BY <4>1, <4>2, <4>3, <1>b, <1>o, <1>u
    <3>2. CASE parent[c] # job.from
      <4>1. parent'[c] = parent[c]
        BY <3>2, <2>p
      <4> QED BY <4>1, <1>s, <1>u DEF LineageInv, ParentInv
    <3> QED BY <3>1, <3>2
  <2> QED BY <1>4, <1>5, <1>7, <2>1, <2>2, <2>3, <2>4, <2>5, <2>6 DEF LineageInv
<1> QED BY <1>a, <1>b

\* The session a launch inserts is the last record of its conversation, and all
\* that hangs off the conversation hangs off it.
LEMMA InsertKeeps == ASSUME Undisturbed, LineageInv, Insert PROVE LineageInv'
<1> DEFINE id == job.id
<1>k. /\ made \in Nat
      /\ \A i : Kept(i) => i \in Ids /\ i <= made
      /\ \A i : Runs(i) => Kept(i) /\ i \in Ids
  BY KeptAreIds DEF LineageInv
<1>t. job \in JobType /\ job.at = "repointed" /\ job' = Idle /\ job'.at = "idle"
  BY DEF LineageInv, LineageTypeInv, Insert, Idle
<1>i. /\ id \in Ids /\ closing = NotClosing /\ ~Runs(id) /\ id \notin filed
      /\ (job.took => id <= made /\ job.seed = thread[id] /\ job.from = Nothing)
      /\ (~job.took => id = made + 1 /\ ~Kept(id) /\ thread[id] = Nothing)
  <2>1. id \in Ids /\ closing = NotClosing /\ ~Runs(id) /\ id \notin filed
    BY <1>t DEF LineageInv, JobInv
  <2>2. job.took => id <= made /\ job.seed = thread[id] /\ job.from = Nothing
    BY <1>t DEF LineageInv, JobInv
  <2>3. ~job.took => id = made + 1
    BY <1>t DEF LineageInv, JobInv
  <2> QED BY <2>1, <2>2, <2>3, <1>k DEF LineageInv, BlankInv
<1>w. PICK own \in Threads \cup {Nothing} :
        /\ thread' = [thread EXCEPT ![id] = own]
        /\ job.seed # Nothing => own = job.seed
        /\ job.seed = Nothing => own = Nothing \/ \A other \in Ids : own # thread[other]
  <2> DEFINE choice == IF job.seed # Nothing THEN {job.seed}
                       ELSE {Nothing} \cup (Threads \ {thread[other] : other \in Ids})
  <2>1. PICK own \in choice : thread' = [thread EXCEPT ![id] = own]
    BY DEF Insert
  <2>2. job.seed \in Threads \cup {Nothing}
    BY <1>t DEF JobType
  <2>3. own \in Threads \cup {Nothing}
    BY <2>1, <2>2
  <2>4. job.seed # Nothing => own = job.seed
    BY <2>1
  <2>5. job.seed = Nothing => own = Nothing \/ \A other \in Ids : own # thread[other]
    BY <2>1
  <2> QED BY <2>1, <2>3, <2>4, <2>5
<1>u. /\ live' = live \cup {id} /\ over' = over \ {id} /\ filed' = filed /\ closing' = closing
      /\ parent' = [parent EXCEPT ![id] = job.parent]
      /\ resumedTo' = [resumedTo EXCEPT ![id] = Nothing]
      /\ made' = IF id > made THEN id ELSE made
  BY DEF Insert
<1>v. /\ \A i \in Ids : thread'[i] = IF i = id THEN own ELSE thread[i]
      /\ \A i \in Ids : parent'[i] = IF i = id THEN job.parent ELSE parent[i]
      /\ \A i \in Ids : resumedTo'[i] = IF i = id THEN Nothing ELSE resumedTo[i]
  BY <1>i, <1>u, <1>w DEF LineageInv, LineageTypeInv, LineageTypeOK
<1>r. /\ \A i : Kept(i)' <=> Kept(i) \/ i = id
      /\ \A i : Runs(i)' <=> Runs(i) \/ i = id
  <2>1. \A i : Kept(i)' <=> i \in Known \/ i = id
    BY <1>t, <1>u DEF Kept, Known, Idle
  <2>2. \A i : Kept(i) => i \in Known \/ i = id
    BY DEF Kept
  <2>3. \A i : i \in Known => Kept(i)
    BY DEF Kept
  <2> QED BY <2>1, <2>2, <2>3, <1>u DEF Runs
<1>n. id \in Nat /\ made' \in Nat /\ id <= made' /\ made <= made'
  BY <1>i, <1>k, <1>u, IdsAreNumbers
<1>1. LineageTypeInv'
  <2>1. made' \in 0..MaxSessions
    <3>1. made \in 0..MaxSessions
      BY DEF LineageInv, LineageTypeInv, LineageTypeOK
    <3>2. id \in 1..MaxSessions
      BY <1>i DEF Ids
    <3> QED BY <1>u, <3>1, <3>2, SessionsAssumption DEF Undisturbed
  <2>2. Known' \subseteq 1..made'
    <3>1. \A i \in Known' : i \in Ids /\ i <= made'
      <4>1. \A i \in Known' : Kept(i) \/ i = id
        BY <1>u DEF Known, Kept
      <4> QED BY <4>1, <1>k, <1>n, <1>i, IdsAreNumbers
    <3> QED BY <3>1, <1>n, IdsAreNumbers
  <2>3. /\ live' \subseteq Ids /\ filed' \subseteq Ids \ live' /\ over' \subseteq Ids
        /\ filed' \subseteq over'
    BY <1>u, <1>i DEF LineageInv, LineageTypeInv, LineageTypeOK
  <2>4. /\ thread' \in [Ids -> Threads \cup {Nothing}]
        /\ parent' \in [Ids -> Ids \cup {Nothing}]
        /\ resumedTo' \in [Ids -> Ids \cup {Nothing}]
    BY <1>u, <1>w, <1>i, <1>t DEF LineageInv, LineageTypeInv, LineageTypeOK, JobType
  <2>5. job' \in JobType
    BY <1>t DEF Idle, JobType
  <2> QED BY <2>1, <2>2, <2>3, <2>4, <2>5, <1>t, <1>u DEF LineageInv, LineageTypeInv,
     LineageTypeOK
<1>f. own # Nothing =>
        \A o \in Ids : Kept(o) /\ o # id /\ thread[o] = own => o < id /\ ~Runs(o)
  <2> SUFFICES ASSUME own # Nothing, NEW o \in Ids, Kept(o), o # id, thread[o] = own
               PROVE  o < id /\ ~Runs(o)
    OBVIOUS
  <2>1. job.seed # Nothing /\ thread[o] = job.seed
    BY <1>w
  <2>2. ~Runs(o) /\ o <= IF job.took THEN job.id ELSE job.from
    BY <2>1, <1>t DEF LineageInv, SeedInv, Quiet
  <2>3. CASE job.took
    BY <2>2, <2>3, <1>n, IdsAreNumbers
  <2>4. CASE ~job.took
    <3>1. o <= made
      BY <1>k
    <3> QED BY <3>1, <2>2, <2>4, <1>i, <1>k, IdsAreNumbers
  <2> QED BY <2>3, <2>4
<1>g. thread[id] # Nothing => own = thread[id] /\ job.took /\ Kept(id)
  BY <1>i, <1>w, <1>t DEF Kept, JobType
<1>h. own # Nothing /\ own = thread[id] => job.took /\ Kept(id)
  BY <1>g
<1>2. BlankInv'
  BY <1>r, <1>v DEF LineageInv, BlankInv
<1>3. LastInv'
  <2> SUFFICES ASSUME NEW r \in Ids, NEW o \in Ids, Runs(r)', Kept(o)',
                      thread'[o] = thread'[r], thread'[r] # Nothing
               PROVE  o <= r
    BY DEF LastInv
  <2>1. CASE r = id
    BY <2>1, <1>r, <1>v, <1>f, <1>n, IdsAreNumbers
  <2>2. CASE r # id
    <3>1. Runs(r) /\ Kept(r) /\ thread'[r] = thread[r]
      BY <2>2, <1>r, <1>v, <1>k
    <3>2. o # id
      BY <3>1, <2>2, <1>v, <1>f
    <3> QED BY <3>1, <3>2, <1>r, <1>v DEF LineageInv, LastInv
  <2> QED BY <2>1, <2>2
<1>4. MarkInv'
  <2> SUFFICES ASSUME NEW o \in Ids, Kept(o)', NEW x, resumedTo'[o] = x, x # Nothing
               PROVE  /\ thread'[o] # Nothing /\ o < x /\ x <= made'
                      /\ Kept(x)' => thread'[x] = thread'[o] /\ Between(o, x)'
    BY DEF MarkInv, Between, Kept
  <2>1. o # id /\ Kept(o) /\ resumedTo[o] = x /\ thread'[o] = thread[o]
    BY <1>v, <1>r
  <2>2. /\ thread[o] # Nothing /\ o < x
        /\ x <= made \/ (job.from = o /\ x = id)
        /\ Kept(x) => thread[x] = thread[o] /\ Between(o, x)
    BY <2>1 DEF LineageInv, MarkInv
  <2>3. x \in Ids /\ x \in Nat /\ x <= made'
    <3>1. x \in Ids /\ x \in Nat
      BY <2>1, IdsAreNumbers DEF LineageInv, LineageTypeInv, LineageTypeOK
    <3>2. CASE x <= made
      BY <3>1, <3>2, <1>n, <1>k
    <3>3. CASE x = id
      BY <3>1, <3>3, <1>n
    <3> QED BY <3>1, <3>2, <3>3, <2>2
  <2>4. ASSUME Kept(x)' PROVE thread'[x] = thread'[o] /\ Between(o, x)'
    <3>1. CASE Kept(x)
      <4>1. thread[x] = thread[o] /\ thread'[x] = thread[x]
        BY <3>1, <2>2, <2>3, <1>g, <1>v
      <4>2. ASSUME NEW z \in Ids, Kept(z)', thread'[z] = thread[o] PROVE z <= o \/ x <= z
        <5>1. CASE z # id \/ (thread[z] = own /\ Kept(z))
          BY <5>1, <4>2, <3>1, <2>2, <1>r, <1>v DEF Between
        <5>2. CASE z = id /\ ~job.took
          BY <5>2, <1>i, <1>k, <3>1, <2>3
        <5>3. CASE z = id /\ job.took /\ thread[id] # own
          <6>1. own = thread[o] /\ job.seed = Nothing /\ own # Nothing
            BY <5>3, <4>2, <2>2, <1>v, <1>i, <1>w
          <6> QED BY <6>1, <1>w
        <5> QED BY <5>1, <5>2, <5>3, <1>t DEF Kept, JobType
      <4> QED BY <4>1, <4>2, <2>1 DEF Between
    <3>2. CASE ~Kept(x)
      <4>1. x = id /\ ~job.took
        BY <3>2, <2>4, <1>r, <1>t DEF Kept, JobType
      <4>2. job.from = o /\ job.from # Nothing
        BY <4>1, <2>2, <1>i, <1>k, IdsAreNumbers
      <4>3. thread[o] = job.seed /\ own = job.seed /\ job.seed # Nothing
        BY <4>2, <1>w DEF LineageInv, FromInv
      <4>4. ASSUME NEW z \in Ids, Kept(z)', thread'[z] = thread[o] PROVE z <= o \/ x <= z
        <5>1. CASE z = id
          BY <5>1, <4>1, <1>n
        <5>2. CASE z # id
          BY <5>2, <4>1, <4>2, <4>3, <4>4, <1>r, <1>v, <1>t DEF LineageInv, SeedInv
        <5> QED BY <5>1, <5>2
      <4> QED BY <4>1, <4>3, <4>4, <2>1, <1>v, <1>i DEF Between
    <3> QED BY <3>1, <3>2
  <2> QED BY <2>1, <2>2, <2>3, <2>4
<1>5. ParentInv'
  <2> SUFFICES ASSUME NEW c \in Ids, Kept(c)', NEW m, parent'[c] = m, m # Nothing
               PROVE  /\ m # c /\ m <= made'
                      /\ thread'[m] # Nothing =>
                            /\ thread'[c] # thread'[m]
                            /\ \A o \in Ids : Kept(o)' /\ thread'[o] = thread'[m] => o <= m
    BY DEF ParentInv
  <2>1. CASE c = id
    <3>1. m = job.parent /\ m \in Ids
      BY <2>1, <1>v, <1>t DEF JobType
    <3>2. /\ m # id /\ m <= made
          /\ thread[m] # Nothing =>
                /\ thread[m] # job.seed
                /\ \A o \in Ids : Kept(o) /\ thread[o] = thread[m] => o <= m
      BY <3>1, <1>t DEF LineageInv, HeirInv
    <3>3. thread'[m] = thread[m] /\ thread'[c] = own
      BY <2>1, <3>1, <3>2, <1>v
    <3>4. thread[m] # Nothing => own # thread[m]
      BY <3>1, <3>2, <1>w
    <3>5. m <= made'
      BY <3>1, <3>2, <1>n, <1>k, IdsAreNumbers
    <3> QED BY <2>1, <3>1, <3>2, <3>3, <3>4, <3>5, <1>r, <1>v
  <2>2. CASE c # id
    <3>1. Kept(c) /\ parent[c] = m /\ thread'[c] = thread[c] /\ m \in Ids
      BY <2>2, <1>r, <1>v DEF LineageInv, LineageTypeInv, LineageTypeOK
    <3>2. /\ m # c
          /\ m <= made \/ (job.from # Nothing /\ m = id /\ thread[c] # job.seed)
          /\ thread[m] # Nothing =>
                /\ thread[c] # thread[m]
                /\ \A o \in Ids : Kept(o) /\ thread[o] = thread[m] => o <= m
      BY <3>1, <1>t DEF LineageInv, ParentInv
    <3>3. m <= made'
      BY <3>1, <3>2, <1>n, <1>k, IdsAreNumbers
    <3>4. CASE m = id
      <4> SUFFICES ASSUME own # Nothing
                   PROVE  /\ thread[c] # own
                          /\ \A o \in Ids : Kept(o)' /\ thread'[o] = own => o <= m
        BY <3>1, <3>2, <3>3, <3>4, <1>v
      <4>1. thread[c] # own
        <5>1. CASE thread[id] # Nothing
          BY <5>1, <1>g, <3>2, <3>4
        <5>2. CASE thread[id] = Nothing /\ job.took
          BY <5>2, <1>i, <1>w
        <5>3. CASE ~job.took
          <6>1. job.from # Nothing /\ thread[c] # job.seed
            BY <5>3, <3>2, <3>4, <1>i, <1>k
          <6> QED BY <6>1, <1>w DEF LineageInv, FromInv
        <5> QED BY <5>1, <5>2, <5>3
      <4>2. \A o \in Ids : Kept(o)' /\ thread'[o] = own => o <= m
        BY <3>4, <1>f, <1>r, <1>v, <1>n, IdsAreNumbers
      <4> QED BY <4>1, <4>2
    <3>5. CASE m # id
      <4> SUFFICES ASSUME thread[m] # Nothing
                   PROVE  \A o \in Ids : Kept(o)' /\ thread'[o] = thread[m] => o <= m
        BY <3>1, <3>2, <3>3, <3>5, <1>v
      <4>1. \A o \in Ids : Kept(o) /\ o # id /\ thread[o] = thread[m] => o <= m
        BY <3>2
      <4>2. ASSUME own = thread[m] PROVE id <= m
        <5>1. job.seed # Nothing /\ own = job.seed
          BY <4>2, <3>1, <1>w
        <5>2. CASE job.took
          <6>1. Kept(id) /\ thread[id] = thread[m]
            BY <5>1, <5>2, <4>2, <1>i DEF Kept
          <6> QED BY <6>1, <3>2, <1>i
        <5>3. CASE ~job.took
          <6>1. Kept(m)
            BY <3>1 DEF LineageInv, BlankInv
          <6>2. m <= job.from
            BY <5>1, <5>3, <6>1, <4>2, <3>1, <1>t DEF LineageInv, SeedInv
          <6>3. job.from # Nothing /\ job.from \in Ids
            BY <6>2, <3>1, <1>t, IdsAreNumbers DEF JobType
          <6>4. Kept(job.from) /\ thread[job.from] = thread[m] /\ parent[c] # job.from
            BY <6>3, <5>1, <4>2, <3>1, <1>t DEF LineageInv, FromInv, Kept
          <6>5. job.from <= m
            BY <6>3, <6>4, <3>2
          <6> QED BY <6>2, <6>3, <6>4, <6>5, <3>1, IdsAreNumbers
        <5> QED BY <5>2, <5>3
      <4> QED BY <4>1, <4>2, <1>r, <1>v, <1>i
    <3> QED BY <3>4, <3>5
  <2> QED BY <2>1, <2>2
<1>6. JobInv' /\ SeedInv' /\ FromInv' /\ HeirInv'
  BY <1>t DEF JobInv, SeedInv, FromInv, HeirInv, Idle
<1> QED BY <1>1, <1>2, <1>3, <1>4, <1>5, <1>6 DEF LineageInv

\* Every step keeps the invariant.
LEMMA LineageSteps ==
    ASSUME Undisturbed, LineageInv, [LineageNext]_lineageVars
    PROVE  LineageInv'
<1>1. CASE LineageNext
  BY <1>1, RequestKeeps, MatchKeeps, RepointKeeps, FailKeeps, InsertKeeps, EndKeeps,
     ClosingKeeps, RestartKeeps DEF LineageNext
<1>2. CASE UNCHANGED lineageVars
  <2>1. Untouched
    BY <1>2 DEF lineageVars, recordVars, Untouched, Kept, Runs, Known
  <2>u. UNCHANGED <<live, filed, over, thread, parent, resumedTo, made, job, closing>>
    BY <1>2 DEF lineageVars, recordVars
  <2>2. LineageTypeInv'
    BY <2>u DEF LineageInv, LineageTypeInv, LineageTypeOK, Known
  <2>3. JobInv' /\ FromInv' /\ HeirInv'
    BY <2>u, <2>1 DEF LineageInv, JobInv, FromInv, HeirInv, Untouched, Known
  <2>4. BlankInv' /\ LastInv' /\ ParentInv'
    BY <2>u, <2>1 DEF LineageInv, BlankInv, LastInv, ParentInv, Untouched
  <2>5. MarkInv'
    BY <2>u DEF LineageInv, MarkInv, Between, Kept, Known
  <2>6. SeedInv'
    BY <2>u DEF LineageInv, SeedInv, Quiet, Kept, Runs, Known
  <2> QED BY <2>2, <2>3, <2>4, <2>5, <2>6 DEF LineageInv
<1> QED BY <1>1, <1>2

\* The invariant holds in every state (daemon.rs:4990-5336).
THEOREM LineageInvariance == Undisturbed => (LineageSpec => []LineageInv)
<1>1. ASSUME Undisturbed PROVE LineageSpec => []LineageInv
  <2>1. LineageInit => LineageInv
    BY <1>1, LineageStarts
  <2>2. LineageInv /\ [LineageNext]_lineageVars => LineageInv'
    BY <1>1, LineageSteps
  <2> QED BY <2>1, <2>2, PTL DEF LineageSpec
<1> QED BY <1>1

\* OnePlace: no two running sessions hold one conversation, whichever number it was
\* asked for under (archived_resume_match, daemon.rs:5064-5082).
THEOREM InOnePlace == Undisturbed => (LineageSpec => []OnePlace)
<1> SUFFICES ASSUME Undisturbed PROVE LineageSpec => []OnePlace
  OBVIOUS
<1>1. LineageInv => OnePlace
  <2> SUFFICES ASSUME LineageInv PROVE OnePlace
    OBVIOUS
  <2>1. ASSUME NEW one \in Ids, NEW other \in Ids, Runs(one), Runs(other),
               thread[one] = thread[other], thread[one] # Nothing
        PROVE  one = other
    <3>1. Kept(one) /\ Kept(other)
      BY <2>1, KeptAreIds DEF LineageInv
    <3>2. one <= other /\ other <= one
      BY <2>1, <3>1 DEF LineageInv, LastInv
    <3> QED BY <3>2, IdsAreNumbers
  <2> QED BY <2>1 DEF OnePlace
<1>2. LineageSpec => []LineageInv
  BY LineageInvariance
<1> QED BY <1>1, <1>2, PTL

\* FleetFollows: when no launch is under way, nothing hangs off a record a running
\* conversation has left (reparent_children, daemon.rs:4653-4664).
THEOREM FleetsFollow == Undisturbed => (LineageSpec => []FleetFollows)
<1> SUFFICES ASSUME Undisturbed PROVE LineageSpec => []FleetFollows
  OBVIOUS
<1>1. LineageInv => FleetFollows
  <2> SUFFICES ASSUME LineageInv PROVE FleetFollows
    OBVIOUS
  <2>1. ASSUME NEW sub \in Known, NEW master \in Known, NEW now \in Known,
               parent[sub] = master, Runs(now), thread[now] = thread[master],
               thread[now] # Nothing
        PROVE  now = master
    <3>1. /\ Kept(sub) /\ Kept(master) /\ Kept(now)
          /\ sub \in Ids /\ master \in Ids /\ now \in Ids
      BY <2>1, KeptAreIds DEF LineageInv, Kept
    <3>2. master <= now
      BY <2>1, <3>1 DEF LineageInv, LastInv
    <3>3. now <= master
      BY <2>1, <3>1, IdsAreNumbers DEF LineageInv, ParentInv
    <3> QED BY <3>1, <3>2, <3>3, IdsAreNumbers
  <2> QED BY <2>1 DEF FleetFollows
<1>2. LineageSpec => []LineageInv
  BY LineageInvariance
<1> QED BY <1>1, <1>2, PTL
=============================================================================
