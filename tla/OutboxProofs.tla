---------------------------- MODULE OutboxProofs ----------------------------
(***************************************************************************)
(* Proofs about Outbox, for any number of messages, sessions and daemons.  *)
(*                                                                         *)
(* A message is in one place at a time: with its request, in the outbox,   *)
(* or in the hands of the drainer.  As long as the file is written when    *)
(* the outbox is changed, the next daemon's outbox is what this one's was  *)
(* and a message that has been taken out is in no file.  That is why no    *)
(* message is typed twice, and why nobody hears both that it was typed     *)
(* and that it was not.                                                    *)
(***************************************************************************)
EXTENDS Outbox, FiniteSetTheorems, TLAPS

\* The file keeps to the outbox's limit, so that the next daemon's outbox does.
FileFits == Cardinality(file) <= OutboxLimit

WatchInv == TypeOK /\ FileFits /\ SomeoneWatches

\* What is still with its request, what a daemon holds and what the next one
\* would start from.
WithItsRequest(m) == request[m] \in {"new", "typing", "queueing"}
Held == file \cup due \cup lost

\* The file is the outbox, except when nobody holds an outbox; the drainer's
\* hands are empty but while it delivers.
FileInv ==
    /\ Running => file = outbox
    /\ ~Running => outbox \cup due \cup lost = {}
    /\ drainer # "delivering" => due \cup lost = {}

\* A message is in one place at a time, and what is on its way has neither
\* arrived nor been given up.
Placed(m) ==
    /\ m \in file => m \notin due \cup lost
    /\ m \in due => m \notin lost
    /\ WithItsRequest(m) => m \notin Held
    /\ m \in Held \/ WithItsRequest(m) => typed[m] = 0 /\ ~told[m]
    /\ request[m] # "over" => answer[m] = "none"
    /\ answer[m] \in {"failed", "refused"} => m \notin Held /\ typed[m] = 0
    /\ typed[m] <= 1 /\ (typed[m] > 0 => ~told[m])

IInv == FileInv /\ \A m \in Messages : Placed(m)

\* A message in the care of the daemon has been typed, sent back, or is held.
CareInv ==
    \A m \in Messages :
        answer[m] = "queued" \/ request[m] = "spawning"
            => m \in Held \/ typed[m] > 0 \/ told[m]

-----------------------------------------------------------------------------
\* Whatever is held is a finite set, and no larger than what it is part of.
LEMMA MessageSets ==
    /\ \A S \in SUBSET Messages : IsFiniteSet(S) /\ Cardinality(S) \in Nat
    /\ \A S \in SUBSET Messages : \A T \in SUBSET S : Cardinality(T) <= Cardinality(S)
    /\ \A S \in SUBSET Messages, m \in Messages :
           Cardinality(S) < OutboxLimit => Cardinality(S \cup {m}) <= OutboxLimit
    /\ Cardinality({}) <= OutboxLimit
<1>1. \A S \in SUBSET Messages : IsFiniteSet(S)
  BY FS_Subset, LimitsAssumption
<1>2. \A S \in SUBSET Messages : Cardinality(S) \in Nat
  BY <1>1, FS_CardinalityType
<1>3. \A S \in SUBSET Messages : \A T \in SUBSET S : Cardinality(T) <= Cardinality(S)
  BY <1>1, FS_Subset
<1>4. ASSUME NEW S \in SUBSET Messages, NEW m \in Messages,
             Cardinality(S) < OutboxLimit
      PROVE  Cardinality(S \cup {m}) <= OutboxLimit
  <2>1. Cardinality(S \cup {m}) = IF m \in S THEN Cardinality(S) ELSE Cardinality(S) + 1
    BY <1>1, FS_AddElement
  <2> QED BY <2>1, <1>2, <1>4, LimitsAssumption
<1>5. Cardinality({}) <= OutboxLimit
  BY FS_EmptySet, LimitsAssumption
<1> QED BY <1>1, <1>2, <1>3, <1>4, <1>5

\* Taking messages out leaves outbox and file within their type and limit.
LEMMA TakingOut ==
    ASSUME TypeOK, FileFits, NEW gone \in SUBSET Messages, TakeOut(gone)
    PROVE  /\ outbox' \in SUBSET outbox
           /\ file' \in SUBSET Messages
           /\ Cardinality(outbox') <= OutboxLimit /\ Cardinality(file') <= OutboxLimit
<1>1. outbox \in SUBSET Messages /\ file \in SUBSET Messages
      /\ Cardinality(outbox) <= OutboxLimit
  BY DEF TypeOK
<1>2. outbox \ gone \in SUBSET outbox
  OBVIOUS
<1>3. Cardinality(outbox \ gone) <= Cardinality(outbox)
  BY <1>1, <1>2, MessageSets
<1>4. Cardinality(outbox) \in Nat /\ Cardinality(outbox \ gone) \in Nat /\ OutboxLimit \in Nat
  BY <1>1, MessageSets, LimitsAssumption
<1>5. Cardinality(outbox \ gone) <= OutboxLimit
  BY <1>1, <1>3, <1>4
<1> QED
  BY <1>1, <1>2, <1>5 DEF TakeOut, SaveOutbox, queueVars, FileFits

\* Each step keeps the type, the limit and the watch.
LEMMA WatchInitially == Init => WatchInv
<1> SUFFICES ASSUME Init PROVE WatchInv
  OBVIOUS
<1> USE DEF Init
<1>1. TypeOK
  <2>1. screen \in [Sessions -> Screens]
    BY ShownAssumption
  <2>2. starts \in 1..MaxStarts /\ Cardinality(outbox) <= OutboxLimit
    BY MessageSets, LimitsAssumption
  <2>3. age \in [Messages -> Fresh..Expired]
    BY DEF Fresh, Expired
  <2> QED
    BY <2>1, <2>2, <2>3 DEF TypeOK, Drainer, Request, Answers
<1>2. FileFits
  BY MessageSets DEF FileFits
<1> QED BY <1>1, <1>2 DEF WatchInv, SomeoneWatches, Pending

\* What a request does leaves the type, the limit and the watch as they were.
LEMMA WatchRequest ==
    ASSUME WatchInv, NEW m \in Messages, RequestStep(m)
    PROVE  WatchInv'
<1> USE DEF WatchInv, queueVars, threadVars, worldVars, outcomeVars
<1>1. CASE DeliverDirect(m)
  BY <1>1 DEF DeliverDirect, Finish, TypeOK, FileFits, SomeoneWatches, Pending,
     Request, Answers
<1>2. CASE TypeNow(m)
  <2>1. typed' \in [Messages -> Nat]
    <3>1. typed \in [Messages -> Nat]
      BY DEF TypeOK
    <3>2. typed[m] + 1 \in Nat
      BY <3>1
    <3> QED BY <1>2, <3>1, <3>2 DEF TypeNow
  <2>2. request' \in [Messages -> Request] /\ answer' \in [Messages -> Answers]
    BY <1>2 DEF TypeNow, Finish, TypeOK, Request, Answers
  <2>3. TypeOK' /\ FileFits'
    BY <1>2, <2>1, <2>2 DEF TypeNow, TypeOK, FileFits
  <2>4. SomeoneWatches'
    BY <1>2 DEF TypeNow, Finish, TypeOK, SomeoneWatches, Pending
  <2> QED BY <2>3, <2>4
<1>3. CASE Queue(m)
  <2>1. CASE Full
    BY <1>3, <2>1 DEF Queue, Finish, TypeOK, FileFits, SomeoneWatches, Pending,
       Request, Answers
  <2>2. CASE ~Full
    <3>1. /\ SaveOutbox(outbox \cup {m})
          /\ request' = [request EXCEPT ![m] = "spawning"]
          /\ UNCHANGED <<daemon, starts, threadVars, age, worldVars, typed, told, answer>>
      BY <1>3, <2>2 DEF Queue
    <3>2. /\ outbox \in SUBSET Messages
          /\ Cardinality(outbox) \in Nat /\ OutboxLimit \in Nat
      BY MessageSets, LimitsAssumption DEF TypeOK
    <3>3. Cardinality(outbox) < OutboxLimit
      BY <2>2, <3>2 DEF Full
    <3>4. Cardinality(outbox \cup {m}) <= OutboxLimit
      BY <3>2, <3>3, MessageSets
    <3>5. TypeOK' /\ FileFits'
      BY <3>1, <3>4 DEF SaveOutbox, TypeOK, FileFits, Request
    <3>6. request'[m] = "spawning"
      BY <3>1 DEF TypeOK
    <3> QED BY <3>5, <3>6 DEF SomeoneWatches
  <2> QED BY <2>1, <2>2
<1>4. CASE Spawn(m)
  <2>1. TypeOK' /\ FileFits'
    BY <1>4 DEF Spawn, SpawnOutboxDrainer, Finish, TypeOK, FileFits, Request, Answers,
       Drainer
  <2>2. SomeoneWatches'
    BY <1>4 DEF Spawn, SpawnOutboxDrainer, SomeoneWatches, Pending, TypeOK
  <2> QED BY <2>1, <2>2
<1>5. CASE QueueSeedPrompt(m)
  BY <1>5 DEF QueueSeedPrompt, TypeOK, FileFits, SomeoneWatches, Pending, Request
<1> QED BY <1>1, <1>2, <1>3, <1>4, <1>5 DEF RequestStep

\* So does what the drainer does, which lowers its flag last.
LEMMA WatchDrainer ==
    ASSUME WatchInv, DrainerStep \/ LookOnceMore
    PROVE  WatchInv'
<1> USE DEF WatchInv, queueVars, threadVars, worldVars, outcomeVars
<1>1. CASE Look
  BY <1>1 DEF Look, TypeOK, FileFits, SomeoneWatches, Pending, Drainer
<1>2. CASE Pick
  <2>1. PICK quiet \in [Sessions -> BOOLEAN] :
          LET dead  == {m \in outbox : session[To[m]] # "live"}
              ready == {m \in outbox \ dead : IsDue(m, screen[To[m]], quiet[To[m]])}
              late  == TooLate(outbox \ dead, ready)
          IN /\ due' = ready /\ lost' = dead \cup late
             /\ TakeOut(dead \cup ready \cup late)
    BY <1>2 DEF Pick
  <2>2. PICK gone \in SUBSET Messages : TakeOut(gone)
    BY <2>1 DEF TypeOK, TooLate
  <2>3. due' \in SUBSET Messages /\ lost' \in SUBSET Messages
    BY <2>1 DEF TypeOK, TooLate
  <2>4. /\ outbox' \in SUBSET outbox /\ file' \in SUBSET Messages
        /\ Cardinality(outbox') <= OutboxLimit /\ Cardinality(file') <= OutboxLimit
    BY <2>2, TakingOut
  <2>5. TypeOK' /\ FileFits'
    BY <1>2, <2>3, <2>4 DEF Pick, TypeOK, FileFits, Drainer
  <2>6. flag'
    BY <1>2 DEF Pick, TypeOK
  <2> QED BY <2>5, <2>6 DEF SomeoneWatches
<1>3. CASE TypeNext
  <2>1. PICK m \in due :
          /\ due' = due \ {m}
          /\ \/ typed' = [typed EXCEPT ![m] = @ + 1] /\ UNCHANGED lost
             \/ lost' = lost \cup {m} /\ UNCHANGED typed
    BY <1>3 DEF TypeNext
  <2>2. typed' \in [Messages -> Nat]
    <3>1. m \in Messages /\ typed \in [Messages -> Nat]
      BY DEF TypeOK
    <3>2. typed[m] + 1 \in Nat
      BY <3>1
    <3> QED BY <2>1, <3>1, <3>2
  <2>3. due' \in SUBSET Messages /\ lost' \in SUBSET Messages
    BY <2>1 DEF TypeOK
  <2>4. TypeOK' /\ FileFits'
    BY <1>3, <2>2, <2>3 DEF TypeNext, TypeOK, FileFits
  <2>5. SomeoneWatches'
    BY <1>3 DEF TypeNext, SomeoneWatches, Pending
  <2> QED BY <2>4, <2>5
<1>4. CASE Bounce
  BY <1>4 DEF Bounce, TypeOK, FileFits, SomeoneWatches, Pending
<1>5. CASE PassDone
  BY <1>5 DEF PassDone, TypeOK, FileFits, SomeoneWatches, Pending, Drainer
<1>6. CASE LowerFlag
  <2>1. leaving' \in Nat /\ leaving' > 0
    <3>1. leaving \in Nat /\ leaving' = leaving + 1
      BY <1>6 DEF LowerFlag, TypeOK
    <3> QED BY <3>1
  <2>2. TypeOK' /\ FileFits'
    BY <1>6, <2>1 DEF LowerFlag, TypeOK, FileFits, Drainer
  <2> QED BY <2>1, <2>2 DEF SomeoneWatches
<1>7. CASE LookOnceMore
  <2>1. leaving' \in Nat
    <3>1. leaving \in Nat /\ leaving > 0 /\ leaving' = leaving - 1
      BY <1>7 DEF LookOnceMore, TypeOK
    <3> QED BY <3>1
  <2>2. flag' \in BOOLEAN /\ drainer' \in Drainer /\ flag' = (drainer' # "none")
    BY <1>7 DEF LookOnceMore, SpawnOutboxDrainer, TypeOK, Drainer
  <2>3. TypeOK' /\ FileFits'
    BY <1>7, <2>1, <2>2 DEF LookOnceMore, TypeOK, FileFits
  <2>4. SomeoneWatches'
    BY <1>7 DEF LookOnceMore, SpawnOutboxDrainer, TypeOK, SomeoneWatches, Pending
  <2> QED BY <2>3, <2>4
<1> QED BY <1>1, <1>2, <1>3, <1>4, <1>5, <1>6, <1>7 DEF DrainerStep

\* So do the ends and starts of daemons: one that starts looks at its file.
LEMMA WatchDaemon ==
    ASSUME WatchInv, StandDown \/ Stop \/ Start
    PROVE  WatchInv'
<1> USE DEF WatchInv, queueVars, threadVars, worldVars, outcomeVars
<1>1. CASE StandDown
  BY <1>1 DEF StandDown, TypeOK, FileFits, SomeoneWatches
<1>2. CASE Stop
  <2>1. request' \in [Messages -> Request]
    BY <1>2 DEF Stop, TypeOK, Request
  <2> QED
    BY <1>2, <2>1, MessageSets DEF Stop, TypeOK, FileFits, SomeoneWatches, Drainer
<1>3. CASE Start
  <2>1. starts' \in 1..MaxStarts
    BY <1>3, LimitsAssumption DEF Start, TypeOK
  <2>2. flag' \in BOOLEAN /\ drainer' \in Drainer /\ flag' = (drainer' # "none")
    BY <1>3 DEF Start, Drainer
  <2>3. TypeOK' /\ FileFits'
    BY <1>3, <2>1, <2>2 DEF Start, TypeOK, FileFits
  <2>4. SomeoneWatches'
    BY <1>3 DEF Start, SomeoneWatches, Pending
  <2> QED BY <2>3, <2>4
<1> QED BY <1>1, <1>2, <1>3

\* And so does the world.
LEMMA WatchWorld ==
    ASSUME WatchInv,
           \/ \E s \in Sessions : \/ \E what \in Shown : Show(s, what)
                                  \/ \E how \in {"ended", "gone"} : End(s, how)
           \/ Wait
    PROVE  WatchInv'
<1> USE DEF WatchInv, queueVars, threadVars, worldVars, outcomeVars
<1>1. ASSUME NEW s \in Sessions, NEW what \in Shown, Show(s, what) PROVE WatchInv'
  BY <1>1, ShownAssumption DEF Show, TypeOK, FileFits, SomeoneWatches, Pending
<1>2. ASSUME NEW s \in Sessions, NEW how \in {"ended", "gone"}, End(s, how)
      PROVE  WatchInv'
  BY <1>2 DEF End, TypeOK, FileFits, SomeoneWatches, Pending
<1>3. CASE Wait
  <2>1. age' = [m \in Messages |->
                  IF m \in outbox \cup file /\ age[m] < Expired THEN age[m] + 1 ELSE age[m]]
    BY <1>3 DEF Wait, TypeOK
  <2>2. \A m \in Messages : age[m] \in 0..3
    BY DEF TypeOK, Fresh, Expired
  <2>3. \A m \in Messages :
           (IF m \in outbox \cup file /\ age[m] < 3 THEN age[m] + 1 ELSE age[m]) \in 0..3
    BY <2>2
  <2>4. age' \in [Messages -> Fresh..Expired]
    BY <2>1, <2>3 DEF Fresh, Expired
  <2> QED BY <1>3, <2>4 DEF Wait, TypeOK, FileFits, SomeoneWatches, Pending
<1> QED BY <1>1, <1>2, <1>3

\* The invariant of every behavior of Outbox, whatever goes wrong besides.
LEMMA Watched == Spec => []WatchInv
<1>1. ASSUME WatchInv, UNCHANGED vars PROVE WatchInv'
  <2> USE <1>1 DEF WatchInv, vars, queueVars, threadVars, worldVars, outcomeVars
  <2>1. TypeOK' /\ FileFits'
    BY DEF TypeOK, FileFits
  <2>2. SomeoneWatches'
    BY DEF SomeoneWatches, Pending
  <2> QED BY <2>1, <2>2
<1>2. WatchInv /\ [Next]_vars => WatchInv'
  BY <1>1, WatchRequest, WatchDrainer, WatchDaemon, WatchWorld DEF Next
<1> QED BY WatchInitially, <1>2, PTL DEF Spec

\* Every variable keeps its type and the outbox its limit, from one daemon to
\* the next, whatever goes wrong besides.
THEOREM TypeCorrect == Spec => []TypeOK
<1>1. WatchInv => TypeOK
  BY DEF WatchInv
<1> QED BY Watched, <1>1, PTL

\* As long as a daemon serves and something waits, some thread will see it.
THEOREM AlwaysWatched == Spec => []SomeoneWatches
<1>1. WatchInv => SomeoneWatches
  BY DEF WatchInv
<1> QED BY Watched, <1>1, PTL

-----------------------------------------------------------------------------
(***************************************************************************)
(* From here on every change of the outbox reaches the file.               *)
(***************************************************************************)
FilesAreSaved == "file not saved" \notin Faults

\* Then what is saved is what is on file.
LEMMA Saving ==
    ASSUME FilesAreSaved, NEW queue, SaveOutbox(queue)
    PROVE  outbox' = queue /\ file' = queue
BY DEF FilesAreSaved, SaveOutbox

\* At first every message is with its request.
LEMMA PlacedInitially == Init => IInv
BY DEF Init, IInv, FileInv, Placed, Held, WithItsRequest, Running

\* A request that goes on leaves every message in one place.
LEMMA PlacedRequest ==
    ASSUME TypeOK, IInv, FilesAreSaved, NEW m \in Messages, RequestStep(m)
    PROVE  IInv'
<1> USE DEF IInv, queueVars, threadVars, worldVars, outcomeVars
<1>1. CASE DeliverDirect(m)
  <2>1. FileInv'
    BY <1>1 DEF DeliverDirect, FileInv, Running
  <2>2. ASSUME NEW n \in Messages PROVE Placed(n)'
    BY <1>1 DEF DeliverDirect, Finish, TypeOK, Placed, Held, WithItsRequest
  <2> QED BY <2>1, <2>2
<1>2. CASE TypeNow(m)
  <2>1. FileInv'
    BY <1>2 DEF TypeNow, FileInv, Running
  <2>2. ASSUME NEW n \in Messages PROVE Placed(n)'
    <3>1. typed \in [Messages -> Nat] /\ typed[m] = 0 /\ request[m] = "typing"
      BY <1>2 DEF TypeNow, TypeOK, Placed, WithItsRequest
    <3>2. typed'[m] \in {0, 1} /\ (n # m => typed'[n] = typed[n])
      BY <1>2, <3>1 DEF TypeNow
    <3>3. /\ request' = [request EXCEPT ![m] = "over"]
          /\ \/ answer' = [answer EXCEPT ![m] = "delivered"]
             \/ answer' = [answer EXCEPT ![m] = "failed"] /\ typed' = typed
          /\ UNCHANGED <<file, due, lost, told>>
      BY <1>2 DEF TypeNow, Finish
    <3>4. request \in [Messages -> Request] /\ answer \in [Messages -> Answers]
      BY DEF TypeOK
    <3>5. CASE n = m
      BY <3>1, <3>2, <3>3, <3>4, <3>5 DEF Placed, Held, WithItsRequest
    <3>6. CASE n # m
      <4>1. UNCHANGED <<request[n], answer[n], typed[n], told, file, due, lost>>
        BY <3>2, <3>3, <3>4, <3>6
      <4> QED BY <4>1 DEF Placed, Held, WithItsRequest
    <3> QED BY <3>5, <3>6
  <2> QED BY <2>1, <2>2
<1>3. CASE Queue(m)
  <2>1. CASE Full
    <3>1. FileInv'
      BY <1>3, <2>1 DEF Queue, FileInv, Running
    <3>2. ASSUME NEW n \in Messages PROVE Placed(n)'
      BY <1>3, <2>1 DEF Queue, Finish, TypeOK, Placed, Held, WithItsRequest
    <3> QED BY <3>1, <3>2
  <2>2. CASE ~Full
    <3>1. /\ outbox' = outbox \cup {m} /\ file' = outbox \cup {m}
          /\ request' = [request EXCEPT ![m] = "spawning"]
      BY <1>3, <2>2, Saving DEF Queue
    <3>2. FileInv'
      BY <1>3, <2>2, <3>1 DEF Queue, FileInv, Running
    <3>3. file = outbox
      BY <1>3 DEF Queue, FileInv
    <3>4. ASSUME NEW n \in Messages PROVE Placed(n)'
      BY <1>3, <2>2, <3>1, <3>3 DEF Queue, TypeOK, Placed, Held, WithItsRequest
    <3> QED BY <3>2, <3>4
  <2> QED BY <2>1, <2>2
<1>4. CASE Spawn(m)
  <2>1. FileInv'
    BY <1>4 DEF Spawn, SpawnOutboxDrainer, TypeOK, FileInv, Running
  <2>2. ASSUME NEW n \in Messages PROVE Placed(n)'
    BY <1>4 DEF Spawn, Finish, TypeOK, Placed, Held, WithItsRequest
  <2> QED BY <2>1, <2>2
<1>5. CASE QueueSeedPrompt(m)
  <2>1. FileInv'
    BY <1>5 DEF QueueSeedPrompt, FileInv, Running
  <2>2. ASSUME NEW n \in Messages PROVE Placed(n)'
    BY <1>5 DEF QueueSeedPrompt, TypeOK, Placed, Held, WithItsRequest
  <2> QED BY <2>1, <2>2
<1> QED BY <1>1, <1>2, <1>3, <1>4, <1>5 DEF RequestStep

\* What a pass takes out it takes into its hands, all of it and nothing twice.
LEMMA PickTakes ==
    ASSUME TypeOK, IInv, FilesAreSaved, Pick
    PROVE  /\ due \cup lost = {} /\ file = outbox
           /\ due' \cap lost' = {} /\ due' \cup lost' \subseteq file
           /\ file' = file \ (due' \cup lost') /\ outbox' = file'
<1>1. PICK quiet \in [Sessions -> BOOLEAN] :
        LET dead  == {m \in outbox : session[To[m]] # "live"}
            ready == {m \in outbox \ dead : IsDue(m, screen[To[m]], quiet[To[m]])}
            late  == TooLate(outbox \ dead, ready)
        IN /\ due' = ready /\ lost' = dead \cup late
           /\ TakeOut(dead \cup ready \cup late)
  BY DEF Pick
<1> DEFINE dead  == {m \in outbox : session[To[m]] # "live"}
           ready == {m \in outbox \ dead : IsDue(m, screen[To[m]], quiet[To[m]])}
           late  == TooLate(outbox \ dead, ready)
<1>2. due' = ready /\ lost' = dead \cup late /\ TakeOut(dead \cup ready \cup late)
  BY <1>1
<1>3. late \subseteq (outbox \ dead) \ ready
  BY DEF TooLate
<1>4. ready \subseteq outbox \ dead /\ dead \subseteq outbox
  OBVIOUS
<1>5. due \cup lost = {} /\ file = outbox
  BY DEF Pick, IInv, FileInv
<1> HIDE DEF dead, ready, late
<1>6. TakeOut(due' \cup lost')
  <2>1. dead \cup ready \cup late = due' \cup lost'
    BY <1>2
  <2> QED BY <1>2, <2>1
<1>7. outbox' = outbox \ (due' \cup lost') /\ file' = outbox \ (due' \cup lost')
  <2>1. CASE due' \cup lost' = {}
    BY <1>5, <1>6, <2>1 DEF TakeOut, queueVars
  <2>2. CASE due' \cup lost' # {}
    BY <1>6, <2>2, Saving DEF TakeOut
  <2> QED BY <2>1, <2>2
<1> QED BY <1>2, <1>3, <1>4, <1>5, <1>7

\* So does the drainer, which has a message in hand only when no file has it.
LEMMA PlacedDrainer ==
    ASSUME TypeOK, IInv, FilesAreSaved, DrainerStep \/ LookOnceMore
    PROVE  IInv'
<1> USE DEF IInv, queueVars, threadVars, worldVars, outcomeVars
<1>1. CASE Look
  <2>1. FileInv'
    BY <1>1 DEF Look, FileInv, Running
  <2>2. ASSUME NEW n \in Messages PROVE Placed(n)'
    BY <1>1 DEF Look, Placed, Held, WithItsRequest
  <2> QED BY <2>1, <2>2
<1>2. CASE Pick
  <2>1. /\ due \cup lost = {} /\ file = outbox
        /\ due' \cap lost' = {} /\ due' \cup lost' \subseteq file
        /\ file' = file \ (due' \cup lost') /\ outbox' = file'
    BY <1>2, PickTakes
  <2>2. FileInv'
    BY <1>2, <2>1 DEF Pick, FileInv, Running
  <2>3. Held' = Held
    BY <2>1 DEF Held
  <2>4. ASSUME NEW n \in Messages PROVE Placed(n)'
    <3>1. UNCHANGED <<request, typed, told, answer>>
      BY <1>2 DEF Pick
    <3>2. /\ n \in file' => n \notin due' \cup lost'
          /\ n \in due' => n \notin lost'
      BY <2>1
    <3> HIDE DEF Held
    <3> QED BY <2>3, <3>1, <3>2 DEF Placed, WithItsRequest
  <2> QED BY <2>2, <2>4
<1>3. CASE TypeNext
  <2>1. PICK m \in due :
          /\ due' = due \ {m}
          /\ \/ typed' = [typed EXCEPT ![m] = @ + 1] /\ UNCHANGED lost
             \/ lost' = lost \cup {m} /\ UNCHANGED typed
    BY <1>3 DEF TypeNext
  <2>2. FileInv'
    BY <1>3, <2>1 DEF TypeNext, FileInv, Running
  <2>3. m \in Messages /\ typed \in [Messages -> Nat]
    BY DEF TypeOK
  <2>4. ASSUME NEW n \in Messages PROVE Placed(n)'
    BY <1>3, <2>1, <2>3 DEF TypeNext, Placed, Held, WithItsRequest
  <2> QED BY <2>2, <2>4
<1>4. CASE Bounce
  <2>1. PICK m \in lost : lost' = lost \ {m} /\ told' = [told EXCEPT ![m] = TRUE]
    BY <1>4 DEF Bounce
  <2>2. FileInv'
    BY <1>4, <2>1 DEF Bounce, FileInv, Running
  <2>3. ASSUME NEW n \in Messages PROVE Placed(n)'
    <3>1. m \in Messages /\ typed[m] = 0
      BY DEF TypeOK, Placed, Held
    <3>2. UNCHANGED <<file, due, request, answer, typed>>
      BY <1>4 DEF Bounce
    <3>3. CASE n = m
      BY <2>1, <3>1, <3>2, <3>3 DEF Placed, Held, WithItsRequest
    <3>4. CASE n # m
      <4>1. told'[n] = told[n] /\ (n \in lost' <=> n \in lost)
        BY <2>1, <3>4 DEF TypeOK
      <4> QED BY <3>2, <4>1 DEF Placed, Held, WithItsRequest
    <3> QED BY <3>3, <3>4
  <2> QED BY <2>2, <2>3
<1>5. CASE PassDone
  <2>1. FileInv'
    BY <1>5 DEF PassDone, FileInv, Running
  <2>2. ASSUME NEW n \in Messages PROVE Placed(n)'
    BY <1>5 DEF PassDone, Placed, Held, WithItsRequest
  <2> QED BY <2>1, <2>2
<1>6. CASE LowerFlag
  <2>1. FileInv'
    BY <1>6 DEF LowerFlag, FileInv, Running
  <2>2. ASSUME NEW n \in Messages PROVE Placed(n)'
    BY <1>6 DEF LowerFlag, Placed, Held, WithItsRequest
  <2> QED BY <2>1, <2>2
<1>7. CASE LookOnceMore
  <2>1. FileInv'
    BY <1>7 DEF LookOnceMore, SpawnOutboxDrainer, TypeOK, FileInv, Running
  <2>2. ASSUME NEW n \in Messages PROVE Placed(n)'
    BY <1>7 DEF LookOnceMore, Placed, Held, WithItsRequest
  <2> QED BY <2>1, <2>2
<1> QED BY <1>1, <1>2, <1>3, <1>4, <1>5, <1>6, <1>7 DEF DrainerStep

\* So do the end of a daemon, which forgets what it held, and the next one's
\* start from the file.
LEMMA PlacedDaemon ==
    ASSUME TypeOK, IInv, StandDown \/ Stop \/ Start
    PROVE  IInv'
<1> USE DEF IInv, queueVars, threadVars, worldVars, outcomeVars
<1>1. CASE StandDown
  <2>1. FileInv'
    BY <1>1 DEF StandDown, FileInv, Running
  <2>2. ASSUME NEW n \in Messages PROVE Placed(n)'
    BY <1>1 DEF StandDown, Placed, Held, WithItsRequest
  <2> QED BY <2>1, <2>2
<1>2. CASE Stop
  <2>1. FileInv'
    BY <1>2 DEF Stop, FileInv, Running
  <2>2. ASSUME NEW n \in Messages PROVE Placed(n)'
    BY <1>2 DEF Stop, TypeOK, Placed, Held, WithItsRequest
  <2> QED BY <2>1, <2>2
<1>3. CASE Start
  <2>1. FileInv'
    BY <1>3 DEF Start, FileInv, Running
  <2>2. ASSUME NEW n \in Messages PROVE Placed(n)'
    BY <1>3 DEF Start, Placed, Held, WithItsRequest
  <2> QED BY <2>1, <2>2
<1> QED BY <1>1, <1>2, <1>3

\* The world moves no message.
LEMMA PlacedElsewhere ==
    ASSUME IInv, UNCHANGED <<daemon, outbox, file, drainer, due, lost, request, answer,
                             typed, told>>
    PROVE  IInv'
BY DEF IInv, FileInv, Running, Placed, Held, WithItsRequest

\* The invariant of a daemon that can write its file.
LEMMA Places == FilesAreSaved => (Spec => []IInv)
<1> SUFFICES ASSUME FilesAreSaved PROVE Spec => []IInv
  OBVIOUS
<1>1. ASSUME TypeOK, IInv, [Next]_vars PROVE IInv'
  <2>1. CASE \/ \E s \in Sessions : \/ \E what \in Shown : Show(s, what)
                                   \/ \E how \in {"ended", "gone"} : End(s, how)
             \/ Wait \/ UNCHANGED vars
    <3>1. UNCHANGED <<daemon, outbox, file, drainer, due, lost, request, answer, typed, told>>
      BY <2>1 DEF Show, End, Wait, vars, queueVars, threadVars, worldVars, outcomeVars
    <3> QED BY <1>1, <3>1, PlacedElsewhere
  <2> QED
    BY <1>1, <2>1, PlacedRequest, PlacedDrainer, PlacedDaemon DEF Next
<1>2. TypeOK /\ IInv /\ [Next]_vars => IInv'
  BY <1>1
<1> QED BY PlacedInitially, TypeCorrect, <1>2, PTL DEF Spec

\* No message is typed twice, however many daemons hold it one after another.
THEOREM NeverTypedTwice == FilesAreSaved => (Spec => []TypedOnce)
<1>1. IInv => TypedOnce
  BY DEF IInv, Placed, TypedOnce
<1> QED BY Places, <1>1, PTL

\* Nobody is told that a message never arrived that did.
THEOREM NoMessageDenied == FilesAreSaved => (Spec => []NoFalseAlarm)
<1>1. IInv => NoFalseAlarm
  BY DEF IInv, Placed, NoFalseAlarm
<1> QED BY Places, <1>1, PTL

-----------------------------------------------------------------------------
\* A step takes no message out of the daemon's care, if no daemon stops with
\* messages in its drainer's hands.
LEMMA CareKept ==
    ASSUME Faults = {}, TypeOK, IInv, CareInv, [Next]_vars
    PROVE  CareInv'
<1>1. FilesAreSaved
  BY DEF FilesAreSaved
<1> SUFFICES ASSUME NEW n \in Messages,
                    answer'[n] = "queued" \/ request'[n] = "spawning"
             PROVE  (n \in Held \/ typed[n] > 0 \/ told[n])'
  BY DEF CareInv
<1> USE DEF CareInv, queueVars, threadVars, worldVars, outcomeVars
<1>2. ASSUME NEW m \in Messages, RequestStep(m)
      PROVE  (n \in Held \/ typed[n] > 0 \/ told[n])'
  <2>1. CASE DeliverDirect(m)
    BY <2>1 DEF DeliverDirect, Finish, TypeOK, Held
  <2>2. CASE TypeNow(m)
    <3>1. typed \in [Messages -> Nat]
      BY DEF TypeOK
    <3> QED BY <2>2, <3>1 DEF TypeNow, Finish, TypeOK, Held
  <2>3. CASE Queue(m) /\ Full
    BY <2>3 DEF Queue, Finish, TypeOK, Held
  <2>4. CASE Queue(m) /\ ~Full
    <3>1. file' = outbox \cup {m} /\ file = outbox
      BY <1>1, <2>4, Saving DEF Queue, IInv, FileInv
    <3> QED BY <2>4, <3>1 DEF Queue, TypeOK, Held
  <2>5. CASE Spawn(m)
    BY <2>5 DEF Spawn, Finish, TypeOK, Held
  <2>6. CASE QueueSeedPrompt(m)
    BY <2>6 DEF QueueSeedPrompt, TypeOK, Held
  <2> QED BY <1>2, <2>1, <2>2, <2>3, <2>4, <2>5, <2>6 DEF RequestStep
<1>3. CASE Pick
  <2>1. Held' = Held
    BY <1>1, <1>3, PickTakes DEF Held
  <2> QED BY <1>3, <2>1 DEF Pick
<1>4. CASE TypeNext
  <2>1. typed \in [Messages -> Nat] /\ due \in SUBSET Messages
    BY DEF TypeOK
  <2> QED BY <1>4, <2>1 DEF TypeNext, Held
<1>5. CASE Bounce
  BY <1>5 DEF Bounce, TypeOK, Held
<1>6. CASE Stop
  <2>1. due \cup lost = {}
    BY <1>6 DEF Stop
  <2>2. answer[n] = "queued"
    BY <1>6 DEF Stop
  <2> QED BY <1>6, <2>1, <2>2 DEF Stop, Held
<1>7. CASE \/ Look \/ PassDone \/ LowerFlag \/ LookOnceMore \/ StandDown \/ Start
           \/ \E s \in Sessions : \/ \E what \in Shown : Show(s, what)
                                 \/ \E how \in {"ended", "gone"} : End(s, how)
           \/ Wait \/ UNCHANGED vars
  <2>1. UNCHANGED <<file, due, lost, request, answer, typed, told>>
    BY <1>7 DEF Look, PassDone, LowerFlag, LookOnceMore, StandDown, Start, Show, End,
       Wait, vars
  <2> QED BY <2>1 DEF Held
<1> QED BY <1>2, <1>3, <1>4, <1>5, <1>6, <1>7 DEF Next, DrainerStep

\* A message whose sender was told that it waits is on file, in the drainer's
\* hands, typed or sent back.
THEOREM NothingLost == Faults = {} => (Spec => []NothingSwallowed)
<1> SUFFICES ASSUME Faults = {} PROVE Spec => []NothingSwallowed
  OBVIOUS
<1>1. FilesAreSaved
  BY DEF FilesAreSaved
<1>2. Init => CareInv
  BY DEF Init, CareInv
<1>3. TypeOK /\ IInv /\ CareInv /\ [Next]_vars => CareInv'
  BY CareKept
<1>4. CareInv => NothingSwallowed
  BY DEF CareInv, NothingSwallowed, Held
<1> QED BY <1>1, <1>2, <1>3, <1>4, Places, TypeCorrect, PTL DEF Spec

=============================================================================
