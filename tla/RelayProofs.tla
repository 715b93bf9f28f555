---------------------------- MODULE RelayProofs -----------------------------
(***************************************************************************)
(* Proofs about Relay, for any agents, controllers, calls and tools.       *)
(*                                                                         *)
(* A call that has not been run is in one place: in an entry nobody has    *)
(* taken, or with the one controller that took it.  A restart, a retry or  *)
(* a controller that quits removes it from there and never copies it,      *)
(* which is why no call is run twice.  An ask's number is above all those  *)
(* its controller ever gave, and an ask is opened for a job whose key had  *)
(* none open, which no step of another between the look and the ask        *)
(* changes.  A grant is given with the settling of one card and taken with *)
(* the run it let through, so that the runs had and owed are never more    *)
(* than the cards that were answered with a yes.                           *)
(***************************************************************************)
EXTENDS Relay, FiniteSetTheorems, TLAPS

InHand == {"park", "run", "spend", "answer"}

\* What a controller was handed and has not answered.
Carried(c) == round[c].jobs \cup ({round[c].job} \ {Nothing})

\* A controller has a job in hand where its stage says so, and calls are
\* numbered by the count of those made, queue or none.
StageInv ==
    /\ IsFiniteSet(entries) /\ next <= calls
    /\ \A c \in Controllers :
        /\ round[c].stage \in InHand => round[c].job # Nothing
        /\ round[c].stage \notin InHand => round[c].job = Nothing

\* An ask is on a card, cards' numbers are below the next, and one controller
\* gave no two of them.
CardInv ==
    /\ \A c \in Controllers : \A p \in pending[c] : [host |-> c, ask |-> p] \in cards
    /\ \A x \in cards : x.ask.number <= minted[x.host]
    /\ CardsDiffer

\* Whoever is about to ask finds none open for the same thing.
AskInv ==
    /\ OneAskAtATime
    /\ \A c \in Controllers : round[c].stage = "park" => ~OpenAsk(c, round[c].job.key)

\* A call has one entry and one carrier, and neither if it is still to be made;
\* what was not taken and what is still to be run was never run.
CallInv ==
    /\ \A e, f \in entries : e.job.call = f.job.call => e = f
    /\ \A c, d \in Controllers : \A i \in Carried(c), j \in Carried(d) :
           i.call = j.call => i = j /\ c = d
    /\ \A c \in Controllers : round[c].job \notin round[c].jobs
    /\ \A e \in entries, c \in Controllers :
           ~e.taken => \A j \in Carried(c) : j.call # e.job.call
    /\ \A e \in entries : e.job.call <= calls /\ (~e.taken => runs[e.job.call] = 0)
    /\ \A c \in Controllers :
        /\ \A j \in Carried(c) : j.call <= calls
        /\ \A j \in round[c].jobs : runs[j.call] = 0
        /\ round[c].stage \in {"park", "run"} => runs[round[c].job.call] = 0
    /\ \A n \in Call : runs[n] <= 1 /\ (n > calls => runs[n] = 0)

-----------------------------------------------------------------------------
\* Replacing each entry of a queue by one other leaves no more of them.
LEMMA Replacing ==
    ASSUME NEW S, IsFiniteSet(S), NEW f, DOMAIN f = S
    PROVE  /\ IsFiniteSet({f[x] : x \in S})
           /\ Cardinality({f[x] : x \in S}) <= Cardinality(S)
<1> DEFINE T == {f[x] : x \in S}
           g == [x \in S |-> f[x]]
<1>1. g \in Surjection(S, T)
  BY DEF Surjection
<1> QED BY <1>1, FS_Surjection

\* Handing out changes no entry but in its being taken, and leaves no more.
LEMMA HandingOut ==
    ASSUME NEW queue, IsFiniteSet(queue), NEW offered \in SUBSET queue
    PROVE  /\ IsFiniteSet(HandOut(queue, offered))
           /\ Cardinality(HandOut(queue, offered)) <= Cardinality(queue)
<1> DEFINE f == [e \in queue |-> IF e \in offered THEN [e EXCEPT !.taken = TRUE] ELSE e]
<1>1. HandOut(queue, offered) = {f[e] : e \in queue}
  BY DEF HandOut
<1>2. DOMAIN f = queue
  OBVIOUS
<1> HIDE DEF f
<1> QED BY <1>1, <1>2, Replacing

\* Nor does an answer.
LEMMA Completing ==
    ASSUME IsFiniteSet(entries), NEW job
    PROVE  IsFiniteSet(Complete(job)) /\ Cardinality(Complete(job)) <= Cardinality(entries)
<1> DEFINE f == [e \in entries |->
                   IF e.job.id = job.id THEN [e EXCEPT !.answer = job.call] ELSE e]
<1>1. Complete(job) = {f[e] : e \in entries}
  BY DEF Complete
<1>2. DOMAIN f = entries
  OBVIOUS
<1> HIDE DEF f
<1> QED BY <1>1, <1>2, Replacing

\* What is left when some entries have expired is no more than there was.
LEMMA Expiring ==
    ASSUME IsFiniteSet(entries), NEW rest \in SUBSET entries
    PROVE  IsFiniteSet(rest) /\ Cardinality(rest) <= Cardinality(entries)
BY FS_Subset

\* The next number is one above those given.
LEMMA Minting ==
    ASSUME TypeOK, CardInv, NEW c \in Controllers
    PROVE  Mint(c) = minted[c] + 1
<1> DEFINE S == {minted[c]} \cup Numbers(pending[c])
<1>1. minted[c] \in Nat /\ pending[c] \in SUBSET Ask
  BY DEF TypeOK
<1>2. \A p \in pending[c] : p.number \in Nat /\ p.number <= minted[c]
  BY <1>1 DEF CardInv, Ask
<1>3. \A n \in S : n \in Nat /\ n <= minted[c]
  BY <1>1, <1>2 DEF Numbers
<1>4. minted[c] \in S
  OBVIOUS
<1> HIDE DEF S
<1>5. PICK top \in S : \A n \in S : top >= n
  BY <1>1, <1>3, <1>4
<1>6. Max(S) \in S /\ \A n \in S : Max(S) >= n
  BY <1>5 DEF Max
<1>7. Max(S) = minted[c]
  BY <1>1, <1>3, <1>4, <1>6
<1> QED BY <1>7 DEF Mint, S

-----------------------------------------------------------------------------
\* What settling answers does to the ledger's types.
LEMMA Settling ==
    ASSUME TypeOK, NEW c \in Controllers, NEW answers,
           DOMAIN answers \subseteq pending[c], Settle(c, answers)
    PROVE  /\ pending' = [pending EXCEPT ![c] = @ \ DOMAIN answers]
           /\ pending' \in [Controllers -> SUBSET Ask]
           /\ once' \in [Controllers -> SUBSET Keys] /\ allow' \in [Controllers -> SUBSET Keys]
           /\ settled' \in [Controllers -> SUBSET Nat] /\ minted' = minted
<1>1. pending \in [Controllers -> SUBSET Ask] /\ settled \in [Controllers -> SUBSET Nat]
      /\ once \in [Controllers -> SUBSET Keys] /\ allow \in [Controllers -> SUBSET Keys]
  BY DEF TypeOK
<1>2. DOMAIN answers \subseteq Ask
  BY <1>1
<1>3. Numbers(DOMAIN answers) \subseteq Nat
  BY <1>2 DEF Numbers, Ask
<1>4. \A S \in SUBSET DOMAIN answers : {p.key : p \in S} \subseteq Keys
  BY <1>2 DEF Ask
<1> DEFINE For(verdicts) == {p \in DOMAIN answers : answers[p] \in verdicts}
           stands == {p \in For({"always"}) : p.key.tool \in Standing}
           oneRun == For({"yes", "always"}) \ stands
<1>5. {p.key : p \in oneRun} \subseteq Keys /\ {p.key : p \in stands} \subseteq Keys
  <2>1. oneRun \in SUBSET DOMAIN answers /\ stands \in SUBSET DOMAIN answers
    OBVIOUS
  <2> HIDE DEF oneRun, stands
  <2> QED BY <2>1, <1>4
<1>6. /\ pending' = [pending EXCEPT ![c] = @ \ DOMAIN answers]
      /\ settled' = [settled EXCEPT ![c] = @ \cup Numbers(DOMAIN answers)]
      /\ once' = [once EXCEPT ![c] = @ \cup {p.key : p \in oneRun}]
      /\ allow' = [allow EXCEPT ![c] = @ \cup {p.key : p \in stands}]
      /\ minted' = minted
  BY DEF Settle, StillOpen
<1> HIDE DEF oneRun, stands
<1> QED BY <1>1, <1>3, <1>5, <1>6

\* The queue's part of the types, and the rest.
QueueOK ==
    /\ entries \in SUBSET [job : Job, taken : BOOLEAN, answer : {NoAnswer} \cup Call]
    /\ IsFiniteSet(entries) /\ Cardinality(entries) <= QueueLimit
    /\ next \in 0..MaxCalls /\ seen \subseteq Controllers /\ restarts \in 0..MaxRestarts
    /\ calls \in 0..MaxCalls /\ next <= calls

RoundOK ==
    /\ waiting \in [Agents -> Job \cup {Nothing}]
    /\ round \in [Controllers ->
          [stage : {"idle", "tidy", "next", "park", "run", "spend", "answer"},
           jobs : SUBSET Job, job : Job \cup {Nothing}]]
    /\ \A c \in Controllers :
        /\ round[c].stage \in InHand => round[c].job # Nothing
        /\ round[c].stage \notin InHand => round[c].job = Nothing

LedgerOK ==
    /\ pending \in [Controllers -> SUBSET Ask]
    /\ once \in [Controllers -> SUBSET Keys] /\ allow \in [Controllers -> SUBSET Keys]
    /\ minted \in [Controllers -> Nat]
    /\ settled \in [Controllers -> SUBSET Nat]
    /\ notes \subseteq [number : Nat, verdict : Verdicts]
    /\ runs \in [Call -> Nat] /\ done \in [Keys -> Nat]
    /\ cards \subseteq [host : Controllers, ask : Ask]
    /\ said \subseteq [card : cards, verdict : Verdicts]

LEMMA Parts == TypeOK /\ StageInv <=> QueueOK /\ RoundOK /\ LedgerOK
BY DEF TypeOK, StageInv, QueueOK, RoundOK, LedgerOK

\* The queue keeps its type and its limit.
LEMMA QueueStep ==
    ASSUME QueueOK, RoundOK, [Next]_vars
    PROVE  QueueOK'
<1> USE DEF queueVars, ledgerVars, ranVars, personVars
<1>0. QueueLimit \in Nat /\ MaxCalls \in Nat /\ MaxRestarts \in Nat
  BY LimitsAssumption
<1>1. ASSUME NEW a \in Agents, Submit(a) PROVE QueueOK'
  <2> DEFINE JobFor(w) ==
               [id |-> next + 1, call |-> calls + 1,
                key |-> [session |-> a, tool |-> w.tool, machine |-> w.machine]]
             EntryFor(w) == [job |-> JobFor(w), taken |-> FALSE, answer |-> NoAnswer]
  <2>1. PICK w \in Wanted[a], old \in Expired :
          HasRoom(entries \ old) /\ entries' = (entries \ old) \cup {EntryFor(w)}
    BY <1>1 DEF Submit
  <2>2. [session |-> a, tool |-> w.tool, machine |-> w.machine] \in Keys
    BY DEF Keys
  <2>3. next + 1 \in Call /\ calls + 1 \in Call /\ next + 1 <= calls + 1
    BY <1>0, <1>1 DEF Submit, QueueOK, Call
  <2>4. JobFor(w) \in Job
    BY <2>2, <2>3 DEF Job
  <2> HIDE DEF JobFor
  <2>5. EntryFor(w) \in [job : Job, taken : BOOLEAN, answer : {NoAnswer} \cup Call]
    BY <2>4
  <2> HIDE DEF EntryFor
  <2>typed. entries' \in SUBSET [job : Job, taken : BOOLEAN, answer : {NoAnswer} \cup Call]
    BY <2>1, <2>5 DEF QueueOK
  <2>6. IsFiniteSet(entries \ old)
    BY Expiring DEF QueueOK
  <2>7. IsFiniteSet(entries') /\ Cardinality(entries') <= Cardinality(entries \ old) + 1
        /\ Cardinality(entries \ old) \in Nat
    <3>1. IsFiniteSet((entries \ old) \cup {EntryFor(w)})
          /\ Cardinality((entries \ old) \cup {EntryFor(w)}) =
               IF EntryFor(w) \in entries \ old THEN Cardinality(entries \ old)
               ELSE Cardinality(entries \ old) + 1
      BY <2>6, FS_AddElement
    <3>2. Cardinality(entries \ old) \in Nat
      BY <2>6, FS_CardinalityType
    <3> QED BY <2>1, <3>1, <3>2
  <2>8. Cardinality(entries') \in Nat
    BY <2>7, FS_CardinalityType
  <2>9. Cardinality(entries') <= QueueLimit
    BY <1>0, <2>1, <2>7, <2>8 DEF HasRoom
  <2>10. next' \in 0..MaxCalls /\ calls' \in 0..MaxCalls /\ next' <= calls'
    BY <1>0, <1>1, <2>3 DEF Submit, QueueOK, Call
  <2> QED BY <1>1, <2>typed, <2>7, <2>9, <2>10 DEF Submit, QueueOK
<1>2. ASSUME NEW a \in Agents, Result(a) PROVE QueueOK'
  <2>1. entries' \in SUBSET entries
    BY <1>2 DEF Result
  <2>2. IsFiniteSet(entries') /\ Cardinality(entries') <= Cardinality(entries)
        /\ Cardinality(entries') \in Nat /\ Cardinality(entries) \in Nat
    BY <2>1, Expiring, FS_CardinalityType DEF QueueOK
  <2> QED BY <1>0, <1>2, <2>1, <2>2 DEF Result, QueueOK
<1>3. CASE Restart
  BY <1>0, <1>3, FS_EmptySet DEF Restart, QueueOK
<1>4. ASSUME NEW c \in Controllers, Poll(c) PROVE QueueOK'
  <2>1. PICK old \in Expired :
          entries' = HandOut(entries \ old, Offered(entries \ old, Reach[c]))
    BY <1>4 DEF Poll
  <2>2. IsFiniteSet(entries \ old) /\ Cardinality(entries \ old) <= Cardinality(entries)
    BY Expiring DEF QueueOK
  <2>3. Offered(entries \ old, Reach[c]) \in SUBSET (entries \ old)
    BY DEF Offered
  <2>4. IsFiniteSet(entries') /\ Cardinality(entries') <= Cardinality(entries \ old)
    BY <2>1, <2>2, <2>3, HandingOut
  <2>5. /\ Cardinality(entries') \in Nat /\ Cardinality(entries \ old) \in Nat
        /\ Cardinality(entries) \in Nat
    BY <2>2, <2>4, FS_CardinalityType DEF QueueOK
  <2>6. Cardinality(entries') <= QueueLimit
    BY <1>0, <2>2, <2>4, <2>5 DEF QueueOK
  <2>7. entries' \in SUBSET [job : Job, taken : BOOLEAN, answer : {NoAnswer} \cup Call]
    BY <2>1, <2>3 DEF HandOut, QueueOK
  <2> QED BY <1>4, <2>4, <2>6, <2>7 DEF Poll, QueueOK
<1>5. ASSUME NEW c \in Controllers, Answer(c) PROVE QueueOK'
  <2>1. CASE entries' = entries
    BY <1>5, <2>1 DEF Answer, QueueOK
  <2>2. CASE entries' = Complete(round[c].job)
    <3>1. round[c].job \in Job
      BY <1>5 DEF Answer, At, RoundOK, InHand
    <3>2. IsFiniteSet(entries') /\ Cardinality(entries') <= Cardinality(entries)
      BY <2>2, Completing DEF QueueOK
    <3>3. Cardinality(entries') \in Nat /\ Cardinality(entries) \in Nat
      BY <3>2, FS_CardinalityType DEF QueueOK
    <3>4. Cardinality(entries') <= QueueLimit
      BY <1>0, <3>2, <3>3 DEF QueueOK
    <3>5. entries' \in SUBSET [job : Job, taken : BOOLEAN, answer : {NoAnswer} \cup Call]
      BY <2>2, <3>1 DEF Complete, QueueOK, Job
    <3> QED BY <1>5, <3>2, <3>4, <3>5 DEF Answer, QueueOK
  <2> QED BY <1>5, <2>1, <2>2 DEF Answer
<1>6. CASE UNCHANGED <<entries, next, seen, restarts, calls>>
  BY <1>6 DEF QueueOK
<1>7. ASSUME NEW a \in Agents, GiveUp(a) PROVE QueueOK'
  BY <1>6, <1>7 DEF GiveUp
<1>8. ASSUME NEW c \in Controllers,
             Tidy(c) \/ Gate(c) \/ Park(c) \/ Run(c) \/ Spend(c) \/ Abandon(c)
             \/ TakeVerdicts(c)
      PROVE  QueueOK'
  BY <1>6, <1>8 DEF Tidy, Gate, Park, Run, Spend, Abandon, TakeVerdicts
<1>9. CASE Person
  BY <1>6, <1>9 DEF Person, AnswerAtDashboard, AnswerInChat
<1>10. CASE UNCHANGED vars
  BY <1>6, <1>10 DEF vars
<1> QED
  BY <1>1, <1>2, <1>3, <1>4, <1>5, <1>7, <1>8, <1>9, <1>10 DEF Next, Agent, Pump

\* Agents and controllers keep theirs.
LEMMA RoundStep ==
    ASSUME QueueOK, RoundOK, [Next]_vars
    PROVE  RoundOK'
<1> USE DEF queueVars, ledgerVars, ranVars, personVars
<1>0. MaxCalls \in Nat
  BY LimitsAssumption
<1>1. ASSUME NEW a \in Agents, Submit(a) PROVE RoundOK'
  <2>1. PICK w \in Wanted[a] :
          waiting' = [waiting EXCEPT ![a] =
            [id |-> next + 1, call |-> calls + 1,
             key |-> [session |-> a, tool |-> w.tool, machine |-> w.machine]]]
    BY <1>1 DEF Submit
  <2>2. [session |-> a, tool |-> w.tool, machine |-> w.machine] \in Keys
    BY DEF Keys
  <2>3. next + 1 \in Call /\ calls + 1 \in Call
    BY <1>0, <1>1 DEF Submit, QueueOK, Call
  <2>4. waiting' \in [Agents -> Job \cup {Nothing}]
    BY <2>1, <2>2, <2>3 DEF Job, RoundOK
  <2> QED BY <1>1, <2>4 DEF Submit, RoundOK
<1>2. ASSUME NEW a \in Agents, Result(a) \/ GiveUp(a) PROVE RoundOK'
  BY <1>2 DEF Result, GiveUp, RoundOK
<1>3. ASSUME NEW c \in Controllers, Poll(c) PROVE RoundOK'
  <2>1. PICK old \in Expired :
          round' = [round EXCEPT ![c] = [Idle EXCEPT !.stage = "tidy",
                      !.jobs = {e.job : e \in Offered(entries \ old, Reach[c])}]]
    BY <1>3 DEF Poll
  <2>2. {e.job : e \in Offered(entries \ old, Reach[c])} \subseteq Job
    BY DEF Offered, QueueOK
  <2> HIDE DEF Job
  <2> QED BY <1>3, <2>1, <2>2 DEF Poll, RoundOK, Idle, InHand
<1>4. ASSUME NEW c \in Controllers, Tidy(c) \/ Answer(c) PROVE RoundOK'
  BY <1>4 DEF Tidy, Answer, Onward, RoundOK, InHand
<1>5. ASSUME NEW c \in Controllers, Gate(c) PROVE RoundOK'
  <2>1. PICK job \in round[c].jobs, step \in {"run", "answer", "park"} :
          round' = [round EXCEPT ![c] =
                     [stage |-> step, jobs |-> round[c].jobs \ {job}, job |-> job]]
    BY <1>5 DEF Gate
  <2>2. job \in Job /\ job # Nothing
    BY NothingAssumption DEF RoundOK
  <2> QED BY <1>5, <2>1, <2>2 DEF Gate, RoundOK, InHand
<1>6. ASSUME NEW c \in Controllers, Park(c) \/ Run(c) \/ Spend(c) PROVE RoundOK'
  <2>1. PICK step \in {"spend", "answer"} : round' = [round EXCEPT ![c].stage = step]
    BY <1>6 DEF Park, Run, Spend, Go
  <2>2. round[c].job # Nothing
    BY <1>6 DEF Park, Run, Spend, At, RoundOK, InHand
  <2>3. waiting' = waiting
    BY <1>6 DEF Park, Run, Spend
  <2> QED BY <2>1, <2>2, <2>3 DEF RoundOK, InHand
<1>7. ASSUME NEW c \in Controllers, Abandon(c) PROVE RoundOK'
  BY <1>7 DEF Abandon, Idle, RoundOK, InHand
<1>8. CASE UNCHANGED <<waiting, round>>
  BY <1>8 DEF RoundOK
<1>9. ASSUME NEW c \in Controllers, TakeVerdicts(c) PROVE RoundOK'
  BY <1>8, <1>9 DEF TakeVerdicts
<1>10. CASE Person
  BY <1>8, <1>10 DEF Person, AnswerAtDashboard, AnswerInChat
<1>11. CASE Restart \/ UNCHANGED vars
  BY <1>8, <1>11 DEF Restart, vars
<1> QED
  BY <1>1, <1>2, <1>3, <1>4, <1>5, <1>6, <1>7, <1>9, <1>10, <1>11 DEF Next, Agent, Pump

\* And ledgers, notes and what the person saw and said.
LEMMA LedgerStep ==
    ASSUME TypeOK, StageInv, CardInv, [Next]_vars
    PROVE  LedgerOK'
<1> USE DEF queueVars, ledgerVars, ranVars, personVars
<1>0. QueueOK /\ RoundOK /\ LedgerOK
  BY Parts
<1>1. CASE UNCHANGED <<ledgerVars, notes, ranVars, personVars>>
  BY <1>0, <1>1 DEF LedgerOK
<1>2. ASSUME NEW a \in Agents, Agent(a) PROVE LedgerOK'
  BY <1>1, <1>2 DEF Agent, Submit, Result, GiveUp
<1>3. ASSUME NEW c \in Controllers, Poll(c) \/ Gate(c) \/ Answer(c) \/ Abandon(c)
      PROVE  LedgerOK'
  BY <1>1, <1>3 DEF Poll, Gate, Answer, Abandon
<1>4. ASSUME NEW c \in Controllers, Tidy(c) PROVE LedgerOK'
  BY <1>0, <1>4 DEF Tidy, LedgerOK
<1>5. ASSUME NEW c \in Controllers, Park(c) PROVE LedgerOK'
  <2> DEFINE ask == [number |-> Mint(c), key |-> round[c].job.key,
                     call |-> round[c].job.call]
  <2>1. round[c].job \in Job
    BY <1>0, <1>5 DEF Park, At, RoundOK, InHand
  <2>2. Mint(c) \in Nat
    BY <1>0, Minting DEF LedgerOK
  <2>3. ask \in Ask
    BY <2>1, <2>2 DEF Ask, Job
  <2>4. /\ pending' = [pending EXCEPT ![c] = @ \cup {ask}]
        /\ minted' = [minted EXCEPT ![c] = Mint(c)]
        /\ cards' = cards \cup {[host |-> c, ask |-> ask]}
        /\ UNCHANGED <<once, allow, settled, notes, ranVars, said>>
    BY <1>5 DEF Park
  <2> HIDE DEF ask
  <2> QED BY <1>0, <2>2, <2>3, <2>4 DEF LedgerOK
<1>6. ASSUME NEW c \in Controllers, Run(c) PROVE LedgerOK'
  <2>1. round[c].job.call \in Call /\ round[c].job.key \in Keys
    BY <1>0, <1>6 DEF Run, At, RoundOK, InHand, Job
  <2>2. runs[round[c].job.call] + 1 \in Nat /\ done[round[c].job.key] + 1 \in Nat
    BY <1>0, <2>1 DEF LedgerOK
  <2>3. /\ runs' = [runs EXCEPT ![round[c].job.call] = @ + 1]
        /\ \/ done' = [done EXCEPT ![round[c].job.key] = @ + 1]
           \/ done' = done
        /\ UNCHANGED <<ledgerVars, notes, personVars>>
    BY <1>6 DEF Run
  <2> QED BY <1>0, <2>2, <2>3 DEF LedgerOK
<1>7. ASSUME NEW c \in Controllers, Spend(c) PROVE LedgerOK'
  BY <1>0, <1>7 DEF Spend, Spent, LedgerOK
<1>8. CASE Restart \/ UNCHANGED vars
  BY <1>1, <1>8 DEF Restart, vars
<1>9. ASSUME NEW c \in Controllers, NEW answers, DOMAIN answers \subseteq pending[c],
             Settle(c, answers), UNCHANGED <<notes, ranVars, cards>>,
             said' \subseteq [card : cards, verdict : Verdicts]
      PROVE  LedgerOK'
  <2>1. /\ pending' \in [Controllers -> SUBSET Ask]
        /\ once' \in [Controllers -> SUBSET Keys] /\ allow' \in [Controllers -> SUBSET Keys]
        /\ settled' \in [Controllers -> SUBSET Nat] /\ minted' = minted
    BY <1>9, Settling
  <2> QED BY <1>0, <1>9, <2>1 DEF LedgerOK
<1>10. ASSUME NEW c \in Controllers, TakeVerdicts(c) PROVE LedgerOK'
  <2>1. PICK read \in SUBSET notes :
          LET mine == {p \in pending[c] : p.number \in Numbers(read)}
              From(p) == {n \in read : n.number = p.number}
          IN Settle(c, [p \in mine |-> (CHOOSE n \in From(p) : TRUE).verdict])
    BY <1>10 DEF TakeVerdicts
  <2>2. PICK answers : DOMAIN answers \subseteq pending[c] /\ Settle(c, answers)
    BY <2>1
  <2>3. UNCHANGED <<notes, ranVars, personVars>>
    BY <1>10 DEF TakeVerdicts
  <2> QED BY <1>0, <1>9, <2>2, <2>3 DEF LedgerOK
<1>11. ASSUME NEW c \in Controllers, AnswerAtDashboard(c) PROVE LedgerOK'
  <2>1. PICK p \in pending[c], v \in Verdicts :
          Settle(c, [q \in {p} |-> v]) /\ Hear([host |-> c, ask |-> p], v)
    BY <1>11 DEF AnswerAtDashboard
  <2>2. [host |-> c, ask |-> p] \in cards
    BY DEF CardInv
  <2>3. said' \subseteq [card : cards, verdict : Verdicts]
    BY <1>0, <2>1, <2>2 DEF Hear, LedgerOK
  <2>4. UNCHANGED <<notes, ranVars, cards>>
    BY <1>11 DEF AnswerAtDashboard
  <2> QED BY <1>9, <2>1, <2>3, <2>4
<1>12. ASSUME NEW voice \in Voices, NEW card \in cards, NEW v \in Verdicts,
              AnswerInChat(voice, card, v)
       PROVE  LedgerOK'
  <2>1. voice \in Controllers
    BY WantedAssumption
  <2>2. said' \subseteq [card : cards, verdict : Verdicts]
    BY <1>0, <1>12 DEF AnswerInChat, Hear, LedgerOK
  <2>3. UNCHANGED <<ranVars, cards>>
    BY <1>12 DEF AnswerInChat
  <2> DEFINE open == {p \in pending[voice] : p.number = card.ask.number}
  <2>4. CASE Settle(voice, [p \in open |-> v]) /\ UNCHANGED notes
    BY <1>9, <2>1, <2>2, <2>3, <2>4
  <2>5. CASE /\ UNCHANGED ledgerVars
             /\ \/ notes' = notes
                \/ notes' = notes \cup {[number |-> card.ask.number, verdict |-> v]}
    <3>1. card.ask.number \in Nat
      BY <1>0 DEF LedgerOK, Ask
    <3>2. notes' \subseteq [number : Nat, verdict : Verdicts]
      BY <1>0, <2>5, <3>1 DEF LedgerOK
    <3> QED BY <1>0, <2>2, <2>3, <2>5, <3>2 DEF LedgerOK
  <2> QED BY <1>12, <2>4, <2>5 DEF AnswerInChat
<1> QED
  BY <1>2, <1>3, <1>4, <1>5, <1>6, <1>7, <1>8, <1>10, <1>11, <1>12 DEF Next, Pump, Person


LEMMA TypesStep ==
    ASSUME TypeOK, StageInv, CardInv, [Next]_vars
    PROVE  TypeOK' /\ StageInv'
<1>1. QueueOK /\ RoundOK /\ LedgerOK
  BY Parts
<1>2. QueueOK' /\ RoundOK' /\ LedgerOK'
  BY <1>1, QueueStep, RoundStep, LedgerStep
<1>3. (TypeOK /\ StageInv)'
  BY <1>2, Parts, PTL
<1> QED BY <1>3

-----------------------------------------------------------------------------
\* Only an ask that is put to the person opens one.
LEMMA OnlyParkAsks ==
    ASSUME TypeOK, [Next]_vars, \A c \in Controllers : ~Park(c)
    PROVE  /\ \A c \in Controllers : pending'[c] \subseteq pending[c]
           /\ minted' = minted /\ cards' = cards
<1> USE DEF queueVars, ledgerVars, ranVars, personVars
<1> DEFINE Fewer == /\ \A c \in Controllers : pending'[c] \subseteq pending[c]
                    /\ minted' = minted /\ cards' = cards
<1>1. pending \in [Controllers -> SUBSET Ask]
  BY DEF TypeOK
<1>2. CASE UNCHANGED <<pending, minted, cards>>
  BY <1>2
<1>3. ASSUME NEW a \in Agents, Agent(a) PROVE Fewer
  BY <1>2, <1>3 DEF Agent, Submit, Result, GiveUp
<1>4. ASSUME NEW c \in Controllers,
             Poll(c) \/ Gate(c) \/ Run(c) \/ Spend(c) \/ Answer(c) \/ Abandon(c)
      PROVE  Fewer
  BY <1>2, <1>4 DEF Poll, Gate, Run, Spend, Answer, Abandon
<1>5. ASSUME NEW c \in Controllers, Tidy(c) PROVE Fewer
  BY <1>1, <1>5 DEF Tidy
<1>6. ASSUME NEW c \in Controllers, NEW answers, Settle(c, answers), cards' = cards
      PROVE  Fewer
  BY <1>1, <1>6 DEF Settle, StillOpen
<1>7. ASSUME NEW c \in Controllers, TakeVerdicts(c) PROVE Fewer
  <2>1. PICK answers : Settle(c, answers)
    BY <1>7 DEF TakeVerdicts
  <2> QED BY <1>6, <1>7, <2>1 DEF TakeVerdicts
<1>8. ASSUME NEW c \in Controllers, AnswerAtDashboard(c) PROVE Fewer
  <2>1. PICK answers : Settle(c, answers)
    BY <1>8 DEF AnswerAtDashboard
  <2> QED BY <1>6, <1>8, <2>1 DEF AnswerAtDashboard
<1>9. ASSUME NEW voice \in Voices, NEW card \in cards, NEW v \in Verdicts,
             AnswerInChat(voice, card, v)
      PROVE  Fewer
  <2>1. voice \in Controllers
    BY WantedAssumption
  <2>2. CASE \E answers : Settle(voice, answers)
    BY <1>6, <1>9, <2>1, <2>2 DEF AnswerInChat
  <2>3. CASE UNCHANGED ledgerVars
    BY <1>2, <1>9, <2>3 DEF AnswerInChat
  <2> QED BY <1>9, <2>2, <2>3 DEF AnswerInChat
<1>10. CASE Restart \/ UNCHANGED vars
  BY <1>2, <1>10 DEF Restart, vars
<1> QED
  BY <1>3, <1>4, <1>5, <1>7, <1>8, <1>9, <1>10 DEF Next, Pump, Person

\* A new ask's number is above every other of its controller.
LEMMA CardStep ==
    ASSUME TypeOK, CardInv, [Next]_vars
    PROVE  CardInv'
<1>1. ASSUME NEW c \in Controllers, Park(c) PROVE CardInv'
  <2> DEFINE ask == [number |-> Mint(c), key |-> round[c].job.key,
                     call |-> round[c].job.call]
             card == [host |-> c, ask |-> ask]
  <2>1. /\ pending' = [pending EXCEPT ![c] = @ \cup {ask}]
        /\ minted' = [minted EXCEPT ![c] = Mint(c)]
        /\ cards' = cards \cup {card}
    BY <1>1 DEF Park
  <2>2. Mint(c) = minted[c] + 1
    BY Minting
  <2>3. card.host = c /\ card.ask = ask /\ card.ask.number = minted[c] + 1
    BY <2>2
  <2> HIDE DEF ask
  <2>4. /\ pending \in [Controllers -> SUBSET Ask] /\ minted \in [Controllers -> Nat]
        /\ cards \subseteq [host : Controllers, ask : Ask]
    BY DEF TypeOK
  <2>5. \A x \in cards : x.ask.number \in Nat /\ x.host \in Controllers
    BY <2>4 DEF Ask
  <2>6. \A d \in Controllers : \A p \in pending'[d] : [host |-> d, ask |-> p] \in cards'
    BY <2>1, <2>4 DEF CardInv
  <2> HIDE DEF card
  <2>7. \A x \in cards' : x.ask.number <= minted'[x.host]
    <3>1. \A x \in cards : x.ask.number <= minted'[x.host]
      BY <2>1, <2>2, <2>4, <2>5 DEF CardInv
    <3>2. card.ask.number <= minted'[card.host]
      BY <2>1, <2>2, <2>3, <2>4
    <3> QED BY <2>1, <3>1, <3>2
  <2>8. CardsDiffer'
    <3>1. \A x \in cards : x.host = c => x.ask.number < card.ask.number
      BY <2>3, <2>4, <2>5 DEF CardInv
    <3> QED BY <2>1, <2>3, <2>4, <2>5, <3>1 DEF CardInv, CardsDiffer
  <2> QED BY <2>6, <2>7, <2>8 DEF CardInv
<1>2. CASE \A c \in Controllers : ~Park(c)
  <2>1. /\ \A c \in Controllers : pending'[c] \subseteq pending[c]
        /\ minted' = minted /\ cards' = cards
    BY <1>2, OnlyParkAsks
  <2> QED BY <2>1 DEF CardInv, CardsDiffer
<1> QED BY <1>1, <1>2

\* A controller comes to ask by having looked, and stays where it is until it
\* has.
LEMMA ComingToAsk ==
    ASSUME RoundOK, [Next]_vars, NEW c \in Controllers, round'[c].stage = "park"
    PROVE  Gate(c) \/ round'[c] = round[c]
<1> USE DEF queueVars, ledgerVars, ranVars, personVars
<1> DEFINE Goal == Gate(c) \/ round'[c] = round[c]
<1>1. CASE round' = round
  BY <1>1
<1>2. ASSUME NEW d \in Controllers, Gate(d) PROVE Goal
  BY <1>2 DEF Gate, RoundOK
<1>3. ASSUME NEW d \in Controllers, Poll(d) PROVE Goal
  BY <1>3 DEF Poll, RoundOK, Idle
<1>4. ASSUME NEW d \in Controllers, Tidy(d) \/ Answer(d) PROVE Goal
  BY <1>4 DEF Tidy, Answer, Onward, RoundOK
<1>5. ASSUME NEW d \in Controllers, Park(d) \/ Run(d) \/ Spend(d) PROVE Goal
  <2>1. PICK step \in {"spend", "answer"} : round' = [round EXCEPT ![d].stage = step]
    BY <1>5 DEF Park, Run, Spend, Go
  <2> QED BY <2>1 DEF RoundOK
<1>6. ASSUME NEW d \in Controllers, Abandon(d) PROVE Goal
  BY <1>6 DEF Abandon, Idle, RoundOK
<1>7. ASSUME NEW a \in Agents, Agent(a) PROVE Goal
  BY <1>1, <1>7 DEF Agent, Submit, Result, GiveUp
<1>8. ASSUME NEW d \in Controllers, TakeVerdicts(d) PROVE Goal
  BY <1>1, <1>8 DEF TakeVerdicts
<1>9. CASE Person
  BY <1>1, <1>9 DEF Person, AnswerAtDashboard, AnswerInChat
<1>10. CASE Restart \/ UNCHANGED vars
  BY <1>1, <1>10 DEF Restart, vars
<1> QED
  BY <1>2, <1>3, <1>4, <1>5, <1>6, <1>7, <1>8, <1>9, <1>10 DEF Next, Pump

\* Nothing opens an ask between the look and the ask.
LEMMA AskStep ==
    ASSUME TypeOK, StageInv, AskInv, [Next]_vars
    PROVE  AskInv'
<1>0. RoundOK /\ pending \in [Controllers -> SUBSET Ask]
  BY Parts DEF TypeOK
<1>1. ASSUME NEW c \in Controllers, Park(c) PROVE AskInv'
  <2> DEFINE ask == [number |-> Mint(c), key |-> round[c].job.key,
                     call |-> round[c].job.call]
  <2>1. pending' = [pending EXCEPT ![c] = @ \cup {ask}]
        /\ round' = [round EXCEPT ![c].stage = "answer"]
    BY <1>1 DEF Park, Go
  <2>2. ask.key = round[c].job.key
    OBVIOUS
  <2> HIDE DEF ask
  <2>3. \A p \in pending[c] : p.key # ask.key
    BY <1>1, <2>2 DEF Park, At, AskInv, OpenAsk
  <2>4. OneAskAtATime'
    BY <1>0, <2>1, <2>3 DEF AskInv, OneAskAtATime
  <2>5. \A d \in Controllers : round'[d].stage = "park" =>
             d # c /\ round'[d] = round[d] /\ pending'[d] = pending[d]
    BY <1>0, <2>1 DEF RoundOK
  <2> QED BY <2>4, <2>5 DEF AskInv, OpenAsk
<1>2. CASE \A c \in Controllers : ~Park(c)
  <2>1. \A c \in Controllers : pending'[c] \subseteq pending[c]
    BY <1>2, OnlyParkAsks
  <2>2. OneAskAtATime'
    BY <2>1 DEF AskInv, OneAskAtATime
  <2>3. ASSUME NEW c \in Controllers, round'[c].stage = "park"
        PROVE  ~OpenAsk(c, round[c].job.key)'
    <3>1. CASE Gate(c)
      <4>1. ~OpenAsk(c, round'[c].job.key)
        BY <1>0, <2>3, <3>1 DEF Gate, RoundOK
      <4> QED BY <2>1, <4>1 DEF OpenAsk
    <3>2. CASE round'[c] = round[c]
      BY <2>1, <2>3, <3>2 DEF AskInv, OpenAsk
    <3> QED BY <1>0, <2>3, <3>1, <3>2, ComingToAsk
  <2> QED BY <2>2, <2>3 DEF AskInv
<1> QED BY <1>1, <1>2

-----------------------------------------------------------------------------
\* No call is made, none run, and every entry and everything carried is what
\* was there before.
LEMMA Dropping ==
    ASSUME CallInv, calls' = calls, runs' = runs,
           \A e \in entries' : \E f \in entries :
               e.job = f.job /\ (~e.taken => ~f.taken),
           \A e, f \in entries' : e.job.call = f.job.call => e = f,
           \A c \in Controllers :
               /\ round'[c].jobs \subseteq round[c].jobs
               /\ Carried(c)' \subseteq Carried(c)
               /\ round'[c].job \notin round'[c].jobs
               /\ round'[c].stage \in {"park", "run"} => runs[round'[c].job.call] = 0
    PROVE  CallInv'
<1>1. \A c, d \in Controllers : \A i \in Carried(c)', j \in Carried(d)' :
          i.call = j.call => i = j /\ c = d
  BY DEF CallInv
<1>2. \A e \in entries', c \in Controllers :
          ~e.taken => \A j \in Carried(c)' : j.call # e.job.call
  BY DEF CallInv
<1>3. \A e \in entries' : e.job.call <= calls' /\ (~e.taken => runs'[e.job.call] = 0)
  BY DEF CallInv
<1>4. \A c \in Controllers :
          /\ \A j \in Carried(c)' : j.call <= calls'
          /\ \A j \in round'[c].jobs : runs'[j.call] = 0
  BY DEF CallInv
<1>5. \A n \in Call : runs'[n] <= 1 /\ (n > calls' => runs'[n] = 0)
  BY DEF CallInv
<1> QED BY <1>1, <1>2, <1>3, <1>4, <1>5 DEF CallInv

\* The same when the controllers do nothing.
LEMMA DroppingEntries ==
    ASSUME CallInv, UNCHANGED <<calls, runs, round>>, entries' \subseteq entries
    PROVE  CallInv'
<1>1. \A c \in Controllers :
          /\ round'[c].jobs \subseteq round[c].jobs
          /\ Carried(c)' \subseteq Carried(c)
          /\ round'[c].job \notin round'[c].jobs
          /\ round'[c].stage \in {"park", "run"} => runs[round'[c].job.call] = 0
  BY DEF CallInv, Carried
<1>2. \A e, f \in entries' : e.job.call = f.job.call => e = f
  BY DEF CallInv
<1> QED BY <1>1, <1>2, Dropping

\* A new call is one nobody has yet.
LEMMA SubmitKeepsCalls ==
    ASSUME TypeOK, CallInv, NEW a \in Agents, Submit(a)
    PROVE  CallInv'
<1>0. calls \in Nat /\ calls + 1 \in Call
  BY LimitsAssumption DEF TypeOK, Submit, Call
<1> DEFINE EntryFor(w) ==
             [job |-> [id |-> next + 1, call |-> calls + 1,
                       key |-> [session |-> a, tool |-> w.tool, machine |-> w.machine]],
              taken |-> FALSE, answer |-> NoAnswer]
<1>1. PICK w \in Wanted[a], old \in Expired :
        entries' = (entries \ old) \cup {EntryFor(w)}
  BY DEF Submit
<1>2. calls' = calls + 1 /\ runs' = runs /\ round' = round
  BY DEF Submit, ranVars
<1> DEFINE new == EntryFor(w)
<1>3. new.job.call = calls + 1 /\ new.taken = FALSE
  OBVIOUS
<1> HIDE DEF EntryFor
<1>4. \A e \in entries : e.job.call \in Nat /\ e.job.call <= calls
  BY DEF TypeOK, CallInv, Job, Call
<1>5. \A c \in Controllers : \A j \in Carried(c) : j.call \in Nat /\ j.call <= calls
  <2>1. \A c \in Controllers : Carried(c) \subseteq Job
    BY DEF Carried, TypeOK
  <2> QED BY <2>1 DEF CallInv, Job, Call
<1>6. runs[calls + 1] = 0 /\ \A n \in Call : n > calls + 1 => runs[n] = 0
  BY <1>0 DEF CallInv, Call
<1>7. \A e, f \in entries' : e.job.call = f.job.call => e = f
  BY <1>0, <1>1, <1>3, <1>4 DEF CallInv
<1>8. \A c \in Controllers : Carried(c)' = Carried(c)
  BY <1>2 DEF Carried
<1>9. \A e \in entries', c \in Controllers :
          ~e.taken => \A j \in Carried(c)' : j.call # e.job.call
  BY <1>0, <1>1, <1>3, <1>5, <1>8 DEF CallInv
<1>10. \A e \in entries' : e.job.call <= calls' /\ (~e.taken => runs'[e.job.call] = 0)
  BY <1>0, <1>1, <1>2, <1>3, <1>4, <1>6 DEF CallInv
<1>11. \A c \in Controllers : \A j \in Carried(c)' : j.call <= calls'
  BY <1>0, <1>2, <1>5, <1>8
<1> QED BY <1>2, <1>6, <1>7, <1>8, <1>9, <1>10, <1>11 DEF CallInv

\* What is handed out was nobody's, and is nobody else's afterwards.
LEMMA PollKeepsCalls ==
    ASSUME TypeOK, StageInv, CallInv, NEW c \in Controllers, Poll(c)
    PROVE  CallInv'
<1> DEFINE Rest(old) == entries \ old
           Given(old) == Offered(Rest(old), Reach[c])
<1>1. PICK old \in Expired :
        /\ entries' = HandOut(Rest(old), Given(old))
        /\ round' = [round EXCEPT ![c] =
              [Idle EXCEPT !.stage = "tidy", !.jobs = {e.job : e \in Given(old)}]]
  BY DEF Poll
<1> DEFINE given == Given(old)
<1>2. given \subseteq entries /\ \A e \in given : ~e.taken
  BY DEF Offered
<1>3. entries' = (Rest(old) \ given) \cup {[e EXCEPT !.taken = TRUE] : e \in given}
  BY <1>1 DEF HandOut
<1> HIDE DEF Given
<1>4. calls' = calls /\ runs' = runs
  BY DEF Poll, ranVars
<1>5. entries \in SUBSET [job : Job, taken : BOOLEAN, answer : {NoAnswer} \cup Call]
      /\ round \in [Controllers ->
          [stage : {"idle", "tidy", "next", "park", "run", "spend", "answer"},
           jobs : SUBSET Job, job : Job \cup {Nothing}]]
  BY DEF TypeOK
<1>6. \A e \in entries' :
          \/ e \in entries /\ e \notin given
          \/ e.taken = TRUE /\ \E f \in given : e = [f EXCEPT !.taken = TRUE] /\ e.job = f.job
  <2>1. \A f \in given : [f EXCEPT !.taken = TRUE].job = f.job
                         /\ [f EXCEPT !.taken = TRUE].taken = TRUE
    BY <1>2, <1>5
  <2> QED BY <1>3, <2>1
<1>7. \A e, f \in entries' : e.job.call = f.job.call => e = f
  <2> SUFFICES ASSUME NEW e \in entries', NEW f \in entries', e.job.call = f.job.call
               PROVE  e = f
    OBVIOUS
  <2>1. PICK g \in entries : g.job = e.job
            /\ e = IF g \in given THEN [g EXCEPT !.taken = TRUE] ELSE g
    BY <1>2, <1>6
  <2>2. PICK h \in entries : h.job = f.job
            /\ f = IF h \in given THEN [h EXCEPT !.taken = TRUE] ELSE h
    BY <1>2, <1>6
  <2>3. g = h
    BY <2>1, <2>2 DEF CallInv
  <2> QED BY <2>1, <2>2, <2>3
<1>8. /\ round'[c].stage = "tidy" /\ round'[c].job = Nothing
      /\ round'[c].jobs = {e.job : e \in given}
      /\ \A d \in Controllers \ {c} : round'[d] = round[d]
  BY <1>1, <1>5 DEF Idle
<1>9. /\ Carried(c)' = {e.job : e \in given}
      /\ \A d \in Controllers \ {c} : Carried(d)' = Carried(d)
  BY <1>8 DEF Carried
<1>10. \A e \in given, d \in Controllers : \A j \in Carried(d) : j.call # e.job.call
  BY <1>2 DEF CallInv
<1>11. \A d, b \in Controllers : \A i \in Carried(d)', j \in Carried(b)' :
           i.call = j.call => i = j /\ d = b
  <2>1. \A i, j \in Carried(c)' : i.call = j.call => i = j
    BY <1>2, <1>9 DEF CallInv
  <2>2. \A d \in Controllers \ {c} : \A i \in Carried(c)', j \in Carried(d)' : i.call # j.call
    BY <1>9, <1>10
  <2>3. \A d, b \in Controllers \ {c} : \A i \in Carried(d)', j \in Carried(b)' :
            i.call = j.call => i = j /\ d = b
    BY <1>9 DEF CallInv
  <2> QED BY <2>1, <2>2, <2>3
<1>12. \A e \in entries', d \in Controllers :
           ~e.taken => \A j \in Carried(d)' : j.call # e.job.call
  <2>1. ASSUME NEW e \in entries', ~e.taken PROVE e \in entries /\ e \notin given
    BY <1>6, <2>1
  <2>2. ASSUME NEW e \in entries', ~e.taken, NEW j \in Carried(c)' PROVE j.call # e.job.call
    BY <1>2, <1>9, <2>1, <2>2 DEF CallInv
  <2>3. ASSUME NEW e \in entries', ~e.taken, NEW d \in Controllers \ {c}, NEW j \in Carried(d)'
        PROVE  j.call # e.job.call
    BY <1>9, <2>1, <2>3 DEF CallInv
  <2> QED BY <2>2, <2>3
<1>13. \A e \in entries' : e.job.call <= calls' /\ (~e.taken => runs'[e.job.call] = 0)
  BY <1>2, <1>4, <1>6 DEF CallInv
<1>14. \A d \in Controllers :
          /\ \A j \in Carried(d)' : j.call <= calls'
          /\ \A j \in round'[d].jobs : runs'[j.call] = 0
          /\ round'[d].stage \in {"park", "run"} => runs'[round'[d].job.call] = 0
          /\ round'[d].job \notin round'[d].jobs
  <2>1. \A e \in given : e.job.call <= calls /\ runs[e.job.call] = 0 /\ e.job # Nothing
    BY <1>2, <1>5, NothingAssumption DEF CallInv
  <2>2. /\ \A j \in Carried(c)' : j.call <= calls'
        /\ \A j \in round'[c].jobs : runs'[j.call] = 0 /\ j # Nothing
    BY <1>4, <1>8, <1>9, <2>1
  <2>3. ASSUME NEW d \in Controllers \ {c}
        PROVE  /\ \A j \in Carried(d)' : j.call <= calls'
               /\ \A j \in round'[d].jobs : runs'[j.call] = 0
               /\ round'[d].stage \in {"park", "run"} => runs'[round'[d].job.call] = 0
               /\ round'[d].job \notin round'[d].jobs
    BY <1>4, <1>8, <1>9 DEF CallInv
  <2> QED BY <1>8, <2>2, <2>3
<1>15. \A n \in Call : runs'[n] <= 1 /\ (n > calls' => runs'[n] = 0)
  BY <1>4 DEF CallInv
<1> QED BY <1>7, <1>11, <1>12, <1>13, <1>14, <1>15 DEF CallInv

\* A run is of a call that was never run, and that nobody else can run.
LEMMA RunKeepsCalls ==
    ASSUME TypeOK, StageInv, CallInv, NEW c \in Controllers, Run(c)
    PROVE  CallInv'
<1> DEFINE n == round[c].job.call
<1>1. /\ round[c].stage = "run" /\ calls' = calls /\ entries' = entries
      /\ runs' = [runs EXCEPT ![n] = @ + 1]
  BY DEF Run, At, queueVars
<1>2. PICK step \in {"spend", "answer"} : round' = [round EXCEPT ![c].stage = step]
  BY DEF Run, Go
<1>3. round[c].job \in Job /\ round[c].job \in Carried(c) /\ n \in Call
  BY <1>1 DEF TypeOK, StageInv, InHand, Carried, Job
<1>4. runs \in [Call -> Nat] /\ runs[n] = 0 /\ n <= calls /\ calls \in Nat
  BY <1>1, <1>3, LimitsAssumption DEF TypeOK, CallInv
<1>5. runs'[n] = 1 /\ \A m \in Call : m # n => runs'[m] = runs[m]
  BY <1>1, <1>3, <1>4
<1>6. \A d \in Controllers :
          /\ round'[d].jobs = round[d].jobs /\ round'[d].job = round[d].job
          /\ round'[d].stage = IF d = c THEN step ELSE round[d].stage
  BY <1>2 DEF TypeOK
<1>7. \A d \in Controllers : Carried(d)' = Carried(d)
  BY <1>6 DEF Carried
<1>8. \A e \in entries : ~e.taken => e.job.call # n
  BY <1>3 DEF CallInv
<1>9. \A d \in Controllers : \A j \in round[d].jobs : j.call # n /\ j.call \in Call
  BY <1>3 DEF CallInv, Carried, TypeOK, Job
<1>10. \A d \in Controllers \ {c} :
           round[d].stage \in {"park", "run"} =>
               round[d].job.call # n /\ round[d].job.call \in Call
  BY <1>3 DEF CallInv, Carried, TypeOK, StageInv, InHand, Job
<1>11. \A e \in entries' : e.job.call <= calls' /\ (~e.taken => runs'[e.job.call] = 0)
  BY <1>1, <1>5, <1>8 DEF CallInv, TypeOK, Job
<1>12. \A d \in Controllers :
          /\ \A j \in Carried(d)' : j.call <= calls'
          /\ \A j \in round'[d].jobs : runs'[j.call] = 0
          /\ round'[d].stage \in {"park", "run"} => runs'[round'[d].job.call] = 0
          /\ round'[d].job \notin round'[d].jobs
  BY <1>1, <1>5, <1>6, <1>7, <1>9, <1>10 DEF CallInv
<1>13. \A m \in Call : runs'[m] <= 1 /\ (m > calls' => runs'[m] = 0)
  BY <1>1, <1>3, <1>4, <1>5 DEF CallInv, Call
<1> QED BY <1>1, <1>7, <1>11, <1>12, <1>13 DEF CallInv

\* Going on drops the job in hand and nothing else.
LEMMA GoingOn ==
    ASSUME RoundOK, NEW c \in Controllers, Onward(c)
    PROVE  \E stage \in {"idle", "next"} :
             round' = [round EXCEPT ![c] = [stage |-> stage, jobs |-> round[c].jobs,
                                            job |-> Nothing]]
<1> DEFINE to == IF round[c].jobs = {} THEN "idle" ELSE "next"
<1>1. round[c] \in [stage : {"idle", "tidy", "next", "park", "run", "spend", "answer"},
                    jobs : SUBSET Job, job : Job \cup {Nothing}]
  BY DEF RoundOK
<1>2. round' = [round EXCEPT ![c].stage = to, ![c].job = Nothing]
  BY DEF Onward
<1>3. to \in {"idle", "next"}
  OBVIOUS
<1> HIDE DEF to
<1> DEFINE mid == [round[c] EXCEPT !.stage = to]
<1>4. /\ mid = [stage |-> to, jobs |-> round[c].jobs, job |-> round[c].job]
      /\ [mid EXCEPT !.job = Nothing]
           = [stage |-> to, jobs |-> round[c].jobs, job |-> Nothing]
  <2>1. mid = [stage |-> to, jobs |-> round[c].jobs, job |-> round[c].job]
    BY <1>1
  <2> HIDE DEF mid
  <2> QED BY <2>1
<1>5. round' = [round EXCEPT ![c] = [stage |-> to, jobs |-> round[c].jobs, job |-> Nothing]]
  BY <1>2, <1>4 DEF RoundOK
<1> QED BY <1>3, <1>5

\* A call stays in one place until it has been run.
LEMMA CallStep ==
    ASSUME TypeOK, StageInv, CallInv, [Next]_vars
    PROVE  CallInv'
<1> USE DEF queueVars, ledgerVars, ranVars, personVars
<1>0. RoundOK
  BY Parts
<1>1. ASSUME NEW a \in Agents, Agent(a) PROVE CallInv'
  <2>1. CASE Submit(a)
    BY <2>1, SubmitKeepsCalls
  <2>2. CASE Result(a) \/ GiveUp(a)
    BY <2>2, DroppingEntries DEF Result, GiveUp
  <2> QED BY <1>1, <2>1, <2>2 DEF Agent
<1>2. CASE Restart
  BY <1>2, DroppingEntries DEF Restart
<1>3. ASSUME NEW c \in Controllers, TakeVerdicts(c) PROVE CallInv'
  BY <1>3, DroppingEntries DEF TakeVerdicts
<1>4. CASE Person
  BY <1>4, DroppingEntries DEF Person, AnswerAtDashboard, AnswerInChat
<1>5. CASE UNCHANGED vars
  BY <1>5, DroppingEntries DEF vars
<1>6. ASSUME NEW c \in Controllers, NEW to, round' = [round EXCEPT ![c] = to],
             UNCHANGED <<calls, runs>>,
             to.jobs \subseteq round[c].jobs,
             to.job \notin to.jobs,
             to.job # Nothing => to.job \in Carried(c),
             to.stage \in {"park", "run"} => runs[to.job.call] = 0,
             \A e \in entries' : \E f \in entries :
                 e.job = f.job /\ (~e.taken => ~f.taken),
             \A e, f \in entries' : e.job.call = f.job.call => e = f
      PROVE  CallInv'
  <2>1. \A d \in Controllers :
            /\ round'[d].jobs \subseteq round[d].jobs
            /\ Carried(d)' \subseteq Carried(d)
            /\ round'[d].job \notin round'[d].jobs
            /\ round'[d].stage \in {"park", "run"} => runs[round'[d].job.call] = 0
    BY <1>0, <1>6 DEF RoundOK, CallInv, Carried
  <2> QED BY <1>6, <2>1, Dropping
<1>7. UNCHANGED entries =>
        /\ \A e \in entries' : \E f \in entries : e.job = f.job /\ (~e.taken => ~f.taken)
        /\ \A e, f \in entries' : e.job.call = f.job.call => e = f
  BY DEF CallInv
<1>8. \A c \in Controllers : /\ Nothing \notin round[c].jobs
                             /\ round[c].job \notin round[c].jobs
                             /\ round[c].job # Nothing => round[c].job \in Carried(c)
  BY <1>0, NothingAssumption DEF RoundOK, CallInv, Carried
<1>9. ASSUME NEW c \in Controllers, Tidy(c) PROVE CallInv'
  <2>1. PICK stage \in {"idle", "next"} :
          round' = [round EXCEPT ![c] = [stage |-> stage, jobs |-> round[c].jobs,
                                         job |-> Nothing]]
    BY <1>0, <1>9, GoingOn DEF Tidy
  <2> QED BY <1>6, <1>7, <1>8, <1>9, <2>1 DEF Tidy
<1>10. ASSUME NEW c \in Controllers, Gate(c) PROVE CallInv'
  <2>1. PICK job \in round[c].jobs, step \in {"run", "answer", "park"} :
          round' = [round EXCEPT ![c] =
                     [stage |-> step, jobs |-> round[c].jobs \ {job}, job |-> job]]
    BY <1>10 DEF Gate
  <2>2. runs[job.call] = 0 /\ job \in Carried(c)
    BY DEF CallInv, Carried
  <2> QED BY <1>6, <1>7, <1>10, <2>1, <2>2 DEF Gate
<1>11. ASSUME NEW c \in Controllers, Park(c) \/ Spend(c) PROVE CallInv'
  <2>1. round' = [round EXCEPT ![c] = [stage |-> "answer", jobs |-> round[c].jobs,
                                       job |-> round[c].job]]
    BY <1>0, <1>11 DEF Park, Spend, Go, RoundOK
  <2> QED BY <1>6, <1>7, <1>8, <1>11, <2>1 DEF Park, Spend
<1>12. ASSUME NEW c \in Controllers, Answer(c) PROVE CallInv'
  <2>1. PICK stage \in {"idle", "next"} :
          round' = [round EXCEPT ![c] = [stage |-> stage, jobs |-> round[c].jobs,
                                         job |-> Nothing]]
    BY <1>0, <1>12, GoingOn DEF Answer
  <2>2. CASE UNCHANGED entries
    BY <1>6, <1>7, <1>8, <1>12, <2>1, <2>2 DEF Answer
  <2>3. CASE entries' = Complete(round[c].job)
    <3>1. entries \in SUBSET [job : Job, taken : BOOLEAN, answer : {NoAnswer} \cup Call]
      BY DEF TypeOK
    <3> DEFINE To(e) == IF e.job.id = round[c].job.id
                          THEN [e EXCEPT !.answer = round[c].job.call] ELSE e
    <3>2. \A e \in entries : To(e).job = e.job /\ To(e).taken = e.taken
      BY <3>1
    <3>3. entries' = {To(e) : e \in entries}
      BY <2>3 DEF Complete
    <3> HIDE DEF To
    <3>4. \A e \in entries' : \E f \in entries : e.job = f.job /\ (~e.taken => ~f.taken)
      BY <3>2, <3>3
    <3>5. \A e, f \in entries' : e.job.call = f.job.call => e = f
      BY <3>2, <3>3 DEF CallInv
    <3> QED BY <1>6, <1>8, <1>12, <2>1, <3>4, <3>5 DEF Answer
  <2> QED BY <1>12, <2>2, <2>3 DEF Answer
<1>13. ASSUME NEW c \in Controllers, Abandon(c) PROVE CallInv'
  <2>1. round' = [round EXCEPT ![c] = [stage |-> "idle", jobs |-> {}, job |-> Nothing]]
    BY <1>13 DEF Abandon, Idle
  <2> QED BY <1>6, <1>7, <1>13, <2>1 DEF Abandon
<1> QED
  BY <1>1, <1>2, <1>3, <1>4, <1>5, <1>9, <1>10, <1>11, <1>12, <1>13,
     PollKeepsCalls, RunKeepsCalls DEF Next, Pump

-----------------------------------------------------------------------------
\* What a controller may have to ask the person about.
Asks(c) == {k \in Keys : k.tool \in Writes /\ k.machine \in Reach[c]}

\* One controller at most is asked for writes.  With two, each counts its own
\* asks, a reply in the chat names only the count, and a yes to one's card
\* may be taken for a yes to the other's.
OneAsker == \E c \in Controllers : \A d \in Controllers \ {c} : Asks(d) = {}

\* What a controller was handed, and what its ledger is about, it can reach.
RouteInv ==
    \A c \in Controllers :
        /\ \A j \in Carried(c) : j.key.machine \in Reach[c]
        /\ once[c] \cup allow[c] \subseteq Asks(c)
        /\ \A p \in pending[c] : p.key \in Asks(c)

\* So is what the person was ever asked.
CardKeyInv == \A x \in cards : x.ask.key \in Asks(x.host)

\* Nobody is asked for what is granted, and what is let through is granted from
\* the look at the ledger until the grant is spent.
GateInv ==
    \A c \in Controllers :
        /\ \A p \in pending[c] : ~Remembered(c, p.key)
        /\ round[c].stage = "park" =>
               NeedsApproval(round[c].job) /\ ~Remembered(c, round[c].job.key)
        /\ round[c].stage = "run" /\ NeedsApproval(round[c].job) =>
               Remembered(c, round[c].job.key)
        /\ round[c].stage = "spend" =>
               NeedsApproval(round[c].job) /\ Remembered(c, round[c].job.key)

\* A note is a reply the person gave to a card of that number.
NoteInv ==
    \A n \in notes :
        \E x \in said : x.card.ask.number = n.number /\ x.verdict = n.verdict

\* A key the person allowed for good.
Stands(k) == \E x \in said :
    x.card.ask.key = k /\ x.verdict = "always" /\ k.tool \in Standing

\* The cards on which a key was allowed and which are no longer open.
Granted(k) ==
    {x.card : x \in {y \in said : /\ y.card.ask.key = k /\ y.verdict # "no"
                                  /\ y.card.ask \notin pending[y.card.host]}}

\* A run a grant still owes: not when it was had and is only to be spent.
Owed(c, k) ==
    IF k \in once[c] /\ ~(round[c].stage = "spend" /\ round[c].job.key = k)
    THEN 1 ELSE 0

StandInv == \A c \in Controllers : \A k \in allow[c] : Stands(k)

\* Runs had and owed are no more than the cards they were granted on.
BudgetInv ==
    /\ IsFiniteSet(said)
    /\ \A k \in Keys, c \in Controllers :
           Stands(k) \/ done[k] + Owed(c, k) <= Cardinality(Granted(k))

YesInv == RouteInv /\ GateInv /\ NoteInv /\ StandInv /\ BudgetInv

\* What is granted stays so, as does what stands, when the person says more and
\* no ask that is open was open before and is on a card.
LEMMA GrantsStay ==
    ASSUME TypeOK, said \subseteq said', IsFiniteSet(said'), NEW k \in Keys,
           \A x \in said : x.card.ask \notin pending[x.card.host] =>
                           x.card.ask \notin pending'[x.card.host]
    PROVE  /\ Stands(k) => Stands(k)'
           /\ Granted(k) \subseteq Granted(k)'
           /\ IsFiniteSet(Granted(k)) /\ IsFiniteSet(Granted(k)')
           /\ Cardinality(Granted(k)) \in Nat /\ Cardinality(Granted(k)') \in Nat
           /\ Cardinality(Granted(k)) <= Cardinality(Granted(k)')
<1>1. Stands(k) => Stands(k)'
  BY DEF Stands
<1>2. Granted(k) \subseteq Granted(k)'
  BY DEF Granted
<1>3. IsFiniteSet(Granted(k)')
  <2> DEFINE S == {y \in said' : /\ y.card.ask.key = k /\ y.verdict # "no"
                                 /\ y.card.ask \notin pending'[y.card.host]}
  <2>1. IsFiniteSet(S)
    BY FS_Subset
  <2>2. Granted(k)' = {x.card : x \in S}
    BY DEF Granted
  <2> DEFINE f == [x \in S |-> x.card]
  <2>3. Granted(k)' = {f[x] : x \in S} /\ DOMAIN f = S
    BY <2>2
  <2> HIDE DEF S, f
  <2> QED BY <2>1, <2>3, Replacing
<1> QED BY <1>1, <1>2, <1>3, FS_Subset, FS_CardinalityType

\* Nothing is settled, asked or run: the round alone may have moved.
LEMMA QuietKeepsYes ==
    ASSUME TypeOK, YesInv,
           UNCHANGED <<pending, once, allow, notes, done, said>>,
           \A c \in Controllers :
               /\ \A j \in Carried(c)' : j.key.machine \in Reach[c]
               /\ round'[c].stage \in {"park", "run", "spend"} =>
                      \/ round'[c].stage = round[c].stage /\ round'[c].job = round[c].job
                      \/ /\ round[c].stage # "spend" /\ round'[c].stage # "spend"
                         /\ round'[c].stage = "park" =>
                                /\ NeedsApproval(round'[c].job)
                                /\ ~Remembered(c, round'[c].job.key)
                         /\ round'[c].stage = "run" /\ NeedsApproval(round'[c].job) =>
                                Remembered(c, round'[c].job.key)
               /\ round[c].stage = "spend" =>
                      round'[c].stage = "spend" /\ round'[c].job = round[c].job
    PROVE  YesInv'
<1>1. RouteInv'
  BY DEF YesInv, RouteInv
<1>2. GateInv'
  BY DEF YesInv, GateInv, Remembered, NeedsApproval
<1>3. NoteInv' /\ StandInv'
  BY DEF YesInv, NoteInv, StandInv, Stands
<1>4. ASSUME NEW k \in Keys, NEW c \in Controllers
      PROVE  Owed(c, k)' = Owed(c, k)
  BY DEF Owed
<1>5. \A k \in Keys : Stands(k)' = Stands(k) /\ Granted(k)' = Granted(k)
  BY DEF Stands, Granted
<1>6. BudgetInv'
  BY <1>4, <1>5 DEF YesInv, BudgetInv
<1> QED BY <1>1, <1>2, <1>3, <1>6 DEF YesInv

\* Settling gives each key at most the one run its card was answered with.
LEMMA SettlingKeepsYes ==
    ASSUME TypeOK, CardInv, AskInv, YesInv, NEW c \in Controllers, NEW answers,
           DOMAIN answers \subseteq pending[c], Settle(c, answers),
           \A p \in DOMAIN answers :
               [card |-> [host |-> c, ask |-> p], verdict |-> answers[p]] \in said',
           said \subseteq said', IsFiniteSet(said'), UNCHANGED <<round, done>>, NoteInv'
    PROVE  YesInv'
<1> DEFINE For(verdicts) == {p \in DOMAIN answers : answers[p] \in verdicts}
           stands == {p \in For({"always"}) : p.key.tool \in Standing}
           oneRun == For({"yes", "always"}) \ stands
<1>1. /\ pending' = [pending EXCEPT ![c] = @ \ DOMAIN answers]
      /\ once' = [once EXCEPT ![c] = @ \cup {p.key : p \in oneRun}]
      /\ allow' = [allow EXCEPT ![c] = @ \cup {p.key : p \in stands}]
  BY DEF Settle, StillOpen
<1>2. /\ pending \in [Controllers -> SUBSET Ask] /\ once \in [Controllers -> SUBSET Keys]
      /\ allow \in [Controllers -> SUBSET Keys] /\ done \in [Keys -> Nat]
  BY DEF TypeOK
<1>3. \A p \in oneRun : p \in DOMAIN answers /\ answers[p] # "no"
  OBVIOUS
<1>4. \A p \in stands : /\ p \in DOMAIN answers /\ answers[p] = "always"
                        /\ p.key.tool \in Standing
  OBVIOUS
<1> HIDE DEF oneRun, stands
<1>5. \A d \in Controllers :
          pending'[d] = IF d = c THEN pending[c] \ DOMAIN answers ELSE pending[d]
  BY <1>1, <1>2
<1>6. ASSUME NEW d \in Controllers, NEW k, k \in once'[d] \ once[d]
      PROVE  d = c /\ \E p \in oneRun : p.key = k
  BY <1>1, <1>2, <1>6
<1>7. ASSUME NEW d \in Controllers, NEW k, k \in allow'[d] \ allow[d]
      PROVE  d = c /\ \E p \in stands : p.key = k
  BY <1>1, <1>2, <1>7
<1>8. \A d \in Controllers : once[d] \subseteq once'[d] /\ allow[d] \subseteq allow'[d]
  BY <1>1, <1>2
<1>9. ASSUME NEW d \in Controllers, NEW k, Remembered(d, k)', ~Remembered(d, k)
      PROVE  d = c /\ \E p \in DOMAIN answers : p.key = k
  <2>1. CASE k \in once'[d] \ once[d]
    BY <1>3, <1>6, <2>1
  <2>2. CASE k \in allow'[d] \ allow[d]
    BY <1>4, <1>7, <2>2
  <2> QED BY <1>9, <2>1, <2>2 DEF Remembered
<1>10. RouteInv'
  <2>1. ASSUME NEW d \in Controllers, NEW k, k \in once'[d] \cup allow'[d] PROVE k \in Asks(d)
    <3>1. CASE Remembered(d, k)
      BY <3>1 DEF Remembered, YesInv, RouteInv
    <3>2. CASE ~Remembered(d, k)
      <4>1. d = c /\ \E p \in DOMAIN answers : p.key = k
        BY <1>9, <2>1, <3>2 DEF Remembered
      <4> QED BY <4>1 DEF YesInv, RouteInv
    <3> QED BY <3>1, <3>2
  <2>2. \A d \in Controllers : Carried(d)' = Carried(d)
    BY DEF Carried
  <2>3. \A d \in Controllers : Asks(d)' = Asks(d)
    BY DEF Asks
  <2> QED BY <1>5, <2>1, <2>2, <2>3 DEF YesInv, RouteInv
<1>11. GateInv'
  <2>1. ASSUME NEW d \in Controllers, NEW p \in pending'[d] PROVE ~Remembered(d, p.key)'
    <3>1. p \in pending[d] /\ ~(d = c /\ p \in DOMAIN answers)
      BY <1>5
    <3>2. ~Remembered(d, p.key)
      BY <3>1 DEF YesInv, GateInv
    <3> SUFFICES ASSUME Remembered(d, p.key)' PROVE FALSE
      OBVIOUS
    <3>3. d = c /\ \E q \in DOMAIN answers : q.key = p.key
      BY <1>9, <3>2
    <3> QED BY <3>1, <3>3 DEF AskInv, OneAskAtATime
  <2>2. ASSUME NEW d \in Controllers, round[d].stage = "park"
        PROVE  NeedsApproval(round[d].job) /\ ~Remembered(d, round[d].job.key)'
    <3>1. /\ NeedsApproval(round[d].job) /\ ~Remembered(d, round[d].job.key)
          /\ \A p \in pending[d] : p.key # round[d].job.key
      BY <2>2 DEF YesInv, GateInv, AskInv, OpenAsk
    <3> SUFFICES ASSUME Remembered(d, round[d].job.key)' PROVE FALSE
      BY <3>1
    <3>2. d = c /\ \E q \in DOMAIN answers : q.key = round[d].job.key
      BY <1>9, <3>1
    <3> QED BY <3>1, <3>2
  <2>3. \A d \in Controllers, k \in Keys : Remembered(d, k) => Remembered(d, k)'
    BY <1>8 DEF Remembered
  <2>4. \A d \in Controllers : \A k : Remembered(d, k) => k \in Keys
    BY <1>2 DEF Remembered
  <2>5. \A d \in Controllers : round'[d] = round[d]
    OBVIOUS
  <2> QED BY <2>1, <2>2, <2>3, <2>4, <2>5 DEF YesInv, GateInv, NeedsApproval
<1>12. \A k \in Keys :
          /\ Stands(k) => Stands(k)'
          /\ Granted(k) \subseteq Granted(k)'
          /\ IsFiniteSet(Granted(k)) /\ IsFiniteSet(Granted(k)')
          /\ Cardinality(Granted(k)) \in Nat /\ Cardinality(Granted(k)') \in Nat
          /\ Cardinality(Granted(k)) <= Cardinality(Granted(k)')
  <2>1. \A x \in said : x.card.host \in Controllers
    BY DEF TypeOK
  <2>2. \A x \in said : x.card.ask \notin pending[x.card.host] =>
                        x.card.ask \notin pending'[x.card.host]
    BY <1>5, <2>1
  <2> QED BY <2>2, GrantsStay
<1>13. StandInv'
  <2> SUFFICES ASSUME NEW d \in Controllers, NEW k \in allow'[d] PROVE Stands(k)'
    BY DEF StandInv
  <2>1. CASE k \in allow[d]
    BY <1>2, <1>12, <2>1 DEF YesInv, StandInv
  <2>2. CASE k \notin allow[d]
    <3>1. PICK p \in stands : p.key = k /\ d = c
      BY <1>7, <2>2
    <3>2. [card |-> [host |-> c, ask |-> p], verdict |-> "always"] \in said'
      BY <1>4, <3>1
    <3> QED BY <1>4, <3>1, <3>2 DEF Stands
  <2> QED BY <2>1, <2>2
<1>14. BudgetInv'
  <2> SUFFICES ASSUME NEW k \in Keys, NEW d \in Controllers, ~Stands(k)'
               PROVE  done'[k] + Owed(d, k)' <= Cardinality(Granted(k)')
    BY DEF BudgetInv
  <2>1. done[k] + Owed(d, k) <= Cardinality(Granted(k)) /\ done[k] \in Nat
    BY <1>2, <1>12 DEF YesInv, BudgetInv
  <2>2. Owed(d, k) \in 0..1 /\ Owed(d, k)' \in 0..1
    BY DEF Owed
  <2>3. CASE k \in once[d] \/ k \notin once'[d]
    <3>1. Owed(d, k)' <= Owed(d, k)
      BY <1>8, <2>3 DEF Owed
    <3> QED BY <1>12, <2>1, <2>2, <3>1
  <2>4. CASE k \in once'[d] \ once[d]
    <3>1. PICK p \in oneRun : p.key = k /\ d = c
      BY <1>6, <2>4
    <3> DEFINE card == [host |-> c, ask |-> p]
    <3>2. Owed(d, k) = 0
      BY <2>4 DEF Owed
    <3>3. card \in Granted(k)'
      <4>1. [card |-> card, verdict |-> answers[p]] \in said' /\ answers[p] # "no"
        BY <1>3, <3>1
      <4>2. p \notin pending'[c]
        BY <1>3, <1>5, <3>1
      <4> QED BY <3>1, <4>1, <4>2 DEF Granted
    <3>4. card \notin Granted(k)
      <4>1. p \in pending[c]
        BY <1>3, <3>1
      <4> QED BY <4>1 DEF Granted
    <3> HIDE DEF card
    <3>5. /\ IsFiniteSet(Granted(k) \cup {card})
          /\ Cardinality(Granted(k) \cup {card}) = Cardinality(Granted(k)) + 1
      BY <1>12, <3>4, FS_AddElement
    <3>6. Granted(k) \cup {card} \subseteq Granted(k)'
      BY <1>12, <3>3
    <3>7. Cardinality(Granted(k)) + 1 <= Cardinality(Granted(k)')
      BY <1>12, <3>5, <3>6, FS_Subset
    <3> QED BY <1>12, <2>1, <2>2, <3>2, <3>7
  <2> QED BY <2>3, <2>4
<1> QED BY <1>10, <1>11, <1>13, <1>14 DEF YesInv

\* An ask that lapses takes no grant with it, and the tidying goes on to look at
\* the jobs.
LEMMA TidyKeepsYes ==
    ASSUME TypeOK, StageInv, YesInv, NEW c \in Controllers, Tidy(c)
    PROVE  YesInv'
<1>0. RoundOK
  BY Parts
<1>1. PICK to \in {"idle", "next"} :
        round' = [round EXCEPT ![c] = [stage |-> to, jobs |-> round[c].jobs,
                                       job |-> Nothing]]
  BY <1>0, GoingOn DEF Tidy
<1>2. PICK lapsed \in SUBSET pending[c] : pending' = [pending EXCEPT ![c] = @ \ lapsed]
  BY DEF Tidy
<1>3. /\ pending \in [Controllers -> SUBSET Ask] /\ done \in [Keys -> Nat]
      /\ UNCHANGED <<once, allow, notes, done, said>> /\ round[c].stage = "tidy"
  BY DEF TypeOK, Tidy, At, ranVars, personVars
<1>4. \A d \in Controllers : pending'[d] \subseteq pending[d]
  BY <1>2, <1>3
<1>5. \A d \in Controllers \ {c} : round'[d] = round[d]
  BY <1>0, <1>1 DEF RoundOK
<1>6. round'[c].stage = to /\ round'[c].job = Nothing /\ round'[c].jobs = round[c].jobs
  BY <1>0, <1>1 DEF RoundOK
<1>7. RouteInv'
  <2>1. \A d \in Controllers : Carried(d)' \subseteq Carried(d)
    BY <1>5, <1>6 DEF Carried
  <2> QED BY <1>3, <1>4, <2>1 DEF YesInv, RouteInv, Asks
<1>8. GateInv'
  BY <1>3, <1>4, <1>5, <1>6 DEF YesInv, GateInv, Remembered, NeedsApproval
<1>9. NoteInv' /\ StandInv'
  BY <1>3 DEF YesInv, NoteInv, StandInv, Stands
<1>10. BudgetInv'
  <2>1. IsFiniteSet(said') /\ said \subseteq said'
    BY <1>3 DEF YesInv, BudgetInv
  <2>2. \A x \in said : x.card.host \in Controllers
    BY DEF TypeOK
  <2>3. \A k \in Keys :
          /\ Stands(k) => Stands(k)'
          /\ Cardinality(Granted(k)) \in Nat /\ Cardinality(Granted(k)') \in Nat
          /\ Cardinality(Granted(k)) <= Cardinality(Granted(k)')
    BY <1>4, <2>1, <2>2, GrantsStay
  <2>4. \A k \in Keys, d \in Controllers : Owed(d, k)' = Owed(d, k) /\ Owed(d, k) \in 0..1
    BY <1>3, <1>5, <1>6 DEF Owed
  <2>5. ASSUME NEW k \in Keys, NEW d \in Controllers, ~Stands(k)'
        PROVE  done'[k] + Owed(d, k)' <= Cardinality(Granted(k)')
    <3>1. done[k] + Owed(d, k) <= Cardinality(Granted(k)) /\ done[k] \in Nat
      BY <1>3, <2>3, <2>5 DEF YesInv, BudgetInv
    <3> QED BY <1>3, <2>3, <2>4, <3>1
  <2> QED BY <2>1, <2>5 DEF BudgetInv
<1> QED BY <1>7, <1>8, <1>9, <1>10 DEF YesInv

\* A new ask is on a card nobody has answered.
LEMMA ParkKeepsYes ==
    ASSUME TypeOK, StageInv, CardInv, YesInv, NEW c \in Controllers, Park(c)
    PROVE  YesInv'
<1> DEFINE ask == [number |-> Mint(c), key |-> round[c].job.key,
                   call |-> round[c].job.call]
<1>0. RoundOK
  BY Parts
<1>1. /\ pending' = [pending EXCEPT ![c] = @ \cup {ask}]
      /\ round' = [round EXCEPT ![c].stage = "answer"]
      /\ UNCHANGED <<once, allow, notes, done, said>> /\ round[c].stage = "park"
  BY DEF Park, Go, At, ranVars
<1>2. ask.key = round[c].job.key /\ ask.number = minted[c] + 1
  BY Minting
<1> HIDE DEF ask
<1>3. round[c].job \in Job /\ round[c].job \in Carried(c)
  BY <1>0, <1>1 DEF RoundOK, InHand, Carried
<1>4. pending \in [Controllers -> SUBSET Ask] /\ done \in [Keys -> Nat]
      /\ minted \in [Controllers -> Nat]
  BY DEF TypeOK
<1>5. \A d \in Controllers :
          /\ round'[d].jobs = round[d].jobs /\ round'[d].job = round[d].job
          /\ round'[d].stage = IF d = c THEN "answer" ELSE round[d].stage
          /\ pending'[d] = IF d = c THEN pending[c] \cup {ask} ELSE pending[d]
  BY <1>0, <1>1, <1>4 DEF RoundOK
<1>6. ask.key \in Asks(c) /\ ~Remembered(c, ask.key)
  BY <1>1, <1>2, <1>3 DEF YesInv, RouteInv, GateInv, Asks, NeedsApproval, Job
<1>7. RouteInv'
  BY <1>1, <1>5, <1>6 DEF YesInv, RouteInv, Asks, Carried
<1>8. GateInv'
  BY <1>1, <1>5, <1>6 DEF YesInv, GateInv, Remembered, NeedsApproval
<1>9. NoteInv' /\ StandInv'
  BY <1>1 DEF YesInv, NoteInv, StandInv, Stands
<1>10. BudgetInv'
  <2>1. IsFiniteSet(said') /\ said \subseteq said'
    BY <1>1 DEF YesInv, BudgetInv
  <2>2. \A x \in said : x.card.host \in Controllers /\ x.card \in cards
    BY DEF TypeOK
  <2>3. \A x \in said : x.card.host = c => x.card.ask # ask
    BY <1>2, <1>4, <2>2 DEF CardInv
  <2>4. \A x \in said : x.card.ask \notin pending[x.card.host] =>
                        x.card.ask \notin pending'[x.card.host]
    BY <1>5, <2>2, <2>3
  <2>5. \A k \in Keys :
          /\ Stands(k) => Stands(k)'
          /\ Cardinality(Granted(k)) \in Nat /\ Cardinality(Granted(k)') \in Nat
          /\ Cardinality(Granted(k)) <= Cardinality(Granted(k)')
    BY <2>1, <2>4, GrantsStay
  <2>6. \A k \in Keys, d \in Controllers : Owed(d, k)' = Owed(d, k) /\ Owed(d, k) \in 0..1
    BY <1>1, <1>5 DEF Owed
  <2>7. ASSUME NEW k \in Keys, NEW d \in Controllers, ~Stands(k)'
        PROVE  done'[k] + Owed(d, k)' <= Cardinality(Granted(k)')
    <3>1. done[k] + Owed(d, k) <= Cardinality(Granted(k)) /\ done[k] \in Nat
      BY <1>4, <2>5, <2>7 DEF YesInv, BudgetInv
    <3> QED BY <1>1, <2>5, <2>6, <3>1
  <2> QED BY <2>1, <2>7 DEF BudgetInv
<1> QED BY <1>7, <1>8, <1>9, <1>10 DEF YesInv

\* A write that succeeds uses up what was owed for it, and nobody else owed it.
LEMMA RunKeepsYes ==
    ASSUME OneAsker, TypeOK, StageInv, YesInv, NEW c \in Controllers, Run(c),
           NeedsApproval(round[c].job), round'[c].stage = "spend"
    PROVE  YesInv'
<1> DEFINE key == round[c].job.key
<1>0. RoundOK
  BY Parts
<1>1. /\ round[c].stage = "run" /\ round' = [round EXCEPT ![c].stage = "spend"]
      /\ done' = [done EXCEPT ![key] = @ + 1]
      /\ UNCHANGED <<pending, once, allow, notes, said>>
  BY <1>0 DEF Run, Go, At, ledgerVars, personVars, RoundOK
<1>2. round[c].job \in Job /\ round[c].job \in Carried(c) /\ key \in Keys
  BY <1>0, <1>1 DEF RoundOK, InHand, Carried, Job
<1>3. \A d \in Controllers :
          /\ round'[d].jobs = round[d].jobs /\ round'[d].job = round[d].job
          /\ round'[d].stage = IF d = c THEN "spend" ELSE round[d].stage
  BY <1>0, <1>1 DEF RoundOK
<1>4. key \in Asks(c) /\ Remembered(c, key)
  BY <1>1, <1>2 DEF YesInv, RouteInv, GateInv, Asks, NeedsApproval
<1>5. \A d \in Controllers \ {c} : once[d] \cup allow[d] = {}
  BY <1>4 DEF OneAsker, YesInv, RouteInv
<1>6. RouteInv'
  BY <1>1, <1>3 DEF YesInv, RouteInv, Asks, Carried
<1>7. GateInv'
  BY <1>1, <1>3, <1>4 DEF YesInv, GateInv, Remembered, NeedsApproval
<1>8. NoteInv' /\ StandInv'
  BY <1>1 DEF YesInv, NoteInv, StandInv, Stands
<1>9. \A k \in Keys : Stands(k)' = Stands(k) /\ Granted(k)' = Granted(k)
  BY <1>1 DEF Stands, Granted
<1>10. \A k \in Keys : /\ done[k] \in Nat
                       /\ done'[k] = IF k = key THEN done[k] + 1 ELSE done[k]
  BY <1>1, <1>2 DEF TypeOK
<1>11. ASSUME NEW k \in Keys, NEW d \in Controllers, ~Stands(k)
       PROVE  done'[k] + Owed(d, k)' <= Cardinality(Granted(k))
  <2>1. \A e \in Controllers : done[k] + Owed(e, k) <= Cardinality(Granted(k))
    BY <1>11 DEF YesInv, BudgetInv
  <2>2. CASE k # key
    <3>1. Owed(d, k)' = Owed(d, k)
      BY <1>1, <1>3, <2>2 DEF Owed
    <3> QED BY <1>10, <2>1, <2>2, <3>1
  <2>3. CASE k = key
    <3>1. k \in once[c]
      BY <1>4, <1>11, <2>3 DEF Remembered, YesInv, StandInv
    <3>2. Owed(c, k) = 1 /\ Owed(c, k)' = 0
      BY <1>1, <1>3, <2>3, <3>1 DEF Owed
    <3>3. d # c => Owed(d, k)' = 0
      BY <1>1, <1>5 DEF Owed
    <3>4. Owed(d, k)' = 0 /\ done[k] + 1 <= Cardinality(Granted(k))
      BY <2>1, <3>2, <3>3
    <3> QED BY <1>10, <2>3, <3>4
  <2> QED BY <2>2, <2>3
<1>12. BudgetInv'
  BY <1>1, <1>9, <1>11 DEF YesInv, BudgetInv
<1> QED BY <1>6, <1>7, <1>8, <1>12 DEF YesInv

\* A grant that is spent was owing nothing.
LEMMA SpendKeepsYes ==
    ASSUME TypeOK, StageInv, YesInv, NEW c \in Controllers, Spend(c)
    PROVE  YesInv'
<1> DEFINE key == round[c].job.key
<1>0. RoundOK
  BY Parts
<1>1. /\ round[c].stage = "spend" /\ round' = [round EXCEPT ![c].stage = "answer"]
      /\ once' = [once EXCEPT ![c] = @ \ {key}]
      /\ UNCHANGED <<pending, allow, notes, done, said>>
  BY DEF Spend, Spent, Go, At, ranVars, personVars
<1>2. \A d \in Controllers :
          /\ round'[d].jobs = round[d].jobs /\ round'[d].job = round[d].job
          /\ round'[d].stage = IF d = c THEN "answer" ELSE round[d].stage
          /\ once'[d] = IF d = c THEN once[c] \ {key} ELSE once[d]
  BY <1>0, <1>1 DEF RoundOK, TypeOK
<1>3. RouteInv'
  BY <1>1, <1>2 DEF YesInv, RouteInv, Asks, Carried
<1>4. GateInv'
  BY <1>1, <1>2 DEF YesInv, GateInv, Remembered, NeedsApproval
<1>5. NoteInv' /\ StandInv'
  BY <1>1 DEF YesInv, NoteInv, StandInv, Stands
<1>6. \A k \in Keys : Stands(k)' = Stands(k) /\ Granted(k)' = Granted(k)
  BY <1>1 DEF Stands, Granted
<1>7. \A k \in Keys, d \in Controllers : Owed(d, k)' = Owed(d, k)
  BY <1>1, <1>2 DEF Owed
<1>8. BudgetInv'
  BY <1>1, <1>6, <1>7 DEF YesInv, BudgetInv
<1> QED BY <1>3, <1>4, <1>5, <1>8 DEF YesInv

\* The only card that is new is of the job in hand.
LEMMA CardKeyStep ==
    ASSUME TypeOK, StageInv, YesInv, CardKeyInv, [Next]_vars
    PROVE  CardKeyInv'
<1>1. ASSUME NEW c \in Controllers, Park(c) PROVE CardKeyInv'
  <2> DEFINE ask == [number |-> Mint(c), key |-> round[c].job.key,
                     call |-> round[c].job.call]
             card == [host |-> c, ask |-> ask]
  <2>1. /\ cards' = cards \cup {card} /\ card.host = c
        /\ card.ask.key = round[c].job.key
    BY <1>1 DEF Park
  <2> HIDE DEF ask, card
  <2>2. round[c].stage = "park" /\ round[c].job \in Job /\ round[c].job \in Carried(c)
    BY <1>1, Parts DEF Park, At, RoundOK, InHand, Carried
  <2>3. card.ask.key \in Asks(c)
    BY <2>1, <2>2 DEF YesInv, RouteInv, GateInv, Asks, NeedsApproval, Job
  <2> QED BY <2>1, <2>3 DEF CardKeyInv, Asks
<1>2. CASE \A c \in Controllers : ~Park(c)
  BY <1>2, OnlyParkAsks DEF CardKeyInv, Asks
<1> QED BY <1>1, <1>2

\* With one controller that asks, a number is that of one card.
LEMMA OneCard ==
    ASSUME OneAsker, TypeOK, CardInv, CardKeyInv, NEW c \in Controllers,
           NEW p \in pending[c], NEW x \in cards, x.ask.number = p.number
    PROVE  x = [host |-> c, ask |-> p]
<1>1. [host |-> c, ask |-> p] \in cards
  BY DEF CardInv
<1>2. x.host \in Controllers /\ x = [host |-> x.host, ask |-> x.ask]
  BY DEF TypeOK
<1>3. p.key \in Asks(c) /\ x.ask.key \in Asks(x.host)
  BY <1>1 DEF CardKeyInv
<1>4. x.host = c
  BY <1>2, <1>3 DEF OneAsker
<1> QED BY <1>1, <1>4 DEF CardInv, CardsDiffer

\* Whatever the person says and a controller hears of it, an ask that is
\* settled is on a card the person answered so.
LEMMA PersonKeepsYes ==
    ASSUME OneAsker, TypeOK, CardInv, CardKeyInv, AskInv, YesInv,
           Person \/ \E c \in Controllers : TakeVerdicts(c)
    PROVE  YesInv'
<1> USE DEF ledgerVars, ranVars, personVars
<1>0. /\ notes \subseteq [number : Nat, verdict : Verdicts]
      /\ said \subseteq [card : cards, verdict : Verdicts]
      /\ IsFiniteSet(said) /\ NoteInv
  BY DEF TypeOK, YesInv, BudgetInv
<1>1. ASSUME NEW c \in Controllers, AnswerAtDashboard(c) PROVE YesInv'
  <2>1. PICK p \in pending[c], v \in Verdicts :
          Settle(c, [q \in {p} |-> v]) /\ Hear([host |-> c, ask |-> p], v)
    BY <1>1 DEF AnswerAtDashboard
  <2> DEFINE answers == [q \in {p} |-> v]
             x == [card |-> [host |-> c, ask |-> p], verdict |-> v]
  <2>2. said' = said \cup {x} /\ IsFiniteSet(said')
    BY <1>0, <2>1, FS_AddElement DEF Hear
  <2>3. \A q \in DOMAIN answers :
            [card |-> [host |-> c, ask |-> q], verdict |-> answers[q]] \in said'
    BY <2>2
  <2>4. UNCHANGED <<round, done, notes>>
    BY <1>1 DEF AnswerAtDashboard
  <2>5. NoteInv'
    BY <1>0, <2>2, <2>4 DEF NoteInv
  <2>6. DOMAIN answers \subseteq pending[c] /\ Settle(c, answers)
    BY <2>1
  <2> HIDE DEF answers
  <2> QED BY <2>2, <2>3, <2>4, <2>5, <2>6, SettlingKeepsYes
<1>2. ASSUME NEW voice \in Voices, NEW card \in cards, NEW v \in Verdicts,
             AnswerInChat(voice, card, v)
      PROVE  YesInv'
  <2> DEFINE open == {p \in pending[voice] : p.number = card.ask.number}
             x == [card |-> card, verdict |-> v]
  <2>1. voice \in Controllers
    BY WantedAssumption
  <2>2. said' = said \cup {x} /\ IsFiniteSet(said')
    BY <1>0, <1>2, FS_AddElement DEF AnswerInChat, Hear
  <2>3. UNCHANGED <<round, done>>
    BY <1>2 DEF AnswerInChat
  <2>4. NoteInv'
    <3>1. \A n \in notes' : n \in notes \/ n = [number |-> card.ask.number, verdict |-> v]
      BY <1>2 DEF AnswerInChat
    <3>2. x \in said' /\ x.card.ask.number = card.ask.number /\ x.verdict = v
      BY <2>2
    <3> HIDE DEF x
    <3>3. ASSUME NEW n \in notes'
          PROVE  \E y \in said' : y.card.ask.number = n.number /\ y.verdict = n.verdict
      <4>1. CASE n \in notes
        BY <1>0, <2>2, <4>1 DEF NoteInv
      <4>2. CASE n = [number |-> card.ask.number, verdict |-> v]
        BY <3>2, <4>2
      <4> QED BY <3>1, <4>1, <4>2
    <3> QED BY <3>3 DEF NoteInv
  <2>5. CASE Settle(voice, [p \in open |-> v])
    <3> DEFINE answers == [p \in open |-> v]
    <3>1. \A p \in open : card = [host |-> voice, ask |-> p]
      BY <2>1, OneCard
    <3>2. \A p \in DOMAIN answers :
              [card |-> [host |-> voice, ask |-> p], verdict |-> answers[p]] \in said'
      BY <2>2, <3>1
    <3>3. DOMAIN answers \subseteq pending[voice] /\ Settle(voice, answers)
      BY <2>5
    <3> HIDE DEF answers
    <3> QED BY <2>1, <2>2, <2>3, <2>4, <3>2, <3>3, SettlingKeepsYes
  <2>6. CASE UNCHANGED ledgerVars
    <3> DEFINE answers == [p \in {} |-> v]
    <3>1. Settle(voice, answers)
      BY <2>1, <2>6 DEF Settle, StillOpen, Numbers, TypeOK
    <3>2. DOMAIN answers = {}
      OBVIOUS
    <3> HIDE DEF answers
    <3> QED BY <2>1, <2>2, <2>3, <2>4, <3>1, <3>2, SettlingKeepsYes
  <2> QED BY <1>2, <2>5, <2>6 DEF AnswerInChat
<1>3. ASSUME NEW c \in Controllers, TakeVerdicts(c) PROVE YesInv'
  <2>1. PICK read \in SUBSET notes :
          LET mine == {p \in pending[c] : p.number \in Numbers(read)}
              From(p) == {n \in read : n.number = p.number}
          IN Settle(c, [p \in mine |-> (CHOOSE n \in From(p) : TRUE).verdict])
    BY <1>3 DEF TakeVerdicts
  <2> DEFINE mine == {p \in pending[c] : p.number \in Numbers(read)}
             From(p) == {n \in read : n.number = p.number}
             answers == [p \in mine |-> (CHOOSE n \in From(p) : TRUE).verdict]
  <2>2. UNCHANGED <<round, done, notes, said>>
    BY <1>3 DEF TakeVerdicts
  <2>3. NoteInv'
    BY <1>0, <2>2 DEF NoteInv
  <2>4. ASSUME NEW p \in mine
        PROVE  [card |-> [host |-> c, ask |-> p], verdict |-> answers[p]] \in said
    <3> DEFINE n == CHOOSE n \in From(p) : TRUE
    <3>1. From(p) # {}
      BY DEF Numbers
    <3>2. n \in From(p) /\ answers[p] = n.verdict
      BY <3>1
    <3> HIDE DEF n, answers
    <3>3. n \in notes /\ n.number = p.number
      BY <3>2
    <3>4. PICK x \in said : x.card.ask.number = n.number /\ x.verdict = n.verdict
      BY <1>0, <3>3 DEF NoteInv
    <3>5. x.card = [host |-> c, ask |-> p]
      BY <1>0, <3>3, <3>4, OneCard
    <3>6. x = [card |-> x.card, verdict |-> x.verdict]
      BY <1>0
    <3> QED BY <3>2, <3>4, <3>5, <3>6
  <2>5. DOMAIN answers = mine /\ Settle(c, answers)
    BY <2>1
  <2> HIDE DEF answers
  <2> QED BY <1>0, <2>2, <2>3, <2>4, <2>5, SettlingKeepsYes
<1> QED BY <1>1, <1>2, <1>3 DEF Person

\* No step runs a write that is not granted, or keeps a grant that was used.
LEMMA YesStep ==
    ASSUME OneAsker, ~DiesUnspent, TypeOK, StageInv, CardInv, AskInv, CardKeyInv, YesInv,
           [Next]_vars
    PROVE  YesInv'
<1> USE DEF queueVars, ledgerVars, ranVars, personVars
<1>0. RoundOK /\ QueueOK
  BY Parts
<1>1. ASSUME UNCHANGED <<round, pending, once, allow, notes, done, said>>
      PROVE  YesInv'
  <2>1. \A c \in Controllers : Carried(c)' = Carried(c)
    BY <1>1 DEF Carried
  <2> QED BY <1>1, <2>1, QuietKeepsYes DEF YesInv, RouteInv
<1>2. ASSUME NEW a \in Agents, Agent(a) PROVE YesInv'
  BY <1>1, <1>2 DEF Agent, Submit, Result, GiveUp
<1>3. CASE Restart \/ UNCHANGED vars
  BY <1>1, <1>3 DEF Restart, vars
<1>4. ASSUME NEW c \in Controllers, NEW to, round' = [round EXCEPT ![c] = to],
             round[c].stage # "spend",
             UNCHANGED <<pending, once, allow, notes, done, said>>,
             \A j \in to.jobs \cup ({to.job} \ {Nothing}) : j.key.machine \in Reach[c],
             to.stage # "spend",
             to.stage = "park" => NeedsApproval(to.job) /\ ~Remembered(c, to.job.key),
             to.stage = "run" /\ NeedsApproval(to.job) => Remembered(c, to.job.key)
      PROVE  YesInv'
  <2>1. \A d \in Controllers : round'[d] = IF d = c THEN to ELSE round[d]
    BY <1>0, <1>4 DEF RoundOK
  <2>2. \A d \in Controllers : \A j \in Carried(d)' : j.key.machine \in Reach[d]
    BY <1>4, <2>1 DEF Carried, YesInv, RouteInv
  <2> QED BY <1>4, <2>1, <2>2, QuietKeepsYes
<1>5. ASSUME NEW c \in Controllers, Poll(c) PROVE YesInv'
  <2>1. PICK old \in Expired :
          round' = [round EXCEPT ![c] =
              [Idle EXCEPT !.stage = "tidy",
                           !.jobs = {e.job : e \in Offered(entries \ old, Reach[c])}]]
    BY <1>5 DEF Poll
  <2> DEFINE jobs == {e.job : e \in Offered(entries \ old, Reach[c])}
  <2>2. \A j \in jobs : j.key.machine \in Reach[c]
    BY DEF Offered
  <2> HIDE DEF jobs
  <2> DEFINE mid == [Idle EXCEPT !.stage = "tidy"]
             to == [mid EXCEPT !.jobs = jobs]
  <2>3. to = [stage |-> "tidy", jobs |-> jobs, job |-> Nothing]
    <3>1. mid = [stage |-> "tidy", jobs |-> {}, job |-> Nothing]
      BY DEF Idle
    <3> HIDE DEF mid
    <3> QED BY <3>1
  <2>4. to.stage = "tidy" /\ to.jobs = jobs /\ to.job = Nothing
    BY <2>3
  <2>5. round' = [round EXCEPT ![c] = to]
    BY <2>1 DEF jobs
  <2>6. /\ round[c].stage # "spend"
        /\ UNCHANGED <<pending, once, allow, notes, done, said>>
    BY <1>5 DEF Poll, At
  <2> HIDE DEF to
  <2> QED BY <1>4, <2>2, <2>4, <2>5, <2>6
<1>6. ASSUME NEW c \in Controllers, Gate(c) PROVE YesInv'
  <2>1. PICK job \in round[c].jobs, step \in {"run", "answer", "park"} :
          /\ round' = [round EXCEPT ![c] =
                [stage |-> step, jobs |-> round[c].jobs \ {job}, job |-> job]]
          /\ step = "park" => NeedsApproval(job) /\ ~Remembered(c, job.key)
          /\ step = "run" /\ NeedsApproval(job) => Remembered(c, job.key)
    BY <1>6 DEF Gate
  <2>2. \A j \in round[c].jobs : j.key.machine \in Reach[c]
    BY DEF Carried, YesInv, RouteInv
  <2> DEFINE to == [stage |-> step, jobs |-> round[c].jobs \ {job}, job |-> job]
  <2>3. to.stage = step /\ to.jobs = round[c].jobs \ {job} /\ to.job = job
    OBVIOUS
  <2>4. /\ round' = [round EXCEPT ![c] = to] /\ round[c].stage # "spend"
        /\ UNCHANGED <<pending, once, allow, notes, done, said>>
    BY <1>6, <2>1 DEF Gate, At
  <2> HIDE DEF to
  <2> QED BY <1>4, <2>1, <2>2, <2>3, <2>4
<1>7. ASSUME NEW c \in Controllers, Run(c), round'[c].stage # "spend" PROVE YesInv'
  <2>1. /\ round' = [round EXCEPT ![c] = [stage |-> "answer", jobs |-> round[c].jobs,
                                          job |-> round[c].job]]
        /\ done' = done
    BY <1>0, <1>7 DEF Run, Go, RoundOK
  <2>2. \A j \in Carried(c) : j.key.machine \in Reach[c]
    BY DEF YesInv, RouteInv
  <2> DEFINE to == [stage |-> "answer", jobs |-> round[c].jobs, job |-> round[c].job]
  <2>3. to.stage = "answer" /\ to.jobs \cup ({to.job} \ {Nothing}) = Carried(c)
    BY DEF Carried
  <2>4. /\ round' = [round EXCEPT ![c] = to] /\ round[c].stage # "spend"
        /\ UNCHANGED <<pending, once, allow, notes, done, said>>
    BY <1>7, <2>1 DEF Run, At
  <2> HIDE DEF to
  <2> QED BY <1>4, <2>2, <2>3, <2>4
<1>8. ASSUME NEW c \in Controllers, Run(c), round'[c].stage = "spend" PROVE YesInv'
  <2>1. NeedsApproval(round[c].job)
    BY <1>0, <1>8 DEF Run, Go, RoundOK
  <2> QED BY <1>8, <2>1, RunKeepsYes
<1>9. ASSUME NEW c \in Controllers, Answer(c) PROVE YesInv'
  <2>1. PICK to \in {"idle", "next"} :
          round' = [round EXCEPT ![c] = [stage |-> to, jobs |-> round[c].jobs,
                                         job |-> Nothing]]
    BY <1>0, <1>9, GoingOn DEF Answer
  <2>2. \A j \in round[c].jobs : j.key.machine \in Reach[c]
    BY DEF Carried, YesInv, RouteInv
  <2> DEFINE on == [stage |-> to, jobs |-> round[c].jobs, job |-> Nothing]
  <2>3. on.stage = to /\ on.jobs = round[c].jobs /\ on.job = Nothing
    OBVIOUS
  <2>4. /\ round' = [round EXCEPT ![c] = on] /\ round[c].stage # "spend"
        /\ UNCHANGED <<pending, once, allow, notes, done, said>>
    BY <1>9, <2>1 DEF Answer, At
  <2> HIDE DEF on
  <2> QED BY <1>4, <2>2, <2>3, <2>4
<1>10. ASSUME NEW c \in Controllers, Abandon(c) PROVE YesInv'
  <2>1. round' = [round EXCEPT ![c] = [stage |-> "idle", jobs |-> {}, job |-> Nothing]]
    BY <1>10 DEF Abandon, Idle
  <2> QED BY <1>4, <1>10, <2>1 DEF Abandon, At
<1> QED
  BY <1>2, <1>3, <1>5, <1>6, <1>7, <1>8, <1>9, <1>10, TidyKeepsYes, ParkKeepsYes,
     SpendKeepsYes, PersonKeepsYes DEF Next, Pump

-----------------------------------------------------------------------------
IInv == TypeOK /\ StageInv /\ CardInv /\ AskInv /\ CallInv

LEMMA Initially == Init => IInv
<1> SUFFICES ASSUME Init PROVE IInv
  OBVIOUS
<1>0. QueueLimit \in Nat /\ MaxCalls \in Nat /\ MaxRestarts \in Nat
  BY LimitsAssumption
<1>1. IsFiniteSet({}) /\ Cardinality({}) = 0
  BY FS_EmptySet
<1>2. TypeOK
  BY <1>0, <1>1 DEF Init, TypeOK, Idle
<1>3. StageInv
  BY <1>0, <1>1 DEF Init, StageInv, Idle, InHand
<1>4. CardInv /\ AskInv
  BY DEF Init, CardInv, CardsDiffer, AskInv, OneAskAtATime, Idle
<1>5. \A c \in Controllers : Carried(c) = {} /\ round[c] = Idle
  BY DEF Init, Carried, Idle
<1>6. CallInv
  BY <1>0, <1>5 DEF Init, CallInv, Idle
<1> QED BY <1>2, <1>3, <1>4, <1>6 DEF IInv

LEMMA Inductive == IInv /\ [Next]_vars => IInv'
BY TypesStep, CardStep, AskStep, CallStep DEF IInv

LEMMA Invariantly == Spec => []IInv
BY Initially, Inductive, PTL DEF Spec

\* Every variable keeps its type, and a daemon's queue its limit, however many
\* agents call and controllers come.
THEOREM TypeCorrect == Spec => []TypeOK
<1>1. IInv => TypeOK
  BY DEF IInv
<1> QED BY <1>1, Invariantly, PTL

\* No call is carried out twice, whatever becomes of the controller that took
\* it, of the agent that left it, or of the daemon's queue.
THEOREM RunsOnceAlways == Spec => []RunsOnce
<1>1. IInv => RunsOnce
  BY DEF IInv, CallInv, RunsOnce
<1> QED BY <1>1, Invariantly, PTL

\* However often an agent calls again, a person is asked once.
THEOREM AskedOnce == Spec => []OneAskAtATime
<1>1. IInv => OneAskAtATime
  BY DEF IInv, AskInv
<1> QED BY <1>1, Invariantly, PTL

\* A controller never gives a number twice, lapsed and answered asks included.
THEOREM NumbersDiffer == Spec => []CardsDiffer
<1>1. IInv => CardsDiffer
  BY DEF IInv, CardInv
<1> QED BY <1>1, Invariantly, PTL


\* Where one controller asks, and lives to spend what it was granted, a write is
\* run no more often than the person allowed it: not when the agent calls again,
\* when the reply comes late or twice or over the board, when the ask has
\* lapsed, or when the daemon forgot its queue.
THEOREM WritesAsAllowed ==
    ASSUME OneAsker, ~DiesUnspent
    PROVE  Spec => []OneRunPerYes
<1> DEFINE Yes == CardKeyInv /\ YesInv
<1>1. Init => Yes
  <2> SUFFICES ASSUME Init PROVE Yes
    OBVIOUS
  <2>1. RouteInv /\ GateInv /\ NoteInv /\ StandInv /\ CardKeyInv
    BY DEF Init, Idle, Carried, RouteInv, GateInv, NoteInv, StandInv, CardKeyInv
  <2>2. IsFiniteSet(said) /\ \A k \in Keys : Granted(k) = {}
    BY FS_EmptySet DEF Init, Granted
  <2>3. \A k \in Keys, c \in Controllers : done[k] = 0 /\ Owed(c, k) = 0
    BY DEF Init, Owed
  <2>4. BudgetInv
    BY <2>2, <2>3, FS_EmptySet DEF BudgetInv
  <2> QED BY <2>1, <2>4 DEF YesInv
<1>2. IInv /\ Yes /\ [Next]_vars => Yes'
  BY YesStep, CardKeyStep DEF IInv
<1>3. IInv /\ Yes => OneRunPerYes
  <2> SUFFICES ASSUME IInv, Yes, NEW k \in Keys, ~Stands(k)
               PROVE  done[k] <= Cardinality({x.card : x \in {y \in said :
                                     y.card.ask.key = k /\ y.verdict # "no"}})
    BY DEF OneRunPerYes, Stands
  <2> DEFINE S == {y \in said : y.card.ask.key = k /\ y.verdict # "no"}
             f == [x \in S |-> x.card]
             T == {f[x] : x \in S}
  <2>1. IsFiniteSet(said)
    BY DEF YesInv, BudgetInv
  <2>2. IsFiniteSet(S)
    BY <2>1, FS_Subset
  <2>3. DOMAIN f = S /\ T = {x.card : x \in S} /\ Granted(k) \subseteq T
    BY DEF Granted
  <2> HIDE DEF S, f
  <2>4. IsFiniteSet(T)
    BY <2>2, <2>3, Replacing
  <2>5. Cardinality(Granted(k)) <= Cardinality(T) /\ Cardinality(T) \in Nat
        /\ Cardinality(Granted(k)) \in Nat
    BY <2>3, <2>4, FS_Subset, FS_CardinalityType
  <2>6. PICK c \in Controllers : TRUE
    BY DEF OneAsker
  <2>7. /\ done[k] + Owed(c, k) <= Cardinality(Granted(k))
        /\ done[k] \in Nat /\ Owed(c, k) \in 0..1
    BY DEF YesInv, BudgetInv, IInv, TypeOK, Owed
  <2>8. done[k] <= Cardinality(T)
    BY <2>5, <2>7
  <2> QED BY <2>3, <2>8 DEF S
<1> QED BY <1>1, <1>2, <1>3, Invariantly, PTL DEF Spec

=============================================================================
