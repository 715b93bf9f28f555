-------------------------------- MODULE Relay --------------------------------
(***************************************************************************)
(* Calls to other machines: the queue in a daemon that agents leave them   *)
(* in, the controllers that carry them, and the ledgers in which a person  *)
(* allows the ones that change something.                                  *)
(*                                                                         *)
(* A daemon sees only its own machine.  An agent submits a job and looks   *)
(* for its answer; a controller asks for work, runs what it is handed and  *)
(* writes the answer back.  A job that changes something runs only if the  *)
(* ledger beside that controller remembers a yes; otherwise the person is  *)
(* asked, the agent is told so, and calls again.  The person answers at    *)
(* that controller's dashboard or in chat.  The chat has one voice among   *)
(* the controllers, whoever holds the lease on it just then, and that      *)
(* passes on over the board what is not its own.                           *)
(*                                                                         *)
(* Abstracted: a call is its tool and machine, its arguments and output    *)
(* are left out; the clock is left out, so that a job nobody waits for may *)
(* have expired, an ask may have lapsed, and a note on the board may not   *)
(* have arrived; every controller names its machines when it polls.        *)
(***************************************************************************)
EXTENDS Integers, FiniteSets, FiniteSetsExt

CONSTANTS
    Agents,         \* the sessions on the daemon's machine
    Wanted,         \* the calls each of them makes, by tool and machine
    Controllers,    \* one for each machine a dashboard runs on
    Reach,          \* the machines each controller carries calls to
    Voices,         \* the controllers that may hold the lease on the chat
    Writes,         \* tools that need approval
    Standing,       \* tools whose approval may stand
    QueueLimit,     \* QUEUE_LIMIT
    MaxCalls,       \* BOUND: calls made
    MaxRestarts,    \* BOUND: restarts of the daemon
    MaxReplies,     \* BOUND: answers to asks that were answered otherwise before,
                    \* and whether the person repeats one at all
    DiesUnspent,    \* may a controller die before it has spent a grant
    Nothing         \* no job

ASSUME WantedAssumption ==
    /\ Wanted \in [Agents -> SUBSET [tool : STRING, machine : STRING]]
    /\ Reach \in [Controllers -> SUBSET STRING]
    /\ Voices \subseteq Controllers
ASSUME ToolsAssumption == Standing \subseteq Writes /\ DiesUnspent \in BOOLEAN
ASSUME LimitsAssumption ==
    QueueLimit \in Nat \ {0} /\ MaxCalls \in Nat /\ MaxRestarts \in Nat /\ MaxReplies \in Nat

VARIABLES
    entries,    \* RelayQueue::entries
    next,       \* RelayQueue::next
    seen,       \* the controllers that have polled this daemon
    restarts,   \* how often it was restarted
    waiting,    \* the job each agent waits for
    round,      \* what each controller is doing
    pending, once, allow, minted, settled,  \* each controller's ledger
    notes,      \* verdicts passed on over the board
    \* What really happened, which no process knows:
    calls,      \* calls made so far; each has its number
    runs,       \* how often each call was run
    done,       \* runs of each write that succeeded
    cards,      \* every ask that was put to the person
    said        \* what the person answered to which

queueVars  == <<entries, next, seen, restarts>>
ledgerVars == <<pending, once, allow, minted, settled>>
ranVars    == <<runs, done>>
personVars == <<cards, said>>
vars == <<queueVars, waiting, round, ledgerVars, notes, calls, ranVars,
          personVars>>

Keys == UNION {{[session |-> a, tool |-> w.tool, machine |-> w.machine] : w \in Wanted[a]}
               : a \in Agents}
Call == 1..MaxCalls
Job  == [id : Call, key : Keys, call : Call]
Ask  == [number : Nat, key : Keys, call : Call]
Verdicts == {"yes", "always", "no"}
NoAnswer == 0
Idle == [stage |-> "idle", jobs |-> {}, job |-> Nothing]

ASSUME NothingAssumption == Nothing \notin Job

NeedsApproval(job) == job.key.tool \in Writes

(***************************************************************************)
(* The queue.                                                              *)
(***************************************************************************)
Awaited(e) == \E a \in Agents : waiting[a] # Nothing /\ waiting[a].call = e.job.call

\* An agent waits for a minute and a job expires after two: what has expired
\* is nobody's any more, and is older than all that has not.
Expired ==
    {old \in SUBSET entries :
        \A e \in old : /\ ~Awaited(e)
                       /\ \A f \in entries : f.job.id < e.job.id => f \in old}

HasRoom(queue) == Cardinality(queue) < QueueLimit

\* What a controller that reaches these machines is handed.
Offered(queue, machines) ==
    {e \in queue : ~e.taken /\ e.answer = NoAnswer /\ e.job.key.machine \in machines}

HandOutAgain(queue, offered) == queue

\* Each is handed out once.
HandOut(queue, offered) ==
    (queue \ offered) \cup {[e EXCEPT !.taken = TRUE] : e \in offered}

\* A machine none of the controllers reaches is refused, and so is any when no
\* controller has been there.
Submit(a) ==
    /\ waiting[a] = Nothing /\ calls < MaxCalls
    /\ \E w \in Wanted[a] :
          LET job == [id |-> next + 1, call |-> calls + 1,
                      key |-> [session |-> a, tool |-> w.tool, machine |-> w.machine]]
          IN /\ \E c \in seen : w.machine \in Reach[c]
             /\ \E old \in Expired :
                   /\ HasRoom(entries \ old)
                   /\ entries' = (entries \ old)
                         \cup {[job |-> job, taken |-> FALSE, answer |-> NoAnswer]}
             /\ waiting' = [waiting EXCEPT ![a] = job]
    /\ next' = next + 1
    /\ calls' = calls + 1
    /\ UNCHANGED <<seen, restarts, round, ledgerVars, notes, ranVars, personVars>>

\* The agent looks for its answer, and takes it off the queue.
Result(a) ==
    /\ waiting[a] # Nothing
    /\ \E old \in Expired :
          LET mine == {e \in entries \ old : e.job.id = waiting[a].id}
          IN /\ \A e \in mine : e.answer # NoAnswer
             /\ entries' = (entries \ old) \ mine
    /\ waiting' = [waiting EXCEPT ![a] = Nothing]
    /\ UNCHANGED <<next, seen, restarts, round, ledgerVars, notes, calls, ranVars,
                   personVars>>

\* It is not there yet, and the agent has waited long enough, or has stopped.
GiveUp(a) ==
    /\ waiting[a] # Nothing
    /\ waiting' = [waiting EXCEPT ![a] = Nothing]
    /\ UNCHANGED <<queueVars, round, ledgerVars, notes, calls, ranVars, personVars>>

\* The queue is in memory, and its numbers with it.
Restart ==
    /\ restarts < MaxRestarts
    /\ entries' = {} /\ next' = 0 /\ seen' = {}
    /\ restarts' = restarts + 1
    /\ UNCHANGED <<waiting, round, ledgerVars, notes, calls, ranVars, personVars>>

(***************************************************************************)
(* A ledger.  Every change reads the file, changes it and writes it back   *)
(* under one lock, and one controller at a time uses a file.               *)
(***************************************************************************)
Remembered(c, key) == key \in once[c] \cup allow[c]

NeverOpen(c, key) == FALSE
OpenAsk(c, key) == \E p \in pending[c] : p.key = key

Numbers(asks) == {p.number : p \in asks}

MintOverOpen(c) == Max({0} \cup Numbers(pending[c])) + 1

\* The number of the next ask counts from the file, not from what is open.
Mint(c) == Max({minted[c]} \cup Numbers(pending[c])) + 1

Kept(grants, key) == grants

\* What is left of the one-run grants when the run one let through is over.
Spent(grants, key) == grants \ {key}

\* Variant: an ask that was answered stays open.
LeftOpen(c, asks) == pending[c]
StillOpen(c, asks) == pending[c] \ asks

\* Asks answered together, each with its verdict.
Settle(c, answers) ==
    LET For(verdicts) == {p \in DOMAIN answers : answers[p] \in verdicts}
        stands == {p \in For({"always"}) : p.key.tool \in Standing}
        oneRun == For({"yes", "always"}) \ stands
    IN /\ pending' = [pending EXCEPT ![c] = StillOpen(c, DOMAIN answers)]
       /\ settled' = [settled EXCEPT ![c] = @ \cup Numbers(DOMAIN answers)]
       /\ once' = [once EXCEPT ![c] = @ \cup {p.key : p \in oneRun}]
       /\ allow' = [allow EXCEPT ![c] = @ \cup {p.key : p \in stands}]
       /\ UNCHANGED minted

(***************************************************************************)
(* A controller's round.                                                   *)
(***************************************************************************)
At(c, stage) == round[c].stage = stage
Go(c, stage) == round' = [round EXCEPT ![c].stage = stage]

\* On to the next job, or round again when there is none.
Onward(c) ==
    LET stage == IF round[c].jobs = {} THEN "idle" ELSE "next"
    IN round' = [round EXCEPT ![c].stage = stage, ![c].job = Nothing]

Poll(c) ==
    /\ At(c, "idle")
    /\ seen' = seen \cup {c}
    /\ \E old \in Expired :
          LET offered == Offered(entries \ old, Reach[c])
          IN /\ entries' = HandOut(entries \ old, offered)
             /\ round' = [round EXCEPT ![c] =
                   [Idle EXCEPT !.stage = "tidy", !.jobs = {e.job : e \in offered}]]
    /\ UNCHANGED <<next, restarts, waiting, ledgerVars, notes, calls, ranVars,
                   personVars>>

\* Asks a day old have lapsed.
Tidy(c) ==
    /\ At(c, "tidy")
    /\ \E lapsed \in SUBSET pending[c] :
          /\ \A p \in lapsed, q \in pending[c] : q.number < p.number => q \in lapsed
          /\ pending' = [pending EXCEPT ![c] = @ \ lapsed]
    /\ Onward(c)
    /\ UNCHANGED <<queueVars, waiting, once, allow, minted, settled, notes, calls,
                   ranVars, personVars>>

\* The next job: run it, or answer that the person is still being asked, or
\* ask.
Gate(c) ==
    /\ At(c, "next")
    /\ \E job \in round[c].jobs :
          /\ \A other \in round[c].jobs : job.id <= other.id
          /\ LET step == IF ~NeedsApproval(job) \/ Remembered(c, job.key) THEN "run"
                         ELSE IF OpenAsk(c, job.key) THEN "answer" ELSE "park"
             IN round' = [round EXCEPT ![c] =
                   [stage |-> step, jobs |-> @.jobs \ {job}, job |-> job]]
    /\ UNCHANGED <<queueVars, waiting, ledgerVars, notes, calls, ranVars, personVars>>

\* The ask is in the ledger before it is put to the person anywhere.
Park(c) ==
    /\ At(c, "park")
    /\ LET job == round[c].job
           ask == [number |-> Mint(c), key |-> job.key, call |-> job.call]
       IN /\ pending' = [pending EXCEPT ![c] = @ \cup {ask}]
          /\ minted' = [minted EXCEPT ![c] = Mint(c)]
          /\ cards' = cards \cup {[host |-> c, ask |-> ask]}
    /\ Go(c, "answer")
    /\ UNCHANGED <<queueVars, waiting, once, allow, settled, notes, calls, ranVars,
                   said>>

Run(c) ==
    /\ At(c, "run")
    /\ LET job == round[c].job
           write == NeedsApproval(job)
       IN /\ runs' = [runs EXCEPT ![job.call] = @ + 1]
          /\ \/ /\ done' = IF write THEN [done EXCEPT ![job.key] = @ + 1] ELSE done
                /\ Go(c, IF write THEN "spend" ELSE "answer")
             \/ /\ done' = done
                /\ Go(c, "answer")
    /\ UNCHANGED <<queueVars, waiting, ledgerVars, notes, calls, personVars>>

Spend(c) ==
    /\ At(c, "spend")
    /\ once' = [once EXCEPT ![c] = Spent(@, round[c].job.key)]
    /\ Go(c, "answer")
    /\ UNCHANGED <<queueVars, waiting, pending, allow, minted, settled, notes, calls,
                   ranVars, personVars>>

\* The answer goes to the entry of that number, if there is one and the daemon
\* can be reached.
Complete(job) ==
    {IF e.job.id = job.id THEN [e EXCEPT !.answer = job.call] ELSE e : e \in entries}

Answer(c) ==
    /\ At(c, "answer")
    /\ entries' \in {Complete(round[c].job), entries}
    /\ Onward(c)
    /\ UNCHANGED <<next, seen, restarts, waiting, ledgerVars, notes, calls, ranVars,
                   personVars>>

\* The controller quits, or its tools cannot be set up for a job: what it was
\* handed stays taken.
Abandon(c) ==
    /\ ~At(c, "idle")
    /\ At(c, "spend") => DiesUnspent
    /\ round' = [round EXCEPT ![c] = Idle]
    /\ UNCHANGED <<queueVars, waiting, ledgerVars, notes, calls, ranVars, personVars>>

(***************************************************************************)
(* The person.                                                             *)
(***************************************************************************)
Hear(card, verdict) == said' = said \cup {[card |-> card, verdict |-> verdict]}

\* A card of this controller's dashboard, open until it was answered.
AnswerAtDashboard(c) ==
    /\ \E p \in pending[c], v \in Verdicts :
          /\ Settle(c, [q \in {p} |-> v])
          /\ Hear([host |-> c, ask |-> p], v)
    /\ UNCHANGED <<queueVars, waiting, round, notes, calls, ranVars, cards>>

\* A card in the chat does not vanish when it is answered, and may be again.
Replies == Cardinality(said) - Cardinality({x.card : x \in said})
MayReply(card, verdict) ==
    \/ \A x \in said : x.card # card
    \/ MaxReplies > 0 /\ [card |-> card, verdict |-> verdict] \in said
    \/ Replies < MaxReplies

\* A reply in the chat says only the number of its card.  The voice looks for
\* it in its own ledger, then among what that has settled, and else passes it on.
AnswerInChat(voice, card, verdict) ==
    /\ MayReply(card, verdict)
    /\ Hear(card, verdict)
    /\ LET number == card.ask.number
           open == {p \in pending[voice] : p.number = number}
       IN \/ /\ open # {}
             /\ Settle(voice, [p \in open |-> verdict])
             /\ UNCHANGED notes
          \/ /\ open = {}
             /\ notes' = IF number \in settled[voice] THEN notes
                         ELSE notes \cup {[number |-> number, verdict |-> verdict]}
             /\ UNCHANGED ledgerVars
    /\ UNCHANGED <<queueVars, waiting, round, calls, ranVars, cards>>

\* A controller applies the notes that have reached its board to the asks it
\* has open; of two for one number the first it reads.
TakeVerdicts(c) ==
    /\ \E read \in SUBSET notes :
          LET mine == {p \in pending[c] : p.number \in Numbers(read)}
              From(p) == {n \in read : n.number = p.number}
          IN /\ mine # {}
             /\ \A m, n \in read : m.number = n.number => m = n
             /\ Settle(c, [p \in mine |-> (CHOOSE n \in From(p) : TRUE).verdict])
    /\ UNCHANGED <<queueVars, waiting, round, notes, calls, ranVars, personVars>>

(***************************************************************************)
(* The specification.                                                      *)
(***************************************************************************)
Init ==
    /\ entries = {} /\ next = 0 /\ seen = {} /\ restarts = 0
    /\ waiting = [a \in Agents |-> Nothing]
    /\ round = [c \in Controllers |-> Idle]
    /\ pending = [c \in Controllers |-> {}] /\ once = [c \in Controllers |-> {}]
    /\ allow = [c \in Controllers |-> {}] /\ minted = [c \in Controllers |-> 0]
    /\ settled = [c \in Controllers |-> {}]
    /\ notes = {} /\ calls = 0
    /\ runs = [n \in Call |-> 0] /\ done = [k \in Keys |-> 0]
    /\ cards = {} /\ said = {}

Agent(a) == Submit(a) \/ Result(a) \/ GiveUp(a)

Pump(c) ==
    \/ Poll(c) \/ Tidy(c) \/ Gate(c) \/ Park(c) \/ Run(c) \/ Spend(c)
    \/ Answer(c)

Person ==
    \/ \E c \in Controllers : AnswerAtDashboard(c)
    \/ \E voice \in Voices, card \in cards, v \in Verdicts : AnswerInChat(voice, card, v)

Next ==
    \/ \E a \in Agents : Agent(a)
    \/ \E c \in Controllers : Pump(c) \/ Abandon(c) \/ TakeVerdicts(c)
    \/ Person
    \/ Restart

Spec == Init /\ [][Next]_vars

(***************************************************************************)
(* Properties.                                                             *)
(***************************************************************************)

\* Every variable has its type, and the queue is never over its limit.
TypeOK ==
    /\ entries \in SUBSET [job : Job, taken : BOOLEAN, answer : {NoAnswer} \cup Call]
    /\ Cardinality(entries) <= QueueLimit
    /\ next \in 0..MaxCalls /\ seen \subseteq Controllers /\ restarts \in 0..MaxRestarts
    /\ waiting \in [Agents -> Job \cup {Nothing}]
    /\ round \in [Controllers ->
          [stage : {"idle", "tidy", "next", "park", "run", "spend", "answer"},
           jobs : SUBSET Job, job : Job \cup {Nothing}]]
    /\ pending \in [Controllers -> SUBSET Ask]
    /\ once \in [Controllers -> SUBSET Keys] /\ allow \in [Controllers -> SUBSET Keys]
    /\ minted \in [Controllers -> Nat]
    /\ settled \in [Controllers -> SUBSET Nat]
    /\ notes \subseteq [number : Nat, verdict : Verdicts] /\ calls \in 0..MaxCalls
    /\ runs \in [Call -> Nat] /\ done \in [Keys -> Nat]
    /\ cards \subseteq [host : Controllers, ask : Ask]
    /\ said \subseteq [card : cards, verdict : Verdicts]

\* A write is run for a yes: no more often than the person allowed it, each
\* yes for one run unless it was for the conversation.
OneRunPerYes ==
    \A k \in Keys :
        LET yes == {x \in said : x.card.ask.key = k /\ x.verdict # "no"}
        IN \/ \E x \in yes : x.verdict = "always" /\ k.tool \in Standing
           \/ done[k] <= Cardinality({x.card : x \in yes})

\* A call is carried out once, whoever came for it, whatever became of the
\* controller that took it or of the daemon it was left with.
RunsOnce == \A n \in Call : runs[n] <= 1

\* A person is asked one thing once: every retry lands on the ask that is
\* already open.
OneAskAtATime ==
    \A c \in Controllers : \A p, q \in pending[c] : p.key = q.key => p = q

\* No two cards of a controller ever have the same number, so that a late reply
\* to one cannot settle the other.
CardsDiffer ==
    \A x, y \in cards : x.host = y.host /\ x.ask.number = y.ask.number => x = y

=============================================================================
