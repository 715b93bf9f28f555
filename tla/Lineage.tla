------------------------------ MODULE Lineage -------------------------------
(***************************************************************************)
(* The sessions of one machine, whose conversation each of them holds, and *)
(* who started whom.                                                       *)
(*                                                                         *)
(* A conversation that has ended can be had back in two ways: under its    *)
(* own number, or, from clients that ask that way, under a new one.  The   *)
(* second leaves two records of one conversation, so the daemon finds the  *)
(* record the launch reopens, marks it as resumed, and repoints the        *)
(* sessions it had started - its fleet - at the new number.  Closing a     *)
(* session closes everything under it, leaves first.                       *)
(*                                                                         *)
(* Launches are served one at a time; ends of sessions, and one request to *)
(* close, come between the steps of one.  Keepers, files and rollbacks are *)
(* module Revival's: here a launch succeeds, is refused, or fails.         *)
(***************************************************************************)
EXTENDS Integers, FiniteSets, Sequences, SequencesExt

CONSTANTS
    MaxSessions,    \* numbers there are to hand out, in order of creation
    Threads,        \* conversations, as the agents' runtimes name them
    Faults          \* what else may happen, see below

(***************************************************************************)
(* "older record": a client goes on with a conversation from a record that *)
(* is not the last to have held it, and whose own successor has stopped.   *)
(* "asked for while it runs": a client asks under a new number for a        *)
(* conversation that runs: one that another client had back while this     *)
(* launch waited for the gate, say.  Nothing in the code looks for it.     *)
(* "fails after repointing": a launch fails after it has given a fleet to  *)
(* its own number.                                                         *)
(* "launched under a closing": a launch is under way while a fleet is      *)
(* being closed.                                                           *)
(***************************************************************************)
FaultKinds == {"older record", "asked for while it runs", "fails after repointing",
               "launched under a closing"}

ASSUME FaultsAssumption == Faults \subseteq FaultKinds
ASSUME SessionsAssumption == MaxSessions \in Nat /\ 0 \notin Threads

Ids == 1..MaxSessions
Nothing == 0    \* no thread, no parent, no session

VARIABLES
    live,       \* DaemonState::sessions, those that have ended included
    filed,      \* DaemonState::persisted_sessions
    over,       \* sessions that are archived or dead
    thread,     \* the conversation of each record
    parent,     \* who started each
    resumedTo,  \* the number the record's conversation went on under
    made,       \* how many numbers have been handed out
    job,        \* the launch behind the gate
    closing     \* the request to close that is being carried out

recordVars == <<live, filed, over, thread, parent, resumedTo, made>>
lineageVars == <<recordVars, job, closing>>

Known == live \cup filed
Runs(id) == id \in live /\ id \notin over
Idle == [at |-> "idle", id |-> Nothing, seed |-> Nothing, parent |-> Nothing,
         took |-> FALSE, from |-> Nothing]
NotClosing == [at |-> "idle", root |-> Nothing, how |-> "archive", todo |-> <<>>,
               under |-> {}]

(***************************************************************************)
(* Who is under whom.  fleet_under walks down from the root generation by  *)
(* generation and puts each before the ones above it.                      *)
(***************************************************************************)
NextOfTheLive(seen, frontier) == {id \in live : id \notin seen /\ parent[id] \in frontier}

NextGeneration(seen, frontier) == {id \in Known : id \notin seen /\ parent[id] \in frontier}

\* The generations under the root, each in the order of its numbers.
Generations(root) ==
    LET Walk[n \in 0..MaxSessions] ==
            IF n = 0 THEN [seen |-> {root}, frontier |-> {root}, out |-> <<>>]
            ELSE LET above == Walk[n - 1]
                     next == NextGeneration(above.seen, above.frontier) IN
                 [seen |-> above.seen \cup next, frontier |-> next,
                  out |-> Append(above.out, SetToSortSeq(next, <))]
    IN Walk[MaxSessions].out

FleetUnder(root) == FlattenSeq(Reverse(Generations(root)))

\* What that is to be: every session whose masters lead up to the root.
Masters(id) ==
    LET Up[n \in 1..MaxSessions] ==
            IF n = 1 THEN {parent[id]} \ {Nothing}
            ELSE Up[n - 1] \cup ({parent[master] : master \in Up[n - 1]} \ {Nothing})
    IN Up[MaxSessions]

Under(root) == {id \in Known \ {root} : root \in Masters(id)}

(***************************************************************************)
(* A launch.                                                               *)
(***************************************************************************)
NoSuccessor(id) == Nothing

\* Only the record's own mark is read, and only a session in the map counts.
Successor(id) == IF resumedTo[id] # Nothing /\ Runs(resumedTo[id])
                 THEN resumedTo[id] ELSE Nothing

\* What a client goes on from is the last record of the conversation, or one
\* that leads to where it runs now.
LastOf(seed, id) == \A other \in Known : thread[other] = seed /\ seed # Nothing => other <= id

MayGoOnFrom(id) ==
    LastOf(thread[id], id) \/ Runs(resumedTo[id]) \/ "older record" \in Faults

\* An agent that asks is running, and does not ask for its own conversation.
MayAskFor(asker, seed) ==
    asker # Nothing => Runs(asker) /\ (seed # Nothing => thread[asker] # seed)

TakeRecord(id) == filed' = filed \ {id}

ReviveInPlace(id, asker) ==
    /\ id \in Known /\ ~Runs(id) /\ Successor(id) = Nothing
    /\ MayGoOnFrom(id)
    /\ TakeRecord(id)
    /\ job' = [Idle EXCEPT !.at = "taken", !.id = id, !.seed = thread[id],
                           !.parent = IF parent[id] # Nothing THEN parent[id] ELSE asker,
                           !.took = TRUE]
    /\ UNCHANGED <<live, over, thread, parent, resumedTo, made, closing>>

\* What a client reopens under a new number does not run, or a record of it that
\* has stopped leads to where it does.  That is the clients' doing, and so a fault
\* when it is otherwise: the launch itself looks at stopped records only.
MayReopen(seed) ==
    \/ seed = Nothing
    \/ \A other \in Known : thread[other] = seed => ~Runs(other)
    \/ \E other \in Known : thread[other] = seed /\ ~Runs(other) /\ Runs(resumedTo[other])
    \/ "asked for while it runs" \in Faults

\* A client asks for a new number: for a conversation of its own, or to go on
\* with one there is, or was.
NewNumber(id, seed, asker) ==
    /\ id = made + 1
    /\ MayReopen(seed)
    /\ job' = [Idle EXCEPT !.at = "matching", !.id = id, !.seed = seed, !.parent = asker]
    /\ UNCHANGED <<recordVars, closing>>

MayBegin ==
    job = Idle /\ (closing = NotClosing \/ "launched under a closing" \in Faults)

Request ==
    /\ MayBegin
    /\ \E id \in Ids, asker \in Ids \cup {Nothing} :
        \/ MayAskFor(asker, thread[id]) /\ ReviveInPlace(id, asker)
        \/ \E seed \in Threads \cup {Nothing} :
               MayAskFor(asker, seed) /\ NewNumber(id, seed, asker)

\* archived_resume_match: the newest stopped record of that conversation.
Matching(seed) ==
    {id \in Known : ~Runs(id) /\ seed # Nothing /\ thread[id] = seed}

Oldest(ids) == CHOOSE id \in ids : \A other \in ids : other >= id
Newest(ids) == CHOOSE id \in ids : \A other \in ids : other <= id

Match ==
    /\ job.at = "matching"
    /\ LET matches == Matching(job.seed)  from == Newest(matches) IN
       job' = IF matches = {} THEN [job EXCEPT !.at = "taken"]
              ELSE IF Successor(from) # Nothing THEN Idle
              ELSE [job EXCEPT !.at = "taken", !.from = from,
                               !.parent = IF parent[from] # Nothing THEN parent[from] ELSE @]
    /\ UNCHANGED <<recordVars, closing>>

\* reparent_children and mark_resumed_to.
Repointed(from, id) ==
    /\ parent' = [other \in Ids |->
                    IF other \in Known \ {id} /\ parent[other] = from THEN id ELSE parent[other]]
    /\ resumedTo' = IF from \in Known THEN [resumedTo EXCEPT ![from] = id] ELSE resumedTo

Repoint ==
    /\ job.at = "taken"
    /\ IF job.from = Nothing THEN UNCHANGED <<parent, resumedTo>>
       ELSE Repointed(job.from, job.id)
    /\ job' = [job EXCEPT !.at = "repointed"]
    /\ UNCHANGED <<live, filed, over, thread, made, closing>>

PutBack == filed' = IF job.took /\ job.id \notin live THEN filed \cup {job.id} ELSE filed

MayFail ==
    job.from = Nothing \/ job.at = "taken" \/ "fails after repointing" \in Faults

Fail ==
    /\ job.at \in {"taken", "repointed"} /\ MayFail
    /\ PutBack
    /\ job' = Idle
    /\ UNCHANGED <<live, over, thread, parent, resumedTo, made, closing>>

\* A session that was told no conversation comes to hold one of its own.
Insert ==
    /\ job.at = "repointed"
    /\ live' = live \cup {job.id} /\ over' = over \ {job.id}
    /\ \E own \in IF job.seed # Nothing THEN {job.seed}
                  ELSE {Nothing} \cup (Threads \ {thread[other] : other \in Ids}) :
           thread' = [thread EXCEPT ![job.id] = own]
    /\ parent' = [parent EXCEPT ![job.id] = job.parent]
    /\ resumedTo' = [resumedTo EXCEPT ![job.id] = Nothing]
    /\ made' = IF job.id > made THEN job.id ELSE made
    /\ job' = Idle
    /\ UNCHANGED <<filed, closing>>

(***************************************************************************)
(* Ends, closings and restarts.                                            *)
(***************************************************************************)
End(id) ==
    /\ Runs(id)
    /\ over' = over \cup {id}
    /\ UNCHANGED <<live, filed, thread, parent, resumedTo, made, job, closing>>

\* archive_one and delete_one; one that is not there is an error.
PutDown(id, how) ==
    IF how = "archive"
    THEN /\ over' = over \cup ({id} \cap Known)
         /\ UNCHANGED <<live, filed, thread, parent, resumedTo>>
    ELSE /\ live' = live \ {id} /\ filed' = filed \ {id} /\ over' = over \ {id}
         /\ thread' = [thread EXCEPT ![id] = Nothing]
         /\ parent' = [parent EXCEPT ![id] = Nothing]
         /\ resumedTo' = [resumedTo EXCEPT ![id] = Nothing]

MayClose == job = Idle \/ "launched under a closing" \in Faults

Close(id, how) ==
    /\ closing = NotClosing /\ id \in Known /\ MayClose
    /\ PutDown(id, how)
    /\ closing' = [NotClosing EXCEPT !.at = "closed the root", !.root = id, !.how = how,
                                     !.under = Under(id)]
    /\ UNCHANGED <<made, job>>

FindFleet ==
    /\ closing.at = "closed the root"
    /\ closing' = [closing EXCEPT !.at = "closing", !.todo = FleetUnder(closing.root)]
    /\ UNCHANGED <<recordVars, job>>

CloseNext ==
    /\ closing.at = "closing" /\ closing.todo # <<>>
    /\ PutDown(Head(closing.todo), closing.how)
    /\ closing' = [closing EXCEPT !.todo = Tail(@)]
    /\ UNCHANGED <<made, job>>

Closed ==
    /\ closing.at = "closing" /\ closing.todo = <<>>
    /\ closing' = NotClosing
    /\ UNCHANGED <<recordVars, job>>

\* The next daemon has what is running in its map, the rest in its archive;
\* requests end with the daemon, a launch only before it has changed records.
Restart ==
    /\ job = Idle /\ closing = NotClosing
    /\ live # {id \in Known : Runs(id)}
    /\ live' = {id \in Known : Runs(id)}
    /\ filed' = Known \ live'
    /\ UNCHANGED <<over, thread, parent, resumedTo, made, job, closing>>

LineageInit ==
    /\ live = {} /\ filed = {} /\ over = {}
    /\ thread = [id \in Ids |-> Nothing] /\ parent = [id \in Ids |-> Nothing]
    /\ resumedTo = [id \in Ids |-> Nothing] /\ made = 0
    /\ job = Idle /\ closing = NotClosing

LineageNext ==
    \/ Request \/ Match \/ Repoint \/ Fail \/ Insert
    \/ \E id \in Ids : End(id) \/ \E how \in {"archive", "delete"} : Close(id, how)
    \/ FindFleet \/ CloseNext \/ Closed \/ Restart

LineageSpec == LineageInit /\ [][LineageNext]_lineageVars

-----------------------------------------------------------------------------
\* Every variable has its type, and a session is in one index only.
LineageTypeOK ==
    /\ live \subseteq Ids /\ filed \subseteq Ids \ live /\ over \subseteq Ids
    /\ filed \subseteq over
    /\ thread \in [Ids -> Threads \cup {Nothing}]
    /\ parent \in [Ids -> Ids \cup {Nothing}]
    /\ resumedTo \in [Ids -> Ids \cup {Nothing}]
    /\ made \in 0..MaxSessions /\ Known \subseteq 1..made
    /\ job.at \in {"idle", "matching", "taken", "repointed"}
    /\ closing.at \in {"idle", "closed the root", "closing"}

\* One conversation is never in two places: no two running sessions hold one.
OnePlace ==
    \A one, other \in Ids :
        Runs(one) /\ Runs(other) /\ thread[one] = thread[other] /\ thread[one] # Nothing
        => one = other

\* A conversation's fleet is found where the conversation runs: nothing hangs
\* off a number it has left, however often it moved on.
FleetFollows ==
    job = Idle =>
        \A sub \in Known, master \in Known, now \in Known :
            parent[sub] = master /\ Runs(now) /\ thread[now] = thread[master]
            /\ thread[now] # Nothing => now = master

\* When a request to close is done, nothing that was under its root when it
\* began runs on, and nothing that is under it now.
FleetClosed ==
    [][closing # NotClosing /\ closing' = NotClosing
       => \A id \in closing.under \cup Under(closing.root) : ~Runs(id)]_lineageVars
=============================================================================
