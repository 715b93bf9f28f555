------------------------------- MODULE Lease -------------------------------
(***************************************************************************)
(* One voice per chat account: the election by which the dashboards of a   *)
(* fleet decide which of them reads a WeChat account they all hold.        *)
(*                                                                         *)
(* A dashboard that wants the account puts a lease on the board, a note    *)
(* that names its machine, runs out after a while and carries the cursor   *)
(* the account has been read to.  Each round of a dashboard carries the    *)
(* board between the machines, reads the leases off its own machine's      *)
(* board and decides: the smallest machine with a live lease reads, a      *)
(* dashboard that finds none introduces itself and keeps quiet until its   *)
(* note has travelled, everyone else keeps silent.  Whoever takes the      *)
(* account over resumes at the cursor in the newest note.                  *)
(*                                                                         *)
(* Times are counted down: a note and a dashboard's own memory of it carry *)
(* the ticks they have left, so that there is no clock to bound.  Machines *)
(* are numbered in the order of their board names.                         *)
(*                                                                         *)
(* Abstracted: the board is the newest lease of each machine, as the board *)
(* holds far more notes than there are machines (Board has the logs); one  *)
(* account per fleet and one dashboard per machine; a lease that is to be  *)
(* posted is; clocks agree; a chat the person has let fall asleep is one   *)
(* that says nothing; and the list of what was handled, which the code     *)
(* cuts to a length, is long enough.                                       *)
(***************************************************************************)
EXTENDS Naturals, FiniteSets, FiniteSetsExt

CONSTANTS
    Machines,       \* those with a dashboard that holds the account
    TTL,            \* LEASE_TTL_MS, in ticks: a tick is a round's longest time
    Settle,         \* LEASE_SETTLE_MS
    Refresh,        \* LEASE_REFRESH_MS
    MaxSaid,        \* BOUND: what the person says
    MaxQuits,       \* BOUND: dashboards closed between two of their rounds
    MaxFails,       \* BOUND: reads, of the chat or of a board, that fail
    Faults,         \* what goes wrong besides: a subset of KnownFaults
    None            \* no note, no cursor, no round

KnownFaults == {"quit mid-round", "slow download", "started on an old lease",
                "closed between two leases"}

ASSUME MachinesAssumption == Machines \subseteq Nat /\ IsFiniteSet(Machines)
ASSUME TimesAssumption ==
    /\ TTL \in Nat /\ Settle \in Nat /\ Refresh \in Nat
    /\ Settle < TTL /\ Refresh < TTL
ASSUME BoundsAssumption ==
    MaxSaid \in Nat /\ MaxQuits \in Nat /\ MaxFails \in Nat
ASSUME FaultsAssumption == Faults \subseteq KnownFaults

VARIABLES
    said,       \* messages the person has sent: 1, 2, ..., said
    board,      \* board[m][h]: the newest lease of h that m's board holds
    inbox,      \* channel-inbox.json of each dashboard
    round,      \* the round a dashboard's worker has out, with its copy of it
    age,        \* ticks since that round, or the last one, began
    running,    \* machines whose dashboard runs
    linked,     \* whether the machines reach one another, which stays as it is
    quits, fails,
    \* What became of the messages, which no process knows:
    answers,    \* how often each was handed on and answered
    old         \* those read by a dashboard that had never read the chat

budgets == <<quits, fails>>
vars == <<said, board, inbox, round, age, running, linked, budgets, answers, old>>

Message == 1 .. MaxSaid
Cursor  == 0 .. MaxSaid       \* 0: the empty cursor the first poll is sent with
Note    == [left : 0 .. TTL, cursor : Cursor, stamp : Nat]
Inbox   == [cursor : Cursor \union {None},   \* Inbox::cursors
            claimed : 0 .. Settle,           \* time since Inbox::lease_claims
            posted : [left : 0 .. TTL, cursor : Cursor] \union {None},
            handled : SUBSET Message]
Round   == [at : {"deciding", "claiming", "reading", "refreshing", "answering", "over"},
            inbox : Inbox,
            batch : SUBSET Message,
            stale : BOOLEAN]

ASSUME NoneAssumption ==
    /\ None \notin Nat /\ None \notin Note /\ None \notin Round
    /\ None \notin [left : 0 .. TTL, cursor : Cursor]

TypeOK ==
    /\ said \in 0 .. MaxSaid
    /\ board \in [Machines -> [Machines -> Note \union {None}]]
    /\ inbox \in [Machines -> Inbox]
    /\ round \in [Machines -> Round \union {None}]
    /\ age \in [Machines -> 0 .. 1]
    /\ running \subseteq Machines
    /\ linked \in BOOLEAN
    /\ quits \in 0 .. MaxQuits /\ fails \in 0 .. MaxFails
    /\ answers \in [Message -> Nat]
    /\ old \subseteq Message

-----------------------------------------------------------------------------
(* The board *)

Notes(b) == {b[m][h] : m \in Machines, h \in Machines} \ {None}

Stamps(b) == {note.stamp : note \in Notes(b)}

\* Stamps say which of two notes is newer and nothing else, so they are kept
\* as ranks, 1, 2, ..., among the notes that are still on some board.
Ranked(b) ==
    LET Rank(note) == [note EXCEPT !.stamp = Cardinality({s \in Stamps(b) : s <= @})]
    IN  [m \in Machines |-> [h \in Machines |->
            IF b[m][h] = None THEN None ELSE Rank(b[m][h])]]

\* TalkStore::post, for a lease of m's.
Posted(b, m, cursor) ==
    Ranked([b EXCEPT ![m][m] = [left |-> TTL, cursor |-> cursor,
                                stamp |-> 1 + Cardinality(Stamps(b))]])

\* run_sync of talk.rs: what any machine within reach holds, all of them hold.
Carried(b) ==
    IF linked
    THEN Ranked([m \in Machines |-> [h \in Machines |->
            LET held   == {b[k][h] : k \in Machines} \ {None}
                newest == {note \in held : \A other \in held : other.stamp <= note.stamp}
            IN  IF newest = {} THEN None ELSE CHOOSE note \in newest : TRUE]])
    ELSE b

-----------------------------------------------------------------------------
(* The decision *)

AnyHolders(notes) == {h \in Machines : notes[h] # None}

LiveHolders(notes) == {h \in Machines : notes[h] # None /\ notes[h].left > 0}

\* Another machine than one's own has answered.
PeersAreLive == linked /\ Cardinality(Machines) > 1

AtOnce(m, notes, claimed, peersLive) ==
    IF ~peersLive                         THEN "consume"
    ELSE IF LiveHolders(notes) = {}       THEN "introduce"
    ELSE IF Min(LiveHolders(notes)) # m   THEN "yield"
    ELSE "consume"

LeaseDecision(m, notes, claimed, peersLive) ==
    IF ~peersLive                         THEN "consume"
    ELSE IF LiveHolders(notes) = {}       THEN "introduce"
    ELSE IF Min(LiveHolders(notes)) # m   THEN "yield"
    ELSE IF claimed < Settle              THEN "quiet"
    ELSE "consume"

OwnCursor(m, notes, box) == box

\* The inbox after resuming where the newest note says, unless it is one's own.
AdoptNewerCursor(m, notes, box) ==
    LET holders == {h \in Machines : notes[h] # None}
        newest  == {h \in holders : \A k \in holders : notes[k].stamp <= notes[h].stamp}
        others  == {h \in newest : h # m /\ notes[h].cursor # 0}
    IN  IF others = {} THEN box
        ELSE [box EXCEPT !.cursor = notes[CHOOSE h \in others : TRUE].cursor]

OrEmpty(cursor) == IF cursor = None THEN 0 ELSE cursor

LeaseStillStands(box) ==
    /\ box.posted # None
    /\ box.posted.cursor = OrEmpty(box.cursor)
    /\ box.posted.left > Refresh

-----------------------------------------------------------------------------
(* A round *)

At(m, stage) == round[m] # None /\ round[m].at = stage

GoTo(m, stage) == round' = [round EXCEPT ![m].at = stage]

UnreadInbox == [cursor |-> None, claimed |-> Settle, posted |-> None, handled |-> {}]

Init ==
    /\ said = 0
    /\ board = [m \in Machines |-> [h \in Machines |-> None]]
    /\ inbox = [m \in Machines |-> UnreadInbox]
    /\ round = [m \in Machines |-> None]
    /\ age = [m \in Machines |-> 0]
    /\ running = {}
    /\ linked \in BOOLEAN
    /\ quits = 0 /\ fails = 0
    /\ answers = [i \in Message |-> 0]
    /\ old = {}

\* The board is carried, and the machines that answer are noted, before the
\* chats are looked at.
Begin(m) ==
    /\ m \in running /\ round[m] = None
    /\ board' = Carried(board)
    /\ round' = [round EXCEPT ![m] =
                    [at |-> "deciding", inbox |-> inbox[m],
                     batch |-> {}, stale |-> FALSE]]
    /\ age' = [age EXCEPT ![m] = 0]
    /\ UNCHANGED <<said, inbox, running, linked, budgets, answers, old>>

\* lease_round.  The leases are the board's as it is now, not as it was when
\* it was carried.
Decide(m) ==
    /\ At(m, "deciding")
    /\ LET box == round[m].inbox
           adopted == AdoptNewerCursor(m, board[m], box)
           decision == LeaseDecision(m, board[m], box.claimed, PeersAreLive)
       IN  \/ /\ decision = "yield"
              /\ GoTo(m, "over")
           \/ /\ decision = "consume"
              /\ round' = [round EXCEPT ![m].at = "reading", ![m].inbox = adopted]
           \/ /\ decision = "quiet"
              /\ GoTo(m, IF LeaseStillStands(box) THEN "over" ELSE "claiming")
           \/ /\ decision = "introduce"
              /\ round' = [round EXCEPT ![m].at = "claiming",
                              ![m].inbox = [adopted EXCEPT !.claimed = 0]]
    /\ UNCHANGED <<said, board, inbox, age, running, linked, budgets, answers, old>>

\* Without a board, or with one whose leases cannot be read, the account is taken
\* alone, whoever holds it: one more kind of read that fails.
TakeAlone(m) ==
    /\ At(m, "deciding") /\ fails < MaxFails
    /\ GoTo(m, "reading")
    /\ fails' = fails + 1
    /\ UNCHANGED <<said, board, inbox, age, running, linked, quits, answers, old>>

\* claim_lease: the note is posted, and remembered as posted.
ClaimLease(m) ==
    LET cursor == OrEmpty(round[m].inbox.cursor)
    IN  /\ board' = Posted(board, m, cursor)
        /\ round' = [round EXCEPT
                ![m].inbox.posted = [left |-> TTL, cursor |-> cursor],
                ![m].at = IF @ = "claiming" THEN "over" ELSE "answering"]

Claim(m) ==
    /\ At(m, "claiming")
    /\ ClaimLease(m)
    /\ UNCHANGED <<said, inbox, age, running, linked, budgets, answers, old>>

\* wechat_inbox: everything after the cursor, and the cursor that follows it.
\* A chat read for the first time is read for its tokens only.
ReadChat(m) ==
    /\ At(m, "reading")
    /\ LET cursor == round[m].inbox.cursor
       IN  round' = [round EXCEPT ![m] =
               [@ EXCEPT !.at = "refreshing",
                         !.inbox.cursor = said,
                         !.batch = {i \in 1 .. said : i > OrEmpty(cursor)},
                         !.stale = (cursor = None)]]
    /\ UNCHANGED <<said, board, inbox, age, running, linked, budgets, answers, old>>

FailsForward(m) ==
    /\ At(m, "reading") /\ fails < MaxFails
    /\ round' = [round EXCEPT ![m].at = "over", ![m].inbox.cursor = said]
    /\ fails' = fails + 1
    /\ UNCHANGED <<said, board, inbox, age, running, linked, quits, answers, old>>

\* A read that fails leaves the cursor alone, and the lease unrefreshed.
ReadFails(m) ==
    /\ At(m, "reading") /\ fails < MaxFails
    /\ GoTo(m, "over")
    /\ fails' = fails + 1
    /\ UNCHANGED <<said, board, inbox, age, running, linked, quits, answers, old>>

\* refresh_lease, before any of what was read is dealt with.
RefreshLease(m) ==
    /\ At(m, "refreshing")
    /\ IF LeaseStillStands(round[m].inbox)
       THEN GoTo(m, "answering") /\ UNCHANGED board
       ELSE ClaimLease(m)
    /\ UNCHANGED <<said, inbox, age, running, linked, budgets, answers, old>>

\* absorb and handle, for the oldest message of the batch.
Absorb(m) ==
    /\ At(m, "answering")
    /\ \E i \in round[m].batch :
          /\ \A j \in round[m].batch : i <= j
          /\ round' = [round EXCEPT ![m].batch = @ \ {i},
                                   ![m].inbox.handled = @ \union {i}]
          /\ LET known == i \in round[m].inbox.handled
             IN  /\ answers' = IF known \/ round[m].stale THEN answers
                               ELSE [answers EXCEPT ![i] = @ + 1]
                 /\ old' = IF ~known /\ round[m].stale THEN old \union {i} ELSE old
    /\ UNCHANGED <<said, board, inbox, age, running, linked, budgets>>

\* absorb_inbox: the dashboard takes its worker's copy back and saves it.
Finish(m) ==
    /\ \/ At(m, "over")
       \/ At(m, "answering") /\ round[m].batch = {}
    /\ inbox' = [inbox EXCEPT ![m] = round[m].inbox]
    /\ round' = [round EXCEPT ![m] = None]
    /\ UNCHANGED <<said, board, age, running, linked, budgets, answers, old>>

-----------------------------------------------------------------------------
(* The world *)

Say ==
    /\ said < MaxSaid
    /\ said' = said + 1
    /\ UNCHANGED <<board, inbox, round, age, running, linked, budgets, answers, old>>

LeasesLive == UNION {LiveHolders(board[m]) : m \in Machines}

\* Without the fault, a dashboard closed with a lease on the board stays
\* closed until that has run out.
Start(m) ==
    /\ m \notin running
    /\ m \in LiveHolders(board[m]) => "started on an old lease" \in Faults
    /\ running' = running \union {m}
    /\ age' = [age EXCEPT ![m] = 0]
    /\ UNCHANGED <<said, board, inbox, round, linked, budgets, answers, old>>

\* A dashboard is closed: with one fault without waiting for its worker, with
\* the other before its claim has settled, or while a lease that gave way to
\* its own is still live.
Quit(m) ==
    /\ m \in running /\ quits < MaxQuits
    /\ LeasesLive \ {m} # {} \/ inbox[m].claimed < Settle
          => "closed between two leases" \in Faults
    /\ round[m] = None \/ "quit mid-round" \in Faults
    /\ quits' = quits + 1
    /\ running' = running \ {m}
    /\ round' = [round EXCEPT ![m] = None]
    /\ age' = [age EXCEPT ![m] = 0]
    /\ UNCHANGED <<said, board, inbox, linked, fails, answers, old>>

\* What a tick leaves of a note, of a dashboard's memory and of a round.
Older(note) ==
    IF note = None THEN None
    ELSE [note EXCEPT !.left = IF @ = 0 THEN 0 ELSE @ - 1]
OlderInbox(box) ==
    [box EXCEPT !.posted = Older(@),
                !.claimed = IF @ = Settle THEN @ ELSE @ + 1]
OlderRound(r) ==
    IF r = None THEN None ELSE [r EXCEPT !.inbox = OlderInbox(@)]

\* Every dashboard that runs begins a round within a tick of the one before,
\* and posts what it decided to post at once; a download may take longer where
\* the fault admits it.
Tick ==
    /\ \A m \in running :
          \/ age[m] = 0
          \/ "slow download" \in Faults /\ At(m, "refreshing")
    /\ \A m \in running : ~At(m, "claiming")
    /\ board' = [m \in Machines |-> [h \in Machines |-> Older(board[m][h])]]
    /\ inbox' = [m \in Machines |-> OlderInbox(inbox[m])]
    /\ round' = [m \in Machines |-> OlderRound(round[m])]
    /\ age' = [m \in Machines |-> IF m \in running THEN 1 ELSE 0]
    /\ UNCHANGED <<said, running, linked, budgets, answers, old>>

Step(m) ==
    \/ Begin(m) \/ Decide(m) \/ TakeAlone(m) \/ Claim(m)
    \/ ReadChat(m) \/ ReadFails(m) \/ RefreshLease(m) \/ Absorb(m) \/ Finish(m)

Next ==
    \/ Say \/ Tick
    \/ \E m \in Machines : Step(m) \/ Start(m) \/ Quit(m)

Spec == Init /\ [][Next]_vars

\* A dashboard that runs has one round after another, and time passes.
Fairness == WF_vars(Tick) /\ \A m \in Machines : WF_vars(Step(m))
FairSpec == Spec /\ Fairness

-----------------------------------------------------------------------------
(* What the election promises *)

\* While the machines reach one another and every read of chats and boards
\* succeeds, nothing the person says is answered twice, whoever is started and closed meanwhile, as
\* far as Start and Quit allow
\* (channel.rs:2826-2828).
SpokenOnce == linked /\ fails = 0 => \A i \in Message : answers[i] <= 1

\* The cursor of a note or of an inbox never passes over a message that was
\* neither answered nor still in the hands of a dashboard that is to answer
\* it, first readings apart: a successor that resumes there misses nothing.
CursorsInUse ==
    {note.cursor : note \in Notes(board)} \union
    {OrEmpty(inbox[m].cursor) : m \in Machines}
InHand == UNION {round[m].batch : m \in {k \in Machines : round[k] # None}}
NothingSkipped ==
    \A c \in CursorsInUse : \A i \in 1 .. c :
        answers[i] > 0 \/ i \in old \/ i \in InHand

\* What the person says is read sooner or later by one of the dashboards, as
\* long as one is open: again and again nothing is left unread.
AllRead == \A i \in 1 .. said : answers[i] > 0 \/ i \in old
EveryWordIsRead == []<>(AllRead \/ running = {})

=============================================================================
