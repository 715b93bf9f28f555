------------------------------- MODULE Board -------------------------------
(***************************************************************************)
(* The talk boards of a fleet and the rounds that replicate them.          *)
(*                                                                         *)
(* Every machine keeps a board: for each origin a log of messages, numbered*)
(* by the origin, with a mark below which the log has been dropped.  Boards*)
(* never speak to each other.  A controller compares a machine's vector    *)
(* with its own board's, pulls what is missing and pushes what the machine *)
(* has not got, a batch at a time.  Between the requests of a round boards *)
(* go on: they post, drop what is too much or too old, are cleared, and    *)
(* restart from their files.                                               *)
(*                                                                         *)
(* Abstracted: a message is its origin, its number, its time stamp and a   *)
(* tag that tells apart two messages of one number; what it says, its      *)
(* scope, and the log beside for muxloom's own traffic (another origin,    *)
(* with limits of its own) are left out.                                   *)
(***************************************************************************)
EXTENDS Integers, FiniteSets, FiniteSetsExt

CONSTANTS
    Boards,         \* BOUND: the machines, which are also the origins
    Controllers,    \* the machines a controller runs on
    Retain, Slack,  \* RETAIN_PER_ORIGIN, COMPACT_SLACK
    Batch,          \* SYNC_BATCH
    Window,         \* RETAIN_MS
    MaxPosts,       \* BOUND: messages minted by a machine
    MaxTime,        \* BOUND: what a clock reads at most
    MaxFails,       \* BOUND: requests of rounds that fail
    Troubles        \* which of the things below happen

ASSUME BoardsAssumption == Boards \in Nat \ {0}
ASSUME ControllersAssumption == Controllers \subseteq 1..Boards
ASSUME LimitsAssumption ==
    /\ Retain \in Nat \ {0} /\ Slack \in Nat /\ Batch \in Nat \ {0}
    /\ Window \in Nat /\ MaxPosts \in Nat /\ MaxFails \in Nat /\ MaxTime \in Nat \ {0}
ASSUME TroublesAssumption ==
    Troubles \subseteq {"clear", "torn lines", "clocks stepping back"}

Board  == 1..Boards
Time   == 1..MaxTime
Seq    == 1..MaxPosts
Vector == [Board -> 0..MaxPosts]
Message == [origin : Board, seq : Seq, ts : Time, tag : Seq]

VARIABLES
    held,       \* the messages each board has in memory
    low,        \* OriginLog::low_water, for each board and origin
    lines,      \* the messages whose lines are whole in each board's files
    through,    \* the header of each file: LogHeader::dropped_through
    torn,       \* the files whose last line was not finished
    clock,      \* the latest time each machine's clock has shown
    minted,     \* how many messages each machine has posted
    round,      \* what each controller is doing
    fails       \* how many of those there have been

boardVars == <<held, low, lines, through, torn, clock, minted>>
vars == <<boardVars, round, fails>>

(***************************************************************************)
(* One board.                                                              *)
(***************************************************************************)
LogOf(messages, o) == {m \in messages : m.origin = o}
Seqs(messages) == {m.seq : m \in messages}

\* The highest seq held with nothing missing below it.
Contiguous(messages, mark) ==
    Max({n \in mark..MaxPosts : mark+1..n \subseteq Seqs(messages)})

VectorOf(b) == [o \in Board |-> Contiguous(LogOf(held[b], o), low[b][o])]

HighestHeld(messages, mark) == Max(Seqs(messages) \cup {0})
Highest(messages, mark) == Max(Seqs(messages) \cup {mark})

Before(m, n) ==
    \/ m.ts < n.ts
    \/ m.ts = n.ts /\ m.origin < n.origin
    \/ m.ts = n.ts /\ m.origin = n.origin /\ m.seq < n.seq

\* The oldest messages a board holds past a vector, at most a batch.
NewestSince(b, from) ==
    LET fresh == {m \in held[b] : m.seq > from[m.origin]}
    IN  {m \in fresh : Cardinality({n \in fresh : Before(m, n)}) < Batch}

Since(b, from) ==
    LET fresh == {m \in held[b] : m.seq > from[m.origin]}
    IN  {m \in fresh : Cardinality({n \in fresh : Before(n, m)}) < Batch}

\* The part of a log that goes when it is too long.
Surplus(log) ==
    IF Cardinality(log) <= Retain + Slack THEN {}
    ELSE {m \in log : Cardinality({n \in log : n.seq > m.seq}) >= Retain}

\* A log's file after a message was appended to it, or after it was rewritten.
\* A line appended to an unfinished one is lost with it.
Append(b, m) ==
    /\ lines' = IF m.origin \in torn[b] THEN lines
                ELSE [lines EXCEPT ![b] = @ \cup {m}]
    /\ torn' = [torn EXCEPT ![b] = @ \ {m.origin}]
    /\ UNCHANGED through

Rewrite(b, o, log, mark) ==
    /\ lines' = [lines EXCEPT ![b] = (@ \ LogOf(@, o)) \cup log]
    /\ through' = [through EXCEPT ![b][o] = mark]
    /\ torn' = [torn EXCEPT ![b] = @ \ {o}]

Refused(b, m) ==
    \/ m.seq <= low[b][m.origin]
    \/ m.seq \in Seqs(LogOf(held[b], m.origin))

\* Add one message to memory and to its file.
File(b, m) ==
    LET log  == LogOf(held[b], m.origin) \cup {m}
        gone == Surplus(log)
        mark == IF gone = {} THEN low[b][m.origin] ELSE Max(Seqs(gone))
    IN  IF Refused(b, m) THEN UNCHANGED <<held, low, lines, through, torn>>
        ELSE /\ held' = [held EXCEPT ![b] = (@ \cup {m}) \ gone]
             /\ low' = [low EXCEPT ![b][m.origin] = mark]
             /\ IF gone = {} THEN Append(b, m)
                ELSE Rewrite(b, m.origin, log \ gone, mark)

(***************************************************************************)
(* Rounds.                                                                 *)
(***************************************************************************)
Nowhere == 0
Nothing == [o \in Board |-> 0]
Resting == [stage |-> "idle", left |-> {}, at |-> Nowhere, mine |-> Nothing,
            theirs |-> Nothing, page |-> {}, filing |-> FALSE, pulled |-> FALSE]

\* Done with a machine, successfully or not: on to the next one.
Between(r) == [Resting EXCEPT !.stage = "between", !.left = r.left,
                              !.mine = r.mine]

\* The board a page is being merged into.
Into(c) == CASE round[c].stage = "pull" -> c
             [] round[c].stage = "push" -> round[c].at
             [] OTHER -> Nowhere

\* A merge keeps the board's lock from its first message to its last.
Free(b) == \A c \in Controllers : ~(round[c].filing /\ Into(c) = b)

\* The messages of a page are filed in its order.
FirstOf(page) == CHOOSE m \in page : \A n \in page \ {m} : Before(m, n)

BeginRound(c) ==
    /\ round[c].stage = "idle" /\ Free(c)
    /\ round' = [round EXCEPT ![c] =
          Between([Resting EXCEPT !.left = Board \ {c}, !.mine = VectorOf(c)])]
    /\ UNCHANGED <<boardVars, fails>>

\* TalkStatus of a machine.
Ask(c, b) ==
    /\ round[c].stage = "between" /\ b \in round[c].left /\ Free(b)
    /\ round' = [round EXCEPT
          ![c].stage = "asked", ![c].at = b, ![c].left = @ \ {b},
          ![c].theirs = VectorOf(b)]
    /\ UNCHANGED <<boardVars, fails>>

\* TalkFetch of what the local board has not got; then of what the other has
\* not.  An empty page is not sent on.
FetchInbound(c, b) ==
    /\ round[c].stage = "asked" /\ round[c].at = b /\ Free(b)
    /\ LET page == Since(b, round[c].mine)
       IN  round' = [round EXCEPT
              ![c].stage = IF page = {} THEN "pulled" ELSE "pull",
              ![c].page = page]
    /\ UNCHANGED <<boardVars, fails>>

FetchOutbound(c, b) ==
    /\ round[c].stage = "pulled" /\ round[c].at = b /\ Free(c)
    /\ LET page == Since(c, round[c].theirs)
       IN  round' = [round EXCEPT
              ![c].stage = IF page = {} THEN "carried" ELSE "push",
              ![c].page = page]
    /\ UNCHANGED <<boardVars, fails>>

\* TalkAppend, a message at a time.
FileNext(c, b) ==
    /\ Into(c) = b /\ (round[c].filing \/ Free(b))
    /\ LET m    == FirstOf(round[c].page)
           rest == round[c].page \ {m}
           r    == round[c]
       IN  /\ File(b, m)
           /\ round' = [round EXCEPT ![c] =
                 [r EXCEPT
                    !.page = rest,
                    !.filing = rest # {},
                    !.pulled = @ \/ (r.stage = "pull" /\ ~Refused(b, m)),
                    !.stage = CASE rest # {} -> @
                                [] r.stage = "pull" -> "pulled"
                                [] OTHER -> "carried"]]
    /\ UNCHANGED <<clock, minted, fails>>

\* The next machine is told what this one just said.
Carried(c) ==
    /\ round[c].stage = "carried" /\ Free(c)
    /\ round' = [round EXCEPT ![c] =
          Between([round[c] EXCEPT
             !.mine = IF round[c].pulled THEN VectorOf(c) ELSE @])]
    /\ UNCHANGED <<boardVars, fails>>

EndRound(c) ==
    /\ round[c].stage = "between" /\ round[c].left = {}
    /\ round' = [round EXCEPT ![c] = Resting]
    /\ UNCHANGED <<boardVars, fails>>

\* A request fails, or its answer is lost: the machine is skipped; or the whole
\* round is over.
Fail(c) ==
    /\ fails < MaxFails /\ fails' = fails + 1
    /\ round[c].stage # "idle" /\ ~round[c].filing
    /\ \E r \in {Resting, Between(round[c])} : round' = [round EXCEPT ![c] = r]
    /\ UNCHANGED boardVars

(***************************************************************************)
(* What a board does between requests of a round.                          *)
(***************************************************************************)
Shows(b, t) == t >= clock[b] \/ "clocks stepping back" \in Troubles

Post(b) ==
    /\ Free(b) /\ minted[b] < MaxPosts
    /\ \E t \in Time :
          /\ Shows(b, t)
          /\ clock' = [clock EXCEPT ![b] = t]
          /\ File(b, [origin |-> b, ts |-> t, tag |-> minted[b] + 1,
                      seq |-> Highest(LogOf(held[b], b), low[b][b]) + 1])
    /\ minted' = [minted EXCEPT ![b] = @ + 1]
    /\ UNCHANGED <<round, fails>>

\* Everything goes but the marks that say it was held.
Clear(b) ==
    /\ "clear" \in Troubles /\ Free(b) /\ held[b] # {}
    /\ LET cleared == {m.origin : m \in held[b]}
           mark == [o \in Board |-> Highest(LogOf(held[b], o), low[b][o])]
       IN  /\ low' = [low EXCEPT ![b] = mark]
           /\ lines' = [lines EXCEPT ![b] = {m \in @ : m.origin \notin cleared}]
           /\ through' = [through EXCEPT ![b] =
                 [o \in Board |-> IF o \in cleared THEN mark[o] ELSE @[o]]]
           /\ torn' = [torn EXCEPT ![b] = @ \ cleared]
    /\ held' = [held EXCEPT ![b] = {}]
    /\ UNCHANGED <<clock, minted, round, fails>>

\* What a file says it has dropped: in its header, and by where it begins.
MarkByRecords(log, header) ==
    Max({0} \cup {m.seq - 1 : m \in {n \in log : \A k \in log : n.seq <= k.seq}})

MarkOnFile(log, header) ==
    Max({header} \cup {m.seq - 1 : m \in {n \in log : \A k \in log : n.seq <= k.seq}})

\* The messages older than the window, up to the first that is not.
Aged(log, now) ==
    {m \in log : \A n \in log : n.seq <= m.seq => n.ts < now - Window}

\* A crash may cut a line short; it is passed over, and left there.
CutShort ==
    IF "torn lines" \in Troubles THEN {{}} \cup {{o} : o \in Board} ELSE {{}}

\* The daemon starts again, and what it holds is what is in its files, less
\* what has aged out.
Restart(b) ==
    /\ \E t \in Time, cut \in CutShort :
          /\ Shows(b, t)
          /\ clock' = [clock EXCEPT ![b] = t]
          /\ LET aged(o) == Aged(LogOf(lines[b], o), t)
                 mark(o) == IF aged(o) = {}
                            THEN MarkOnFile(LogOf(lines[b], o), through[b][o])
                            ELSE Max(Seqs(aged(o)))
                 kept    == {m \in lines[b] : m \notin aged(m.origin)}
             IN  /\ held' = [held EXCEPT ![b] = kept]
                 /\ low' = [low EXCEPT ![b] = [o \in Board |-> mark(o)]]
                 /\ lines' = [lines EXCEPT ![b] = kept]
                 /\ through' = [through EXCEPT ![b] =
                       [o \in Board |-> IF aged(o) = {} THEN @[o] ELSE mark(o)]]
                 /\ torn' = [torn EXCEPT ![b] =
                       {o \in @ \cup cut : aged(o) = {}}]
    /\ round' = [c \in Controllers |->
          IF round[c].filing /\ Into(c) = b THEN Between(round[c]) ELSE round[c]]
    /\ UNCHANGED <<minted, fails>>

(***************************************************************************)
(* The specification.                                                      *)
(***************************************************************************)
Init ==
    /\ held = [b \in Board |-> {}]
    /\ low = [b \in Board |-> Nothing]
    /\ lines = [b \in Board |-> {}]
    /\ through = [b \in Board |-> Nothing]
    /\ torn = [b \in Board |-> {}]
    /\ clock = [b \in Board |-> 1]
    /\ minted = [b \in Board |-> 0]
    /\ round = [c \in Controllers |-> Resting]
    /\ fails = 0

Carry(c, b) ==
    Ask(c, b) \/ FetchInbound(c, b) \/ FetchOutbound(c, b) \/ FileNext(c, b)

Round(c) ==
    BeginRound(c) \/ (\E b \in Board : Carry(c, b)) \/ Carried(c) \/ EndRound(c)

Daemon(b) ==
    \/ Post(b) \/ Clear(b) \/ Restart(b)

Next ==
    \/ \E c \in Controllers : Round(c) \/ Fail(c)
    \/ \E b \in Board : Daemon(b)

Spec == Init /\ [][Next]_vars

\* Rounds are begun again and again, and go on while their requests are
\* answered.
Fairness == \A c \in Controllers : WF_vars(Round(c))

FairSpec == Spec /\ Fairness

(***************************************************************************)
(* Properties.                                                             *)
(***************************************************************************)

\* Every variable has its type, and a page is of messages.
TypeOK ==
    /\ held \in [Board -> SUBSET Message] /\ lines \in [Board -> SUBSET Message]
    /\ low \in [Board -> Vector] /\ through \in [Board -> Vector]
    /\ torn \in [Board -> SUBSET Board]
    /\ fails \in 0..MaxFails
    /\ clock \in [Board -> Time] /\ minted \in [Board -> 0..MaxPosts]
    /\ round \in [Controllers ->
          [stage : {"idle", "between", "asked", "pull", "pulled", "push", "carried"},
           left : SUBSET Board, at : Board \cup {Nowhere},
           mine : Vector, theirs : Vector, page : SUBSET Message,
           filing : BOOLEAN, pulled : BOOLEAN]]

\* All the messages there are, on boards, in files and on their way.
Everywhere ==
    (UNION {held[b] \cup lines[b] : b \in Board})
        \cup (UNION {round[c].page : c \in Controllers})

\* An id is unique everywhere: no restart, clear or compaction makes a machine
\* give one number to two messages.
IdsAreUnique ==
    \A m, n \in Everywhere : m.origin = n.origin /\ m.seq = n.seq => m = n

\* What a board has once said it holds or has dropped it goes on saying, over
\* compaction, clears and restarts: no round asks for it a second time.
NothingAskedTwice ==
    [][\A b, o \in Board : VectorOf(b)'[o] >= VectorOf(b)[o]]_vars

\* What a machine has posted every board comes to hold or to have dropped,
\* however few messages a round carries: once posting stops, all vectors agree.
EveryoneCatchesUp ==
    <>[](\A b, o \in Board : VectorOf(b)[o] = VectorOf(o)[o])

=============================================================================
