------------------------------- MODULE Outbox -------------------------------
(***************************************************************************)
(* Direct messages: typed into a session's prompt at once when that is     *)
(* safe, and held in the daemon's outbox until it is when it is not.       *)
(*                                                                         *)
(* The outbox is written down, and the file is what the next daemon on the *)
(* machine starts from.  One thread, there only while something waits,     *)
(* takes out of it what has become due and what never will be, and only    *)
(* then, with the lock let go of and the file already rewritten, types the *)
(* one and sends word of the other.  Requests that add to the outbox start *)
(* that thread unless they find it running.                                *)
(*                                                                         *)
(* Abstracted: what a session shows is one of a few kinds of screen; how   *)
(* long a message has waited is which of the code's limits it has passed;  *)
(* the sender has let the ten seconds between two messages pass; a message *)
(* is filed on the board (Board) before it gets here; a daemon's threads   *)
(* end with its process, and its lock is the process's.                    *)
(***************************************************************************)
EXTENDS Naturals, FiniteSets

CONSTANTS
    Sessions,
    Messages,
    To,             \* the session each is for
    Deliver,        \* "auto", "when_idle" or "now"
    Seeds,          \* those that are the first prompt of a launch
    OutboxLimit,    \* OUTBOX_LIMIT
    Shown,          \* BOUND: the kinds of screen the sessions show
    Faults,         \* what goes wrong besides: a subset of KnownFaults
    MaxStarts       \* BOUND: daemons that serve one after another

Screens == {"idle", "working", "draft", "draft while working", "no box", "question"}
KnownFaults == {"stops mid-delivery", "file not saved"}

ASSUME MessagesAssumption ==
    /\ To \in [Messages -> Sessions]
    /\ Deliver \in [Messages -> {"auto", "when_idle", "now"}]
    /\ Seeds \subseteq Messages
ASSUME LimitsAssumption ==
    /\ OutboxLimit \in Nat \ {0} /\ MaxStarts \in Nat \ {0}
    /\ IsFiniteSet(Messages)
ASSUME ShownAssumption == Shown \subseteq Screens
ASSUME FaultsAssumption == Faults \subseteq KnownFaults

VARIABLES
    daemon,     \* "up", "standing down" or "gone"
    starts,     \* daemons there have been
    outbox,     \* DaemonState::outbox
    file,       \* outbox.json
    flag,       \* DaemonState::draining_outbox
    drainer,    \* where its thread is
    leaving,    \* threads that have lowered the flag and look once more
    due, lost,  \* what the drainer took out: to be typed, to be sent back
    request,    \* where the request that brings each message is
    age,        \* which limit each has waited past
    screen,     \* what each session shows
    session,    \* "live", "ended", or "gone" from the daemon's sessions
    \* What became of each message, which no process knows:
    answer,     \* what its sender was told at once
    typed,      \* how often it was typed
    told        \* whether its sender was told that it never arrived

queueVars   == <<outbox, file>>
threadVars  == <<flag, drainer, leaving, due, lost>>
outcomeVars == <<answer, typed, told>>
worldVars   == <<screen, session>>
vars == <<daemon, starts, queueVars, threadVars, request, age, worldVars,
          outcomeVars>>

Fresh    == 0
Absent   == 1   \* DELIVER_ABSENT_MS
Occupied == 2   \* DELIVER_OCCUPIED_MS
Expired  == 3   \* DELIVER_EXPIRY_MS
Request == {"new", "typing", "queueing", "spawning", "over"}
Answers == {"none", "delivered", "queued", "failed", "refused"}
Drainer == {"none", "looking", "asleep", "delivering", "lowering"}

Running == daemon # "gone"
Pending == outbox # {}

(***************************************************************************)
(* When a message goes in.                                                 *)
(***************************************************************************)
\* A ready prompt takes it, and only `when_idle' waits a turn out.
InReady(m, s) == s = "idle" \/ (s = "working" /\ Deliver[m] # "when_idle")

\* Nothing but `auto' goes in anywhere else, and never onto a question.
InPatience(m, s) ==
    /\ Deliver[m] = "auto"
    /\ \/ s = "draft while working" /\ age[m] >= Occupied
       \/ s = "draft"               /\ age[m] >= Occupied
       \/ s = "no box"              /\ age[m] >= Absent

\* A draft beside an agent that is idle, or that nobody has touched for a while.
InStaleDraft(m, s, quiet) ==
    /\ Deliver[m] = "auto"
    /\ s = "draft" \/ (s = "draft while working" /\ quiet)

IsDue(m, s, quiet) ==
    \/ Deliver[m] = "now"
    \/ InReady(m, s) \/ InPatience(m, s) \/ InStaleDraft(m, s, quiet)

(***************************************************************************)
(* The queue and its file.                                                 *)
(***************************************************************************)
SaveInMemory(queue) == outbox' = queue /\ UNCHANGED file

\* Called with the lock held; a file that cannot be written is only logged.
SaveOutbox(queue) ==
    /\ outbox' = queue
    /\ \/ file' = queue
       \/ "file not saved" \in Faults /\ UNCHANGED file

Full == Cardinality(outbox) >= OutboxLimit

TakeOutOfMemory(gone) == outbox' = outbox \ gone /\ UNCHANGED file
TakeOut(gone) ==
    IF gone = {} THEN UNCHANGED queueVars ELSE SaveOutbox(outbox \ gone)

\* What has waited too long, unless it is due at last.
TooLateOrDue(waiting, ready) == {m \in waiting : age[m] = Expired}
NeverTooLate(waiting, ready) == {}
TooLate(waiting, ready) == {m \in waiting \ ready : age[m] = Expired}

\* A drainer is started unless there is nothing to wait for or one is running.
SpawnOutboxDrainer ==
    IF Pending /\ ~flag
      THEN flag' = TRUE /\ drainer' = "looking"
      ELSE UNCHANGED <<flag, drainer>>

(***************************************************************************)
(* Requests.                                                               *)
(***************************************************************************)
Finish(m, what) ==
    /\ request' = [request EXCEPT ![m] = "over"]
    /\ answer'  = [answer EXCEPT ![m] = what]

\* The session is looked at: is the message typed at once or held?
DeliverDirect(m) ==
    /\ Running /\ m \notin Seeds /\ request[m] = "new"
    /\ IF session[To[m]] # "live"
         THEN Finish(m, "refused")
         ELSE /\ \E quiet \in BOOLEAN :
                    request' = [request EXCEPT ![m] =
                        IF IsDue(m, screen[To[m]], quiet) THEN "typing" ELSE "queueing"]
              /\ UNCHANGED answer
    /\ UNCHANGED <<daemon, starts, queueVars, threadVars, age, worldVars, typed, told>>

\* Typing can fail, and cannot succeed once the session has ended.
TypeNow(m) ==
    /\ Running /\ request[m] = "typing"
    /\ \/ /\ session[To[m]] = "live"
          /\ typed' = [typed EXCEPT ![m] = @ + 1]
          /\ Finish(m, "delivered")
       \/ Finish(m, "failed") /\ UNCHANGED typed
    /\ UNCHANGED <<daemon, starts, queueVars, threadVars, age, worldVars, told>>

\* The full outbox refuses a message that is on the board already.
Queue(m) ==
    /\ Running /\ request[m] = "queueing"
    /\ IF Full
         THEN Finish(m, "refused") /\ UNCHANGED queueVars
         ELSE /\ SaveOutbox(outbox \cup {m})
              /\ request' = [request EXCEPT ![m] = "spawning"]
              /\ UNCHANGED answer
    /\ UNCHANGED <<daemon, starts, threadVars, age, worldVars, typed, told>>

Spawn(m) ==
    /\ Running /\ request[m] = "spawning"
    /\ SpawnOutboxDrainer
    /\ Finish(m, "queued")
    /\ UNCHANGED <<daemon, starts, queueVars, leaving, due, lost, age, worldVars, typed, told>>

\* The prompt a launch carried is queued without a look at the session, and a
\* full outbox drops it with a line in the log.
QueueSeedPrompt(m) ==
    /\ Running /\ m \in Seeds /\ request[m] = "new"
    /\ request' = [request EXCEPT ![m] = "queueing"]
    /\ UNCHANGED <<daemon, starts, queueVars, threadVars, age, worldVars, outcomeVars>>

(***************************************************************************)
(* The drainer.                                                            *)
(***************************************************************************)
Look ==
    /\ Running /\ drainer = "looking"
    /\ drainer' = IF Pending /\ daemon = "up" THEN "asleep" ELSE "lowering"
    /\ UNCHANGED <<daemon, starts, queueVars, flag, leaving, due, lost, request, age,
                   worldVars, outcomeVars>>

\* One pass over the queue, under its lock: whoever is due and whoever never
\* will be are taken out, and the file is rewritten without them.
Pick ==
    /\ Running /\ drainer = "asleep"
    /\ \E quiet \in [Sessions -> BOOLEAN] :
          LET dead  == {m \in outbox : session[To[m]] # "live"}
              ready == {m \in outbox \ dead : IsDue(m, screen[To[m]], quiet[To[m]])}
              late  == TooLate(outbox \ dead, ready)
          IN /\ due' = ready /\ lost' = dead \cup late
             /\ TakeOut(dead \cup ready \cup late)
    /\ drainer' = "delivering"
    /\ UNCHANGED <<daemon, starts, flag, leaving, request, age, worldVars, outcomeVars>>

TypeNext ==
    /\ Running /\ drainer = "delivering"
    /\ \E m \in due :
          /\ due' = due \ {m}
          /\ \/ /\ session[To[m]] = "live"
                /\ typed' = [typed EXCEPT ![m] = @ + 1]
                /\ UNCHANGED lost
             \/ lost' = lost \cup {m} /\ UNCHANGED typed
    /\ UNCHANGED <<daemon, starts, queueVars, flag, drainer, leaving, request, age,
                   worldVars, answer, told>>

Bounce ==
    /\ Running /\ drainer = "delivering" /\ due = {}
    /\ \E m \in lost :
          /\ lost' = lost \ {m}
          /\ told' = [told EXCEPT ![m] = TRUE]
    /\ UNCHANGED <<daemon, starts, queueVars, flag, drainer, leaving, due, request, age,
                   worldVars, answer, typed>>

PassDone ==
    /\ Running /\ drainer = "delivering" /\ due = {} /\ lost = {}
    /\ drainer' = "looking"
    /\ UNCHANGED <<daemon, starts, queueVars, flag, leaving, due, lost, request, age,
                   worldVars, outcomeVars>>

\* A message queued since the last look found the flag up: look once more.
LowerFlag ==
    /\ Running /\ drainer = "lowering"
    /\ flag' = FALSE /\ drainer' = "none"
    /\ leaving' = leaving + 1
    /\ UNCHANGED <<daemon, starts, queueVars, due, lost, request, age, worldVars,
                   outcomeVars>>

LookOnceMore ==
    /\ Running /\ leaving > 0
    /\ leaving' = leaving - 1
    /\ IF daemon = "up" THEN SpawnOutboxDrainer ELSE UNCHANGED <<flag, drainer>>
    /\ UNCHANGED <<daemon, starts, queueVars, due, lost, request, age, worldVars,
                   outcomeVars>>

(***************************************************************************)
(* Daemons come and go.                                                    *)
(***************************************************************************)
\* A handover may wait for requests to be answered, a signal does not; neither
\* looks at the drainer.
StandDown ==
    /\ daemon = "up" /\ starts < MaxStarts
    /\ daemon' = "standing down"
    /\ UNCHANGED <<starts, queueVars, threadVars, request, age, worldVars, outcomeVars>>

\* The process ends, with all that was only in its memory.
Stop ==
    /\ Running /\ starts < MaxStarts
    /\ due \cup lost # {} => "stops mid-delivery" \in Faults
    /\ daemon' = "gone"
    /\ outbox' = {} /\ due' = {} /\ lost' = {}
    /\ flag' = FALSE /\ drainer' = "none" /\ leaving' = 0
    /\ request' = [m \in Messages |-> IF request[m] = "new" THEN "new" ELSE "over"]
    /\ UNCHANGED <<starts, file, age, worldVars, outcomeVars>>

\* The next one reads the file, adopts the sessions and starts a drainer.
Start ==
    /\ daemon = "gone" /\ starts < MaxStarts
    /\ daemon' = "up" /\ starts' = starts + 1
    /\ outbox' = file
    /\ flag' = (file # {})
    /\ drainer' = IF file # {} THEN "looking" ELSE "none"
    /\ UNCHANGED <<file, leaving, due, lost, request, age, worldVars, outcomeVars>>

(***************************************************************************)
(* The world.                                                              *)
(***************************************************************************)
Show(s, what) ==
    /\ session[s] = "live" /\ screen[s] # what
    /\ screen' = [screen EXCEPT ![s] = what]
    /\ UNCHANGED <<daemon, starts, queueVars, threadVars, request, age, session, outcomeVars>>

End(s, how) ==
    /\ \/ session[s] = "live"  /\ how = "ended"
       \/ session[s] # "gone" /\ how = "gone"
    /\ session' = [session EXCEPT ![s] = how]
    /\ UNCHANGED <<daemon, starts, queueVars, threadVars, request, age, screen, outcomeVars>>

Wait ==
    LET waiting == {m \in outbox \cup file : age[m] < Expired}
    IN /\ waiting # {}
       /\ age' = [m \in Messages |-> IF m \in waiting THEN age[m] + 1 ELSE age[m]]
       /\ UNCHANGED <<daemon, starts, queueVars, threadVars, request, worldVars, outcomeVars>>

Init ==
    /\ daemon = "up" /\ starts = 1
    /\ outbox = {} /\ file = {}
    /\ flag = FALSE /\ drainer = "none" /\ leaving = 0
    /\ due = {} /\ lost = {}
    /\ request = [m \in Messages |-> "new"]
    /\ age = [m \in Messages |-> Fresh]
    /\ screen \in [Sessions -> Shown]
    /\ session = [s \in Sessions |-> "live"]
    /\ answer = [m \in Messages |-> "none"]
    /\ typed = [m \in Messages |-> 0]
    /\ told = [m \in Messages |-> FALSE]

RequestStep(m) ==
    DeliverDirect(m) \/ TypeNow(m) \/ Queue(m) \/ Spawn(m) \/ QueueSeedPrompt(m)
DrainerStep == Look \/ Pick \/ TypeNext \/ Bounce \/ PassDone \/ LowerFlag

Next ==
    \/ \E m \in Messages : RequestStep(m)
    \/ DrainerStep \/ LookOnceMore
    \/ StandDown \/ Stop \/ Start
    \/ \E s \in Sessions : \/ \E what \in Shown : Show(s, what)
                           \/ \E how \in {"ended", "gone"} : End(s, how)
    \/ Wait

Spec == Init /\ [][Next]_vars

\* Threads run on, time passes, and a daemon that stands down ends and is
\* followed by another.
Fairness ==
    /\ \A m \in Messages : WF_vars(RequestStep(m))
    /\ WF_vars(DrainerStep) /\ WF_vars(LookOnceMore)
    /\ WF_vars(daemon = "standing down" /\ Stop)
    /\ WF_vars(Start) /\ WF_vars(Wait)

FairSpec == Spec /\ Fairness
(***************************************************************************)
(* Properties.                                                             *)
(***************************************************************************)
\* Every variable keeps its type, the flag says whether a drainer runs, and the
\* outbox keeps to its limit, from one daemon to the next.
TypeOK ==
    /\ daemon \in {"up", "standing down", "gone"} /\ starts \in 1..MaxStarts
    /\ outbox \in SUBSET Messages /\ file \in SUBSET Messages
    /\ flag \in BOOLEAN /\ drainer \in Drainer /\ leaving \in Nat
    /\ due \in SUBSET Messages /\ lost \in SUBSET Messages
    /\ request \in [Messages -> Request]
    /\ age \in [Messages -> Fresh..Expired]
    /\ screen \in [Sessions -> Screens]
    /\ session \in [Sessions -> {"live", "ended", "gone"}]
    /\ answer \in [Messages -> Answers]
    /\ typed \in [Messages -> Nat] /\ told \in [Messages -> BOOLEAN]
    /\ flag = (drainer # "none")
    /\ Cardinality(outbox) <= OutboxLimit

\* No message is typed twice, whichever of the two ways it takes and however
\* many daemons hold it one after another (daemon.rs:785-787).
TypedOnce == \A m \in Messages : typed[m] <= 1

\* Nobody is told that a message never arrived that did: not by the answer to
\* the request, not by a bounce from this daemon or a later one.
NoFalseAlarm ==
    \A m \in Messages : typed[m] > 0 => ~told[m] /\ answer[m] \notin {"failed", "refused"}

\* A message whose sender was told that it waits is somewhere: in the file the
\* next daemon reads, in the hands of the drainer, or typed or sent back
\* (talk.rs:1515-1516, daemon.rs:1415-1419).
NothingSwallowed ==
    \A m \in Messages :
        answer[m] = "queued" => \/ m \in file \cup outbox \cup due \cup lost
                                \/ typed[m] > 0 \/ told[m]

\* As long as a daemon serves and something waits, some thread will see it: the
\* drainer, one that is about to look once more, or the request that is about to
\* start one (daemon.rs:1547-1573).
SomeoneWatches ==
    daemon = "up" /\ Pending =>
        flag \/ leaving > 0 \/ \E m \in Messages : request[m] = "spawning"

\* What waits in the outbox is typed or sent back in the end, whatever the
\* session shows, across handovers and crashes.
EveryMessageEnds ==
    \A m \in Messages : m \in outbox ~> typed[m] > 0 \/ told[m]

=============================================================================
