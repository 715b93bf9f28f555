---------------------------- MODULE LeaseProofs ----------------------------
(***************************************************************************)
(* Proofs about Lease, for any number of machines and messages: no cursor  *)
(* that a dashboard may resume at passes over a message nobody has dealt   *)
(* with, for any times; and nothing is answered twice, for times as long   *)
(* as the code's.                                                          *)
(*                                                                         *)
(* The first argument follows a cursor from the chat to a worker's copy of *)
(* the inbox, from there to the board and to the file, and from the board  *)
(* to another worker.  It is moved only by a read, which puts what it      *)
(* passes over in the worker's hands, and a worker that is let finish puts *)
(* nothing down before it has dealt with it.                               *)
(*                                                                         *)
(* The second is about what a dashboard may not have seen when it decides. *)
(* A board is as old as the round that carried it, and a round is at most  *)
(* a tick old; a lease is refreshed with three ticks left, so that one     *)
(* that has settled is seen by whoever decides, and one that is not seen   *)
(* is younger than any that reads.                                         *)
(***************************************************************************)
EXTENDS Lease, FiniteSetTheorems, WellFoundedInduction, TLAPS

\* What the proof of the promise assumes: no dashboard is closed while its
\* worker has a round out.
RoundsEnd == "quit mid-round" \notin Faults

InRound == {m \in Machines : round[m] # None}

\* A worker has messages in its hands only once it has read the chat.
HandInv ==
    \A m \in InRound :
        round[m].at \notin {"refreshing", "answering"} => round[m].batch = {}

Spoken == {i \in Message : answers[i] > 0 \/ i \in old}

\* A message that an inbox says is handled has been dealt with.
HandledInv ==
    /\ \A m \in Machines : inbox[m].handled \subseteq Spoken
    /\ \A m \in InRound : round[m].inbox.handled \subseteq Spoken

Accounted(i) == i \in Spoken \/ \E m \in InRound : i \in round[m].batch

\* Every message up to the cursor has been dealt with or is in hand.
Safe(c) == \A i \in Message : i <= c => Accounted(i)

\* The cursors on the boards, in the inboxes and in the workers' copies.
CursorInv ==
    /\ \A m, h \in Machines : board[m][h] # None => Safe(board[m][h].cursor)
    /\ \A m \in Machines : Safe(OrEmpty(inbox[m].cursor))
    /\ \A m \in InRound : Safe(OrEmpty(round[m].inbox.cursor))

IInv == TypeOK /\ HandInv /\ HandledInv /\ CursorInv

-----------------------------------------------------------------------------
(* Boards *)

Boards == [Machines -> [Machines -> Note \union {None}]]

\* The stamps on a board are finitely many.
LEMMA StampsFinite == ASSUME NEW b \in Boards PROVE IsFiniteSet(Stamps(b))
<1> DEFINE Places == {p \in Machines \X Machines : b[p[1]][p[2]] # None}
           f == [p \in Places |-> b[p[1]][p[2]].stamp]
<1>1. IsFiniteSet(Machines \X Machines)
  BY MachinesAssumption, FS_Product
<1>2. IsFiniteSet(Places)
  BY <1>1, FS_Subset
<1>3. f \in Surjection(Places, Stamps(b))
  <2>1. \A p \in Places : f[p] \in Stamps(b)
    BY DEF Stamps, Notes
  <2>2. \A s \in Stamps(b) : \E p \in Places : f[p] = s
    <3> TAKE s \in Stamps(b)
    <3>1. PICK m \in Machines, h \in Machines :
             b[m][h] # None /\ s = b[m][h].stamp
      BY DEF Stamps, Notes
    <3>2. <<m, h>> \in Places /\ f[<<m, h>>] = s
      BY <3>1
    <3> QED BY <3>2
  <2> QED
    BY <2>1, <2>2 DEF Surjection
<1> QED
  BY <1>2, <1>3, FS_Surjection

\* Ranking changes nothing of a note but its stamp.
LEMMA RankedFacts ==
    ASSUME NEW b \in Boards
    PROVE  /\ Ranked(b) \in Boards
           /\ \A m, h \in Machines :
                 Ranked(b)[m][h] # None =>
                     b[m][h] # None /\ Ranked(b)[m][h].cursor = b[m][h].cursor
<1> DEFINE C(note) == Cardinality({s \in Stamps(b) : s <= note.stamp})
<1>1. \A note \in Note : C(note) \in Nat
  <2> TAKE note \in Note
  <2>1. {s \in Stamps(b) : s <= note.stamp} \in SUBSET Stamps(b)
    OBVIOUS
  <2>2. IsFiniteSet({s \in Stamps(b) : s <= note.stamp})
    BY <2>1, StampsFinite, FS_Subset
  <2> QED BY <2>2, FS_CardinalityType
<1>2. \A m, h \in Machines :
         Ranked(b)[m][h] = IF b[m][h] = None THEN None
                           ELSE [b[m][h] EXCEPT !.stamp = C(b[m][h])]
  BY DEF Ranked
<1> HIDE DEF C
<1>3. \A m, h \in Machines : b[m][h] # None => b[m][h] \in Note
  BY DEF Boards
<1>4. \A note \in Note :
         LET ranked == [note EXCEPT !.stamp = C(note)]
         IN  ranked \in Note /\ ranked.cursor = note.cursor
  BY <1>1 DEF Note
<1>5. Ranked(b) = [m \in Machines |-> [h \in Machines |-> Ranked(b)[m][h]]]
  BY DEF Ranked
<1>6. \A m, h \in Machines : Ranked(b)[m][h] \in Note \union {None}
  BY <1>2, <1>3, <1>4
<1>7. Ranked(b) \in Boards
  BY <1>5, <1>6 DEF Boards
<1>8. \A m, h \in Machines :
         Ranked(b)[m][h] # None =>
             b[m][h] # None /\ Ranked(b)[m][h].cursor = b[m][h].cursor
  BY <1>2, <1>3, <1>4
<1> QED BY <1>7, <1>8

\* A carried board holds notes that were on some board.
LEMMA CarriedFacts ==
    ASSUME NEW b \in Boards
    PROVE  /\ Carried(b) \in Boards
           /\ \A m, h \in Machines :
                 Carried(b)[m][h] # None =>
                     \E k \in Machines : b[k][h] # None /\
                         Carried(b)[m][h].cursor = b[k][h].cursor
<1>1. CASE ~linked
  BY <1>1 DEF Carried
<1>2. CASE linked
  <2> DEFINE held(h) == {b[k][h] : k \in Machines} \ {None}
             newest(h) == {note \in held(h) :
                              \A other \in held(h) : other.stamp <= note.stamp}
             chosen(h) == IF newest(h) = {} THEN None
                          ELSE CHOOSE note \in newest(h) : TRUE
             raw == [m \in Machines |-> [h \in Machines |-> chosen(h)]]
  <2>1. Carried(b) = Ranked(raw)
    BY <1>2 DEF Carried
  <2>2. \A h : newest(h) \subseteq held(h)
    OBVIOUS
  <2>3. \A h : chosen(h) \in held(h) \union {None}
    <3> TAKE h
    <3>1. newest(h) # {} => chosen(h) \in newest(h)
      OBVIOUS
    <3> QED BY <2>2, <3>1
  <2>4. \A h \in Machines : held(h) \subseteq Note
    BY DEF Boards
  <2>5. \A m, h \in Machines : raw[m][h] = chosen(h)
    OBVIOUS
  <2> HIDE DEF newest, chosen
  <2>6. raw \in Boards
    BY <2>3, <2>4 DEF Boards
  <2> HIDE DEF raw
  <2>7. \A m, h \in Machines : raw[m][h] # None =>
           \E k \in Machines : b[k][h] # None /\ raw[m][h] = b[k][h]
    BY <2>3, <2>5
  <2> QED
    BY <2>1, <2>6, <2>7, RankedFacts
<1> QED BY <1>1, <1>2

\* A posted note carries the cursor it is posted with.
LEMMA PostedFacts ==
    ASSUME NEW b \in Boards, NEW m \in Machines, NEW c \in Cursor
    PROVE  /\ Posted(b, m, c) \in Boards
           /\ \A k, h \in Machines :
                 Posted(b, m, c)[k][h] # None =>
                     \/ Posted(b, m, c)[k][h].cursor = c
                     \/ b[k][h] # None /\
                        Posted(b, m, c)[k][h].cursor = b[k][h].cursor
<1> DEFINE note == [left |-> TTL, cursor |-> c, stamp |-> 1 + Cardinality(Stamps(b))]
           raw == [b EXCEPT ![m][m] = note]
<1>1. note \in Note /\ note.cursor = c
  BY StampsFinite, FS_CardinalityType, TimesAssumption DEF Note
<1>2. Posted(b, m, c) = Ranked(raw)
  BY DEF Posted
<1> HIDE DEF note
<1>3. raw \in Boards
  BY <1>1 DEF Boards
<1>4. \A k, h \in Machines :
         raw[k][h] = IF k = m /\ h = m THEN note ELSE b[k][h]
  BY DEF Boards
<1> HIDE DEF raw
<1> QED
  BY <1>1, <1>2, <1>3, <1>4, RankedFacts

-----------------------------------------------------------------------------
(* Types *)

\* Nothing is none of the things it stands in for.
LEMMA NoneIsNothing ==
    /\ None \notin Nat /\ None \notin Note /\ None \notin Round
    /\ None \notin [left : 0 .. TTL, cursor : Cursor]
  BY NoneAssumption

\* A cursor that is missing is read as the empty one.
LEMMA OrEmptyType ==
    ASSUME NEW c \in Cursor \union {None} PROVE OrEmpty(c) \in Cursor
  BY BoundsAssumption DEF OrEmpty, Cursor

\* Adopting a cursor changes the cursor of an inbox only, to that of a note.
LEMMA AdoptFacts ==
    ASSUME NEW b \in Boards, NEW m \in Machines, NEW box \in Inbox
    PROVE  LET adopted == AdoptNewerCursor(m, b[m], box)
           IN  /\ adopted \in Inbox
               /\ adopted.handled = box.handled
               /\ \/ adopted.cursor = box.cursor
                  \/ \E h \in Machines :
                        b[m][h] # None /\ adopted.cursor = b[m][h].cursor
<1> DEFINE holders == {h \in Machines : b[m][h] # None}
           newest  == {h \in holders : \A k \in holders : b[m][k].stamp <= b[m][h].stamp}
           others  == {h \in newest : h # m /\ b[m][h].cursor # 0}
           chosen  == CHOOSE h \in others : TRUE
<1>1. AdoptNewerCursor(m, b[m], box) =
         IF others = {} THEN box ELSE [box EXCEPT !.cursor = b[m][chosen].cursor]
  BY DEF AdoptNewerCursor
<1>2. CASE others = {}
  BY <1>1, <1>2
<1>3. CASE others # {}
  <2>1. chosen \in others
    BY <1>3
  <2>2. chosen \in Machines /\ b[m][chosen] # None
    BY <2>1
  <2>3. b[m][chosen] \in Note
    BY <2>2 DEF Boards
  <2> HIDE DEF others, chosen
  <2>4. AdoptNewerCursor(m, b[m], box) = [box EXCEPT !.cursor = b[m][chosen].cursor]
    BY <1>1, <1>3
  <2>5. b[m][chosen].cursor \in Cursor
    BY <2>3 DEF Note
  <2>6. [box EXCEPT !.cursor = b[m][chosen].cursor] \in Inbox
    BY <2>5 DEF Inbox
  <2> QED
    BY <2>2, <2>4, <2>6 DEF Inbox
<1> QED BY <1>2, <1>3

\* Before anything has been started every variable has its type.
LEMMA TypeInit == Init => TypeOK
  BY BoundsAssumption, TimesAssumption
  DEF Init, TypeOK, UnreadInbox, Inbox, Cursor, Message, Boards

\* A round whose fields have their types is a round.
LEMMA RoundFacts ==
    ASSUME NEW r \in Round
    PROVE  /\ r.inbox \in Inbox /\ r.batch \subseteq Message
           /\ \A stage \in {"deciding", "claiming", "reading", "refreshing",
                            "answering", "over"} : [r EXCEPT !.at = stage] \in Round
           /\ \A box \in Inbox : [r EXCEPT !.inbox = box] \in Round
  BY DEF Round

\* Fields of an inbox.
LEMMA InboxFacts ==
    ASSUME NEW box \in Inbox
    PROVE  /\ box.cursor \in Cursor \union {None}
           /\ box.handled \subseteq Message
           /\ \A c \in Cursor : [box EXCEPT !.cursor = c] \in Inbox
           /\ \A d \in 0 .. Settle : [box EXCEPT !.claimed = d] \in Inbox
           /\ \A p \in [left : 0 .. TTL, cursor : Cursor] :
                 [box EXCEPT !.posted = p] \in Inbox
           /\ \A h \in SUBSET Message : [box EXCEPT !.handled = h] \in Inbox
  BY DEF Inbox

\* The passing of time leaves a note what it is, with its cursor.
LEMMA OlderNote ==
    ASSUME NEW note \in Note \union {None}
    PROVE  /\ Older(note) \in Note \union {None}
           /\ note = None => Older(note) = None
           /\ note # None => Older(note).cursor = note.cursor
<1>1. CASE note = None
  BY <1>1 DEF Older
<1>2. CASE note # None
  <2>1. note \in Note
    BY <1>2
  <2> DEFINE less == IF note.left = 0 THEN 0 ELSE note.left - 1
  <2>2. less \in 0 .. TTL
    BY <2>1, TimesAssumption DEF Note
  <2>3. Older(note) = [note EXCEPT !.left = less]
    BY <1>2 DEF Older
  <2> HIDE DEF less
  <2> QED BY <1>2, <2>1, <2>2, <2>3 DEF Note
<1> QED BY <1>1, <1>2

\* An inbox too keeps its cursor, and what it has handled.
LEMMA OlderInboxFacts ==
    ASSUME NEW box \in Inbox
    PROVE  /\ OlderInbox(box) \in Inbox
           /\ OlderInbox(box).cursor = box.cursor
           /\ OlderInbox(box).handled = box.handled
<1> DEFINE p == box.posted
<1>1. Older(p) \in [left : 0 .. TTL, cursor : Cursor] \union {None}
  <2>1. CASE p = None
    BY <2>1 DEF Older
  <2>2. CASE p # None
    <3>1. p \in [left : 0 .. TTL, cursor : Cursor]
      BY <2>2 DEF Inbox
    <3> DEFINE less == IF p.left = 0 THEN 0 ELSE p.left - 1
    <3>2. less \in 0 .. TTL
      BY <3>1, TimesAssumption
    <3>3. Older(p) = [p EXCEPT !.left = less]
      BY <2>2 DEF Older
    <3> QED BY <3>1, <3>2, <3>3
  <2> QED BY <2>1, <2>2
<1>2. (IF box.claimed = Settle THEN box.claimed ELSE box.claimed + 1) \in 0 .. Settle
  BY TimesAssumption DEF Inbox
<1> QED
  BY <1>1, <1>2 DEF OlderInbox, Inbox

\* A round too, with its stage and its batch.
LEMMA OlderRoundFacts ==
    ASSUME NEW r \in Round
    PROVE  LET s == OlderRound(r)
           IN  /\ s \in Round /\ s.at = r.at /\ s.batch = r.batch
               /\ s.inbox.cursor = r.inbox.cursor
               /\ s.inbox.handled = r.inbox.handled
<1> DEFINE box == OlderInbox(r.inbox)
<1>1. r.inbox \in Inbox
  BY DEF Round
<1>2. box \in Inbox /\ box.cursor = r.inbox.cursor /\ box.handled = r.inbox.handled
  BY <1>1, OlderInboxFacts
<1>3. OlderRound(r) = [r EXCEPT !.inbox = box]
  BY NoneIsNothing DEF OlderRound
<1> HIDE DEF box
<1> QED
  BY <1>2, <1>3 DEF Round

-----------------------------------------------------------------------------
(* Steps *)

\* The empty cursor passes over nothing.
LEMMA EmptyIsSafe == Safe(0)
  BY BoundsAssumption DEF Safe, Message

\* What is accounted for after a step is so for a cursor too.
LEMMA SafeKept ==
    ASSUME \A i \in Message : Accounted(i) => Accounted(i)'
    PROVE  \A c : Safe(c) => \A i \in Message : i <= c => Accounted(i)'
  BY DEF Safe

\* The invariant survives any step by which one worker goes on with its round
\* without putting anything down: it may publish a cursor that is safe, and
\* move its own copy of the cursor as far as what it holds allows.
LEMMA WorkerGoesOn ==
    ASSUME IInv, TypeOK', NEW m \in Machines, NEW s \in Round,
           round' = [round EXCEPT ![m] = s],
           UNCHANGED <<inbox, answers, old>>,
           \A k, h \in Machines :
              board'[k][h] # None => Safe(board'[k][h].cursor),
           round[m] # None => round[m].batch \subseteq s.batch,
           s.at \notin {"refreshing", "answering"} => s.batch = {},
           s.inbox.handled \subseteq Spoken,
           \A i \in Message :
              i <= OrEmpty(s.inbox.cursor) => Accounted(i) \/ i \in s.batch
    PROVE  IInv'
<1>1. /\ round'[m] = s
      /\ \A k \in Machines : k # m => round'[k] = round[k]
  BY DEF IInv, TypeOK
<1>2. s # None
  BY NoneIsNothing
<1>3. Spoken' = Spoken
  BY DEF Spoken
<1>4. \A i \in Message : i \in s.batch => Accounted(i)'
  BY <1>1, <1>2 DEF Accounted, InRound
<1>5. \A i \in Message : Accounted(i) => Accounted(i)'
  <2> SUFFICES ASSUME NEW i \in Message, Accounted(i) PROVE Accounted(i)'
    OBVIOUS
  <2>1. CASE i \in Spoken
    BY <2>1, <1>3 DEF Accounted
  <2>2. CASE \E k \in InRound : i \in round[k].batch
    <3>1. PICK k \in InRound : i \in round[k].batch
      BY <2>2
    <3>2. CASE k = m
      BY <3>1, <3>2, <1>4 DEF InRound
    <3>3. CASE k # m
      BY <3>1, <3>3, <1>1 DEF Accounted, InRound
    <3> QED BY <3>2, <3>3
  <2> QED BY <2>1, <2>2 DEF Accounted
<1> DEFINE SafeNext(c) == \A i \in Message : i <= c => Accounted(i)'
<1>6. \A c : Safe(c) => SafeNext(c)
  BY <1>5, SafeKept
<1>7. HandInv'
  BY <1>1 DEF IInv, HandInv, InRound
<1>8. HandledInv'
  BY <1>1, <1>3 DEF IInv, HandledInv, InRound
<1>9. CursorInv'
  <2>1. \A i \in Message : i <= OrEmpty(s.inbox.cursor) => Accounted(i)'
    BY <1>4, <1>5
  <2> HIDE DEF SafeNext
  <2>2. \A k, h \in Machines : board'[k][h] # None => SafeNext(board'[k][h].cursor)
    BY <1>6
  <2>3. \A k \in Machines : SafeNext(OrEmpty(inbox'[k].cursor))
    BY <1>6 DEF IInv, CursorInv
  <2>4. \A k \in InRound' : SafeNext(OrEmpty(round'[k].inbox.cursor))
    <3> SUFFICES ASSUME NEW k \in InRound'
                 PROVE  SafeNext(OrEmpty(round'[k].inbox.cursor))
      OBVIOUS
    <3>1. CASE k = m
      BY <3>1, <2>1, <1>1 DEF SafeNext
    <3>2. CASE k # m
      BY <3>2, <1>1, <1>6 DEF IInv, CursorInv, InRound
    <3> QED BY <3>1, <3>2
  <2> QED BY <2>2, <2>3, <2>4 DEF CursorInv, Safe, SafeNext, OrEmpty
<1> QED
  BY <1>7, <1>8, <1>9 DEF IInv

\* What the invariant says of one worker's round.
LEMMA RoundType ==
    ASSUME IInv, NEW m \in Machines, round[m] # None
    PROVE  /\ round[m] \in Round /\ m \in InRound
           /\ round[m].inbox \in Inbox /\ round[m].batch \subseteq Message
           /\ round[m].inbox.handled \subseteq Spoken
           /\ \A i \in Message :
                 i <= OrEmpty(round[m].inbox.cursor) => Accounted(i)
           /\ round[m].at \notin {"refreshing", "answering"} => round[m].batch = {}
<1>1. round[m] \in Round /\ m \in InRound
  BY DEF IInv, TypeOK, InRound
<1> QED
  BY <1>1, RoundFacts DEF IInv, HandInv, HandledInv, CursorInv, Safe

\* A dashboard begins a round.
LEMMA BeginStep ==
    ASSUME IInv, NEW m \in Machines, Begin(m) PROVE IInv'
<1> DEFINE s == [at |-> "deciding", inbox |-> inbox[m], batch |-> {}, stale |-> FALSE]
<1>1. inbox[m] \in Inbox /\ inbox[m].handled \subseteq Spoken
  BY DEF IInv, TypeOK, HandledInv
<1>2. /\ s \in Round /\ s.at = "deciding" /\ s.batch = {} /\ s.inbox = inbox[m]
  BY <1>1 DEF Round
<1>3. round' = [round EXCEPT ![m] = s]
  BY DEF Begin
<1>4. /\ round[m] = None
      /\ UNCHANGED <<inbox, answers, old, said, running, linked, quits, fails>>
      /\ age' = [age EXCEPT ![m] = 0] /\ board' = Carried(board)
  BY DEF Begin, budgets
<1> HIDE DEF s
<1>5. board \in Boards
  BY DEF IInv, TypeOK, Boards
<1>6. board' \in Boards
  BY <1>4, <1>5, CarriedFacts
<1>7. \A k, h \in Machines : board'[k][h] # None => Safe(board'[k][h].cursor)
  BY <1>4, <1>5, CarriedFacts DEF IInv, CursorInv
<1>8. TypeOK'
  <2>1. round' \in [Machines -> Round \union {None}] /\ age' \in [Machines -> 0 .. 1]
    BY <1>2, <1>3, <1>4 DEF IInv, TypeOK
  <2> QED BY <2>1, <1>4, <1>6 DEF IInv, TypeOK, Boards
<1>9. \A i \in Message :
         i <= OrEmpty(s.inbox.cursor) => Accounted(i) \/ i \in s.batch
  BY <1>2 DEF IInv, CursorInv, Safe
<1> QED
  BY <1>1, <1>2, <1>3, <1>4, <1>7, <1>8, <1>9, WorkerGoesOn

\* It decides.
LEMMA DecideStep ==
    ASSUME IInv, NEW m \in Machines, Decide(m) PROVE IInv'
<1> DEFINE r == round[m]
           adopted == AdoptNewerCursor(m, board[m], r.inbox)
<1>1. r # None /\ r.at = "deciding"
  BY DEF Decide, At
<1>2. r \in Round /\ r.inbox \in Inbox /\ r.batch = {}
      /\ r.inbox.handled \subseteq Spoken
  BY <1>1, RoundType
<1>3. board \in Boards
  BY DEF IInv, TypeOK, Boards
<1>4. /\ adopted \in Inbox /\ adopted.handled = r.inbox.handled
      /\ \/ adopted.cursor = r.inbox.cursor
         \/ \E h \in Machines :
               board[m][h] # None /\ adopted.cursor = board[m][h].cursor
  BY <1>2, <1>3, AdoptFacts
<1> HIDE DEF adopted
<1> DEFINE claimed == [adopted EXCEPT !.claimed = 0]
<1>5. /\ claimed \in Inbox /\ claimed.handled = r.inbox.handled
      /\ claimed.cursor = adopted.cursor
  BY <1>4, TimesAssumption DEF Inbox
<1> HIDE DEF claimed
<1>6. PICK s \in Round :
         /\ round' = [round EXCEPT ![m] = s]
         /\ s.at \in {"over", "reading", "claiming"} /\ s.batch = {}
         /\ s.inbox \in {r.inbox, adopted, claimed}
  <2> DEFINE Moved(stage, box) == [[r EXCEPT !.at = stage] EXCEPT !.inbox = box]
  <2>1. \A stage \in {"over", "reading", "claiming"} :
           \A box \in {r.inbox, adopted, claimed} :
              LET s == Moved(stage, box)
              IN  s \in Round /\ s.at = stage /\ s.batch = {} /\ s.inbox = box
    BY <1>2, <1>4, <1>5 DEF Round
  <2>2. \E stage \in {"over", "reading", "claiming"} :
           \E box \in {r.inbox, adopted, claimed} :
              round' = [round EXCEPT ![m] = Moved(stage, box)]
    <3> DEFINE decision == LeaseDecision(m, board[m], r.inbox.claimed, PeersAreLive)
    <3>1. \A stage : [r EXCEPT !.at = stage] = Moved(stage, r.inbox)
      BY <1>2 DEF Round
    <3>2. \/ round' = [round EXCEPT ![m].at = "over"]
          \/ round' = [round EXCEPT ![m].at = "reading", ![m].inbox = adopted]
          \/ round' = [round EXCEPT ![m].at =
                          IF LeaseStillStands(r.inbox) THEN "over" ELSE "claiming"]
          \/ round' = [round EXCEPT ![m].at = "claiming", ![m].inbox = claimed]
      BY DEF Decide, GoTo, adopted, claimed
    <3>3. m \in DOMAIN round
      BY DEF IInv, TypeOK
    <3>4. CASE round' = [round EXCEPT ![m].at = "over"]
      <4>1. round' = [round EXCEPT ![m] = Moved("over", r.inbox)]
        BY <3>1, <3>4
      <4> QED BY <4>1
    <3>5. CASE round' = [round EXCEPT ![m].at = "reading", ![m].inbox = adopted]
      <4>1. round' = [round EXCEPT ![m] = Moved("reading", adopted)]
        BY <3>3, <3>5
      <4> QED BY <4>1
    <3>6. CASE round' = [round EXCEPT ![m].at =
                          IF LeaseStillStands(r.inbox) THEN "over" ELSE "claiming"]
      <4>1. \/ round' = [round EXCEPT ![m] = Moved("over", r.inbox)]
            \/ round' = [round EXCEPT ![m] = Moved("claiming", r.inbox)]
        BY <3>1, <3>6
      <4> QED BY <4>1
    <3>7. CASE round' = [round EXCEPT ![m].at = "claiming", ![m].inbox = claimed]
      <4>1. round' = [round EXCEPT ![m] = Moved("claiming", claimed)]
        BY <3>3, <3>7
      <4> QED BY <4>1
    <3> QED BY <3>2, <3>4, <3>5, <3>6, <3>7
  <2> HIDE DEF Moved
  <2>3. PICK stage \in {"over", "reading", "claiming"},
             box \in {r.inbox, adopted, claimed} :
                round' = [round EXCEPT ![m] = Moved(stage, box)]
    BY <2>2
  <2> DEFINE moved == Moved(stage, box)
  <2>4. moved \in Round /\ moved.at = stage /\ moved.batch = {} /\ moved.inbox = box
    BY <2>1
  <2>5. round' = [round EXCEPT ![m] = moved]
    BY <2>3
  <2> HIDE DEF moved
  <2> QED BY <2>4, <2>5
<1>7. UNCHANGED <<said, board, inbox, age, running, linked, quits, fails, answers, old>>
  BY DEF Decide, budgets
<1>8. TypeOK'
  BY <1>6, <1>7 DEF IInv, TypeOK
<1>9. \A k, h \in Machines : board'[k][h] # None => Safe(board'[k][h].cursor)
  BY <1>7 DEF IInv, CursorInv
<1>10. Safe(OrEmpty(r.inbox.cursor))
  BY <1>1, RoundType DEF Safe
<1>11. Safe(OrEmpty(adopted.cursor))
  <2>1. CASE adopted.cursor = r.inbox.cursor
    BY <2>1, <1>10
  <2>2. CASE \E h \in Machines :
               board[m][h] # None /\ adopted.cursor = board[m][h].cursor
    BY <2>2, EmptyIsSafe DEF IInv, CursorInv, OrEmpty
  <2> QED BY <2>1, <2>2, <1>4
<1>12. Safe(OrEmpty(s.inbox.cursor)) /\ s.inbox.handled \subseteq Spoken
  BY <1>2, <1>4, <1>5, <1>6, <1>10, <1>11
<1>13. \A i \in Message :
         i <= OrEmpty(s.inbox.cursor) => Accounted(i) \/ i \in s.batch
  BY <1>12 DEF Safe
<1> QED
  BY <1>2, <1>6, <1>7, <1>8, <1>9, <1>12, <1>13, WorkerGoesOn

\* A note is posted, with the cursor the worker holds.
LEMMA ClaimLeaseStep ==
    ASSUME IInv, NEW m \in Machines, ClaimLease(m),
           round[m] # None, round[m].at \in {"claiming", "refreshing"},
           UNCHANGED <<said, inbox, age, running, linked, budgets, answers, old>>
    PROVE  IInv'
<1> DEFINE r == round[m]
           c == OrEmpty(r.inbox.cursor)
           note == [left |-> TTL, cursor |-> c]
           box == [r.inbox EXCEPT !.posted = note]
           stage == IF r.at = "claiming" THEN "over" ELSE "answering"
           s == [[r EXCEPT !.inbox = box] EXCEPT !.at = stage]
<1>1. /\ r \in Round /\ r.inbox \in Inbox /\ r.batch \subseteq Message
      /\ r.inbox.handled \subseteq Spoken
      /\ \A i \in Message : i <= c => Accounted(i)
      /\ r.at \notin {"refreshing", "answering"} => r.batch = {}
  BY RoundType
<1>2. c \in Cursor
  BY <1>1, InboxFacts, OrEmptyType
<1>3. note \in [left : 0 .. TTL, cursor : Cursor]
  BY <1>2, TimesAssumption
<1>4. /\ box \in Inbox /\ box.cursor = r.inbox.cursor
      /\ box.handled = r.inbox.handled
  BY <1>1, <1>3, InboxFacts DEF Inbox
<1>5. m \in DOMAIN round
  BY DEF IInv, TypeOK
<1>6. round' = [round EXCEPT ![m] = s]
  <2>1. round' = [round EXCEPT ![m].inbox.posted = note,
                               ![m].at = IF @ = "claiming" THEN "over" ELSE "answering"]
    BY DEF ClaimLease
  <2>2. [r EXCEPT !.inbox.posted = note] = [r EXCEPT !.inbox = box]
    OBVIOUS
  <2>3. [r EXCEPT !.inbox = box].at = r.at
    BY <1>1 DEF Round
  <2> QED BY <2>1, <2>2, <2>3, <1>5
<1>7. /\ s \in Round /\ s.inbox = box /\ s.batch = r.batch
      /\ s.at \in {"over", "answering"}
      /\ s.at = "over" => r.at = "claiming"
  BY <1>1, <1>4 DEF Round
<1>8. board' = Posted(board, m, c)
  BY DEF ClaimLease
<1> HIDE DEF s, box, note, c
<1>9. board \in Boards
  BY DEF IInv, TypeOK, Boards
<1>10. board' \in Boards
  BY <1>2, <1>8, <1>9, PostedFacts
<1>11. Safe(c)
  BY <1>1 DEF Safe
<1>12. \A k, h \in Machines : board'[k][h] # None => Safe(board'[k][h].cursor)
  BY <1>2, <1>8, <1>9, <1>11, PostedFacts DEF IInv, CursorInv
<1>13. TypeOK'
  <2>1. round' \in [Machines -> Round \union {None}]
    BY <1>6, <1>7 DEF IInv, TypeOK
  <2> QED BY <2>1, <1>10 DEF IInv, TypeOK, Boards, budgets
<1>14. \A i \in Message :
          i <= OrEmpty(s.inbox.cursor) => Accounted(i) \/ i \in s.batch
  BY <1>1, <1>4, <1>7 DEF c
<1>15. s.inbox.handled \subseteq Spoken
  BY <1>1, <1>4, <1>7
<1>16. /\ r.batch \subseteq s.batch
       /\ s.at \notin {"refreshing", "answering"} => s.batch = {}
  BY <1>1, <1>7
<1> QED
  BY <1>6, <1>7, <1>12, <1>13, <1>14, <1>15, <1>16, WorkerGoesOn

\* It claims the account, or keeps its claim standing after a read.
LEMMA ClaimStep ==
    ASSUME IInv, NEW m \in Machines, Claim(m) PROVE IInv'
  BY ClaimLeaseStep DEF Claim, At

\* A round goes on to its next stage, and that is all.
LEMMA GoToStep ==
    ASSUME IInv, NEW m \in Machines, round[m] # None,
           NEW stage \in {"over", "answering", "reading"}, GoTo(m, stage),
           stage = "over" => round[m].at = "reading",
           stage = "reading" => round[m].at = "deciding",
           UNCHANGED <<said, board, inbox, age, running, linked, quits, answers, old>>,
           fails' \in 0 .. MaxFails
    PROVE  IInv'
<1> DEFINE r == round[m]
           s == [r EXCEPT !.at = stage]
<1>1. /\ r \in Round /\ r.inbox.handled \subseteq Spoken
      /\ \A i \in Message : i <= OrEmpty(r.inbox.cursor) => Accounted(i)
      /\ r.at \notin {"refreshing", "answering"} => r.batch = {}
  BY RoundType
<1>2. round' = [round EXCEPT ![m] = s]
  BY DEF GoTo
<1>3. s \in Round /\ s.inbox = r.inbox /\ s.batch = r.batch /\ s.at = stage
  BY <1>1 DEF Round
<1> HIDE DEF s
<1>4. TypeOK'
  BY <1>2, <1>3 DEF IInv, TypeOK
<1>5. \A k, h \in Machines : board'[k][h] # None => Safe(board'[k][h].cursor)
  BY DEF IInv, CursorInv
<1>6. /\ r.batch \subseteq s.batch /\ s.inbox.handled \subseteq Spoken
      /\ s.at \notin {"refreshing", "answering"} => s.batch = {}
      /\ \A i \in Message :
            i <= OrEmpty(s.inbox.cursor) => Accounted(i) \/ i \in s.batch
  BY <1>1, <1>3
<1> QED
  BY <1>2, <1>3, <1>4, <1>5, <1>6, WorkerGoesOn

\* A read fails.
LEMMA ReadFailsStep ==
    ASSUME IInv, NEW m \in Machines, ReadFails(m) PROVE IInv'
<1>1. fails' \in 0 .. MaxFails
  BY BoundsAssumption DEF ReadFails, IInv, TypeOK
<1> QED
  BY <1>1, GoToStep DEF ReadFails, At

\* The account is taken alone.
LEMMA TakeAloneStep ==
    ASSUME IInv, NEW m \in Machines, TakeAlone(m) PROVE IInv'
<1>1. fails' \in 0 .. MaxFails
  BY BoundsAssumption DEF TakeAlone, IInv, TypeOK
<1> QED
  BY <1>1, GoToStep DEF TakeAlone, At

\* The lease is refreshed, or stands.
LEMMA RefreshStep ==
    ASSUME IInv, NEW m \in Machines, RefreshLease(m) PROVE IInv'
<1>1. CASE LeaseStillStands(round[m].inbox)
  <2>1. fails' \in 0 .. MaxFails
    BY DEF RefreshLease, IInv, TypeOK, budgets
  <2> QED
    BY <1>1, <2>1, GoToStep DEF RefreshLease, At, budgets
<1>2. CASE ~LeaseStillStands(round[m].inbox)
  BY <1>2, ClaimLeaseStep DEF RefreshLease, At
<1> QED BY <1>1, <1>2

\* The chat is read: what the cursor passes over is in the worker's hands.
LEMMA ReadStep ==
    ASSUME IInv, NEW m \in Machines, ReadChat(m) PROVE IInv'
<1> DEFINE r == round[m]
           batch == {i \in 1 .. said : i > OrEmpty(r.inbox.cursor)}
           box == [r.inbox EXCEPT !.cursor = said]
           s == [r EXCEPT !.at = "refreshing", !.inbox.cursor = said,
                          !.batch = batch, !.stale = (r.inbox.cursor = None)]
<1>1. r # None /\ r.at = "reading"
  BY DEF ReadChat, At
<1>2. /\ r \in Round /\ r.inbox \in Inbox /\ r.inbox.handled \subseteq Spoken
      /\ \A i \in Message : i <= OrEmpty(r.inbox.cursor) => Accounted(i)
      /\ r.batch = {}
  BY <1>1, RoundType
<1>3. said \in Cursor /\ batch \subseteq Message /\ said # None
  BY BoundsAssumption, NoneIsNothing DEF IInv, TypeOK, Cursor, Message
<1>4. /\ box \in Inbox /\ box.cursor = said /\ box.handled = r.inbox.handled
  BY <1>2, <1>3 DEF Inbox
<1>5. m \in DOMAIN round
  BY DEF IInv, TypeOK
<1>6. round' = [round EXCEPT ![m] = s]
  BY <1>5 DEF ReadChat
<1>7. s \in Round /\ s.inbox = box /\ s.batch = batch /\ s.at = "refreshing"
  BY <1>2, <1>3, <1>4 DEF Round
<1>8. \A i \in Message : i <= said => Accounted(i) \/ i \in batch
  <2> SUFFICES ASSUME NEW i \in Message, i <= said, i \notin batch
               PROVE  Accounted(i)
    OBVIOUS
  <2>1. i \in 1 .. said
    BY <1>3 DEF Message, Cursor
  <2>2. OrEmpty(r.inbox.cursor) \in Nat
    BY <1>2, InboxFacts, OrEmptyType DEF Cursor
  <2>3. i <= OrEmpty(r.inbox.cursor)
    BY <2>1, <2>2 DEF Message
  <2> QED BY <2>3, <1>2
<1> HIDE DEF s, box, batch
<1>9. UNCHANGED <<said, board, inbox, age, running, linked, quits, fails, answers, old>>
  BY DEF ReadChat, budgets
<1>10. TypeOK'
  BY <1>6, <1>7, <1>9 DEF IInv, TypeOK
<1>11. \A k, h \in Machines : board'[k][h] # None => Safe(board'[k][h].cursor)
  BY <1>9 DEF IInv, CursorInv
<1>12. OrEmpty(s.inbox.cursor) = said
  BY <1>3, <1>4, <1>7 DEF OrEmpty
<1>13. /\ r.batch \subseteq s.batch /\ s.inbox.handled \subseteq Spoken
       /\ s.at \notin {"refreshing", "answering"} => s.batch = {}
       /\ \A i \in Message :
             i <= OrEmpty(s.inbox.cursor) => Accounted(i) \/ i \in s.batch
  BY <1>2, <1>4, <1>7, <1>8, <1>12
<1> QED
  BY <1>6, <1>7, <1>9, <1>10, <1>11, <1>13, WorkerGoesOn

\* The oldest message of the batch is dealt with, or has been before.
LEMMA AbsorbStep ==
    ASSUME IInv, NEW m \in Machines, Absorb(m) PROVE IInv'
<1> DEFINE r == round[m]
<1>1. r # None /\ r.at = "answering"
  BY DEF Absorb, At
<1>2. /\ r \in Round /\ r.inbox \in Inbox /\ r.inbox.handled \subseteq Spoken
      /\ r.batch \subseteq Message
  BY <1>1, RoundType
<1>3. PICK i \in r.batch :
         /\ round' = [round EXCEPT ![m].batch = @ \ {i},
                                  ![m].inbox.handled = @ \union {i}]
         /\ answers' = IF i \in r.inbox.handled \/ r.stale THEN answers
                       ELSE [answers EXCEPT ![i] = @ + 1]
         /\ old' = IF i \notin r.inbox.handled /\ r.stale THEN old \union {i} ELSE old
  BY DEF Absorb
<1> DEFINE box == [r.inbox EXCEPT !.handled = @ \union {i}]
           s == [[r EXCEPT !.batch = @ \ {i}] EXCEPT !.inbox = box]
<1>4. i \in Message
  BY <1>2, <1>3
<1>5. /\ box \in Inbox /\ box.cursor = r.inbox.cursor
      /\ box.handled = r.inbox.handled \union {i}
  BY <1>2, <1>4 DEF Inbox
<1>6. m \in DOMAIN round
  BY DEF IInv, TypeOK
<1>7. round' = [round EXCEPT ![m] = s]
  <2>1. [r EXCEPT !.batch = @ \ {i}].inbox = r.inbox
    BY <1>2 DEF Round
  <2>2. [[r EXCEPT !.batch = @ \ {i}] EXCEPT !.inbox.handled = @ \union {i}] = s
    BY <2>1
  <2> QED BY <2>2, <1>3, <1>6
<1>8. s \in Round /\ s.inbox = box /\ s.batch = r.batch \ {i} /\ s.at = "answering"
  BY <1>1, <1>2, <1>5 DEF Round
<1> HIDE DEF s, box
<1>9. UNCHANGED <<said, board, inbox, age, running, linked, quits, fails>>
  BY DEF Absorb, budgets
<1>10. /\ answers' \in [Message -> Nat] /\ old' \subseteq Message
       /\ \A j \in Message : answers'[j] >= answers[j] /\ answers[j] \in Nat
       /\ old \subseteq old'
  BY <1>3, <1>4 DEF IInv, TypeOK
<1>11. Spoken \subseteq Spoken'
  BY <1>10 DEF Spoken
<1>12. i \in Spoken'
  <2>1. CASE i \in r.inbox.handled
    BY <2>1, <1>2, <1>11
  <2>2. CASE i \notin r.inbox.handled /\ r.stale
    BY <2>2, <1>3, <1>4 DEF Spoken
  <2>3. CASE i \notin r.inbox.handled /\ ~r.stale
    <3>1. answers'[i] = answers[i] + 1
      BY <2>3, <1>3, <1>4 DEF IInv, TypeOK
    <3> QED BY <3>1, <1>4, <1>10 DEF Spoken
  <2> QED BY <2>1, <2>2, <2>3
<1>13. TypeOK'
  BY <1>7, <1>8, <1>9, <1>10 DEF IInv, TypeOK
<1>14. /\ round'[m] = s /\ s # None
       /\ \A k \in Machines : k # m => round'[k] = round[k]
  BY <1>7, <1>8, NoneIsNothing DEF IInv, TypeOK
<1>15. HandInv'
  BY <1>8, <1>14 DEF IInv, HandInv, InRound
<1>16. HandledInv'
  <2>1. s.inbox.handled \subseteq Spoken'
    BY <1>2, <1>5, <1>8, <1>11, <1>12
  <2>2. \A k \in Machines : inbox'[k].handled \subseteq Spoken'
    BY <1>9, <1>11 DEF IInv, HandledInv
  <2>3. \A k \in InRound' : round'[k].inbox.handled \subseteq Spoken'
    BY <1>11, <1>14, <2>1 DEF IInv, HandledInv, InRound
  <2> QED BY <2>2, <2>3 DEF HandledInv
<1>17. \A j \in Message : Accounted(j) => Accounted(j)'
  <2> SUFFICES ASSUME NEW j \in Message, Accounted(j) PROVE Accounted(j)'
    OBVIOUS
  <2>1. CASE j \in Spoken \/ j = i
    BY <2>1, <1>11, <1>12 DEF Accounted
  <2>2. CASE j # i /\ \E k \in InRound : j \in round[k].batch
    <3>1. PICK k \in InRound : j \in round[k].batch
      BY <2>2
    <3>2. k \in InRound' /\ j \in round'[k].batch
      BY <2>2, <3>1, <1>8, <1>14 DEF InRound
    <3> QED BY <3>2 DEF Accounted
  <2> QED BY <2>1, <2>2 DEF Accounted
<1>18. CursorInv'
  <2> DEFINE SafeNext(c) == \A j \in Message : j <= c => Accounted(j)'
  <2>1. \A c : Safe(c) => SafeNext(c)
    BY <1>17, SafeKept
  <2> HIDE DEF SafeNext
  <2>2. \A k, h \in Machines : board'[k][h] # None => SafeNext(board'[k][h].cursor)
    BY <2>1, <1>9 DEF IInv, CursorInv
  <2>3. \A k \in Machines : SafeNext(OrEmpty(inbox'[k].cursor))
    BY <2>1, <1>9 DEF IInv, CursorInv
  <2>4. \A k \in InRound' : SafeNext(OrEmpty(round'[k].inbox.cursor))
    BY <2>1, <1>1, <1>5, <1>8, <1>14 DEF IInv, CursorInv, InRound
  <2> QED BY <2>2, <2>3, <2>4 DEF CursorInv, Safe, SafeNext, OrEmpty
<1> QED
  BY <1>13, <1>15, <1>16, <1>18 DEF IInv

\* The invariant survives the end of a round that has nothing in hand, with or
\* without its copy of the inbox.
LEMMA RoundEndsStep ==
    ASSUME IInv, TypeOK', NEW m \in Machines,
           round' = [round EXCEPT ![m] = None],
           round[m] = None \/ round[m].batch = {},
           UNCHANGED <<board, answers, old>>,
           \/ inbox' = inbox
           \/ round[m] # None /\ inbox' = [inbox EXCEPT ![m] = round[m].inbox]
    PROVE  IInv'
<1>1. /\ round'[m] = None
      /\ \A k \in Machines : k # m => round'[k] = round[k]
  BY DEF IInv, TypeOK
<1>2. InRound' = InRound \ {m}
  BY <1>1 DEF InRound
<1>3. Spoken' = Spoken
  BY DEF Spoken
<1>4. \A i \in Message : Accounted(i) => Accounted(i)'
  <2> SUFFICES ASSUME NEW i \in Message, Accounted(i) PROVE Accounted(i)'
    OBVIOUS
  <2>1. CASE i \in Spoken
    BY <2>1, <1>3 DEF Accounted
  <2>2. CASE \E k \in InRound : i \in round[k].batch
    <3>1. PICK k \in InRound : i \in round[k].batch
      BY <2>2
    <3>2. k # m
      BY <3>1 DEF InRound
    <3> QED BY <3>1, <3>2, <1>1, <1>2 DEF Accounted, InRound
  <2> QED BY <2>1, <2>2 DEF Accounted
<1>5. HandInv'
  BY <1>1, <1>2 DEF IInv, HandInv, InRound
<1>6. \A k \in Machines :
         \/ inbox'[k] = inbox[k]
         \/ k = m /\ m \in InRound /\ inbox'[k] = round[m].inbox
  BY DEF IInv, TypeOK, InRound
<1>7. HandledInv'
  BY <1>1, <1>2, <1>3, <1>6 DEF IInv, HandledInv, InRound
<1>8. CursorInv'
  <2> DEFINE SafeNext(c) == \A i \in Message : i <= c => Accounted(i)'
  <2>1. \A c : Safe(c) => SafeNext(c)
    BY <1>4, SafeKept
  <2> HIDE DEF SafeNext
  <2>2. \A k, h \in Machines : board'[k][h] # None => SafeNext(board'[k][h].cursor)
    BY <2>1 DEF IInv, CursorInv
  <2>3. \A k \in Machines : SafeNext(OrEmpty(inbox'[k].cursor))
    BY <2>1, <1>6 DEF IInv, CursorInv
  <2>4. \A k \in InRound' : SafeNext(OrEmpty(round'[k].inbox.cursor))
    BY <2>1, <1>1, <1>2 DEF IInv, CursorInv, InRound
  <2> QED BY <2>2, <2>3, <2>4 DEF CursorInv, Safe, SafeNext, OrEmpty
<1> QED
  BY <1>5, <1>7, <1>8 DEF IInv

\* The dashboard takes its worker's copy back.
LEMMA FinishStep ==
    ASSUME IInv, NEW m \in Machines, Finish(m) PROVE IInv'
<1>1. round[m] # None /\ round[m].batch = {} /\ round[m].inbox \in Inbox
  BY RoundType DEF Finish, At
<1>2. /\ inbox' = [inbox EXCEPT ![m] = round[m].inbox]
      /\ round' = [round EXCEPT ![m] = None]
      /\ UNCHANGED <<said, board, age, running, linked, quits, fails, answers, old>>
  BY DEF Finish, budgets
<1>3. TypeOK'
  BY <1>1, <1>2 DEF IInv, TypeOK
<1> QED
  BY <1>1, <1>2, <1>3, RoundEndsStep

\* A dashboard is closed with no round out.
LEMMA QuitStep ==
    ASSUME RoundsEnd, IInv, NEW m \in Machines, Quit(m) PROVE IInv'
<1>1. round[m] = None
  BY DEF Quit, RoundsEnd
<1>2. /\ running' = running \ {m} /\ quits' = quits + 1 /\ quits < MaxQuits
      /\ round' = [round EXCEPT ![m] = None] /\ age' = [age EXCEPT ![m] = 0]
      /\ UNCHANGED <<said, board, inbox, linked, fails, answers, old>>
  BY DEF Quit
<1>3. TypeOK'
  BY <1>2, BoundsAssumption DEF IInv, TypeOK
<1> QED
  BY <1>1, <1>2, <1>3, RoundEndsStep

\* The person says something, or a dashboard is started.
LEMMA WorldStep ==
    ASSUME IInv, Say \/ \E m \in Machines : Start(m) PROVE IInv'
<1>1. /\ UNCHANGED <<board, inbox, round, answers, old>>
      /\ TypeOK'
  <2>1. CASE Say
    <3>1. said' \in 0 .. MaxSaid
      BY <2>1, BoundsAssumption DEF Say, IInv, TypeOK
    <3> QED BY <2>1, <3>1 DEF Say, IInv, TypeOK, budgets
  <2>2. CASE \E m \in Machines : Start(m)
    <3>1. PICK m \in Machines : Start(m)
      BY <2>2
    <3>2. running' = running \union {m} /\ age' = [age EXCEPT ![m] = 0]
      BY <3>1 DEF Start
    <3>3. running \subseteq Machines /\ age \in [Machines -> 0 .. 1]
      BY DEF IInv, TypeOK
    <3>4. running' \subseteq Machines
      BY <3>2, <3>3
    <3>5. age' \in [Machines -> 0 .. 1]
      BY <3>2, <3>3
    <3> QED BY <3>1, <3>4, <3>5 DEF Start, IInv, TypeOK, budgets
  <2> QED BY <2>1, <2>2
<1> QED
  BY <1>1 DEF IInv, HandInv, HandledInv, CursorInv, InRound, Spoken, Safe,
     Accounted, OrEmpty

\* Time passes.
LEMMA TickStep ==
    ASSUME IInv, Tick PROVE IInv'
<1>1. /\ board' = [m \in Machines |-> [h \in Machines |-> Older(board[m][h])]]
      /\ inbox' = [m \in Machines |-> OlderInbox(inbox[m])]
      /\ round' = [m \in Machines |-> OlderRound(round[m])]
      /\ age' = [m \in Machines |-> IF m \in running THEN 1 ELSE 0]
      /\ UNCHANGED <<said, running, linked, quits, fails, answers, old>>
  BY DEF Tick, budgets
<1>2. \A m, h \in Machines :
         /\ board'[m][h] \in Note \union {None}
         /\ board'[m][h] # None =>
               board[m][h] # None /\ board'[m][h].cursor = board[m][h].cursor
  <2> TAKE m, h \in Machines
  <2>1. board[m][h] \in Note \union {None} /\ board'[m][h] = Older(board[m][h])
    BY <1>1 DEF IInv, TypeOK
  <2> QED BY <2>1, OlderNote
<1>3. \A m \in Machines :
         /\ inbox'[m] \in Inbox
         /\ inbox'[m].cursor = inbox[m].cursor
         /\ inbox'[m].handled = inbox[m].handled
  BY <1>1, OlderInboxFacts DEF IInv, TypeOK
<1>4. \A m \in Machines :
         IF round[m] = None THEN round'[m] = None
         ELSE /\ round'[m] \in Round /\ round'[m] # None
              /\ round'[m].at = round[m].at /\ round'[m].batch = round[m].batch
              /\ round'[m].inbox.cursor = round[m].inbox.cursor
              /\ round'[m].inbox.handled = round[m].inbox.handled
  <2> TAKE m \in Machines
  <2>1. round[m] \in Round \union {None} /\ round'[m] = OlderRound(round[m])
    BY <1>1 DEF IInv, TypeOK
  <2>2. CASE round[m] = None
    BY <2>1, <2>2 DEF OlderRound
  <2>3. CASE round[m] # None
    BY <2>1, <2>3, OlderRoundFacts, NoneIsNothing
  <2> QED BY <2>2, <2>3
<1>5. InRound' = InRound
  BY <1>4 DEF InRound
<1>6. TypeOK'
  <2>1. board' \in [Machines -> [Machines -> Note \union {None}]]
    BY <1>1, <1>2
  <2>2. inbox' \in [Machines -> Inbox]
    BY <1>1, <1>3
  <2>3. round' \in [Machines -> Round \union {None}]
    BY <1>1, <1>4
  <2>4. age' \in [Machines -> 0 .. 1]
    BY <1>1
  <2> QED BY <1>1, <2>1, <2>2, <2>3, <2>4 DEF IInv, TypeOK
<1>7. Spoken' = Spoken
  BY <1>1 DEF Spoken
<1>8. \A i \in Message : Accounted(i) => Accounted(i)'
  BY <1>4, <1>5, <1>7 DEF Accounted, InRound
<1>9. HandInv'
  BY <1>4, <1>5 DEF IInv, HandInv, InRound
<1>10. HandledInv'
  BY <1>3, <1>4, <1>5, <1>7 DEF IInv, HandledInv, InRound
<1>11. CursorInv'
  <2> DEFINE SafeNext(c) == \A i \in Message : i <= c => Accounted(i)'
  <2>1. \A c : Safe(c) => SafeNext(c)
    BY <1>8, SafeKept
  <2> HIDE DEF SafeNext
  <2>2. \A k, h \in Machines : board'[k][h] # None => SafeNext(board'[k][h].cursor)
    BY <2>1, <1>2 DEF IInv, CursorInv
  <2>3. \A k \in Machines : SafeNext(OrEmpty(inbox'[k].cursor))
    BY <2>1, <1>3 DEF IInv, CursorInv
  <2>4. \A k \in InRound' : SafeNext(OrEmpty(round'[k].inbox.cursor))
    BY <2>1, <1>4, <1>5 DEF IInv, CursorInv, InRound
  <2> QED BY <2>2, <2>3, <2>4 DEF CursorInv, Safe, SafeNext, OrEmpty
<1> QED
  BY <1>6, <1>9, <1>10, <1>11 DEF IInv

-----------------------------------------------------------------------------
(* Theorems *)

\* Before anything has been started no cursor passes over anything.
LEMMA InitInv == Init => IInv
<1> SUFFICES ASSUME Init PROVE IInv
  OBVIOUS
<1>1. TypeOK
  BY TypeInit
<1>2. /\ \A m, h \in Machines : board[m][h] = None
      /\ \A m \in Machines : round[m] = None /\ inbox[m] = UnreadInbox
  BY DEF Init
<1>3. HandInv /\ HandledInv
  BY <1>2 DEF HandInv, HandledInv, InRound, UnreadInbox
<1>4. CursorInv
  BY <1>2, EmptyIsSafe DEF CursorInv, InRound, UnreadInbox, OrEmpty
<1> QED BY <1>1, <1>3, <1>4 DEF IInv

\* Every step keeps the invariant.
LEMMA NextInv == RoundsEnd /\ IInv /\ [Next]_vars => IInv'
<1> SUFFICES ASSUME RoundsEnd, IInv, [Next]_vars PROVE IInv'
  OBVIOUS
<1>1. CASE UNCHANGED vars
  BY <1>1 DEF vars, budgets, IInv, TypeOK, HandInv, HandledInv, CursorInv,
     InRound, Spoken, Safe, Accounted, OrEmpty
<1>2. CASE Say \/ \E m \in Machines : Start(m)
  BY <1>2, WorldStep
<1>3. CASE Tick
  BY <1>3, TickStep
<1>4. CASE \E m \in Machines : Step(m) \/ Quit(m)
  BY <1>4, BeginStep, DecideStep, TakeAloneStep, ClaimStep, ReadStep, ReadFailsStep,
     RefreshStep, AbsorbStep, FinishStep, QuitStep DEF Step
<1> QED
  BY <1>1, <1>2, <1>3, <1>4 DEF Next

\* What every dashboard may rely on, in every state of every fleet.
THEOREM Invariance == RoundsEnd => (Spec => []IInv)
<1> SUFFICES ASSUME RoundsEnd PROVE Spec => []IInv
  OBVIOUS
<1>1. Init => IInv
  BY InitInv
<1>2. IInv /\ [Next]_vars => IInv'
  BY NextInv
<1> QED
  BY <1>1, <1>2, PTL DEF Spec

\* Every variable keeps its type.
THEOREM TypeCorrect == RoundsEnd => (Spec => []TypeOK)
<1>1. IInv => TypeOK
  BY DEF IInv
<1> QED
  BY <1>1, Invariance, PTL

\* For any number of machines and messages, however the board is carried and
\* whoever is started and closed between two of its rounds: the cursor of a
\* note or of an inbox never passes over a message that nobody has dealt with
\* or is about to, so a successor that resumes there misses nothing.
THEOREM SkippedNever == RoundsEnd => (Spec => []NothingSkipped)
<1>1. IInv => NothingSkipped
  <2> SUFFICES ASSUME IInv, NEW c \in CursorsInUse, NEW i \in 1 .. c
               PROVE  answers[i] > 0 \/ i \in old \/ i \in InHand
    BY DEF NothingSkipped
  <2>1. Safe(c) /\ c \in Cursor
    <3>1. CASE \E m, h \in Machines : board[m][h] # None /\ c = board[m][h].cursor
      BY <3>1 DEF IInv, TypeOK, CursorInv, Note
    <3>2. CASE \E m \in Machines : c = OrEmpty(inbox[m].cursor)
      BY <3>2, InboxFacts, OrEmptyType DEF IInv, TypeOK, CursorInv
    <3> QED BY <3>1, <3>2 DEF CursorsInUse, Notes
  <2>2. i \in Message /\ i <= c
    BY <2>1, BoundsAssumption DEF Message, Cursor
  <2>3. Accounted(i)
    BY <2>1, <2>2 DEF Safe
  <2>4. CASE i \in Spoken
    BY <2>4 DEF Spoken
  <2>5. CASE \E m \in InRound : i \in round[m].batch
    BY <2>5 DEF InRound, InHand
  <2> QED BY <2>3, <2>4, <2>5 DEF Accounted
<1> QED
  BY <1>1, Invariance, PTL

-----------------------------------------------------------------------------
(* One voice: what a board says of a machine *)

\* The time and the cursor of the note of h that k holds on board b.
LeftAt(b, k, h) == IF b[k][h] = None THEN 0 ELSE b[k][h].left
ReadAt(b, k, h) == IF b[k][h] = None THEN 0 ELSE b[k][h].cursor

\* A newer note has no less time and no older cursor than an older one; of its
\* own notes a machine holds the newest.
Ordered(b) ==
    /\ \A k, h, j, g \in Machines :
          b[k][h] # None /\ b[j][g] # None /\ b[k][h].stamp <= b[j][g].stamp =>
              b[k][h].left <= b[j][g].left /\ b[k][h].cursor <= b[j][g].cursor
    /\ \A k, h \in Machines :
          b[k][h] # None => b[h][h] # None /\ b[k][h].stamp <= b[h][h].stamp

\* And its stamps are ranks.
Sorted(b) ==
    /\ Ordered(b)
    /\ \A k, h \in Machines :
          b[k][h] # None => b[k][h].stamp <= Cardinality(Stamps(b))

\* Two boards tell a machine the same.
SameAt(b, k, h, c, j, g) ==
    /\ b[k][h] = None <=> c[j][g] = None
    /\ LeftAt(b, k, h) = LeftAt(c, j, g)
    /\ ReadAt(b, k, h) = ReadAt(c, j, g)

\* Of a finite set that is not empty some element is numbered lowest.
LEMMA LowestExists ==
    ASSUME NEW S, IsFiniteSet(S), S # {}, NEW f \in [S -> Int]
    PROVE  \E x \in S : \A y \in S : f[x] <= f[y]
<1> DEFINE Below(k) == {n \in S : f[n] < f[k]}
           F == {Below(k) : k \in S}
<1>1. \A k \in S : Below(k) \in FiniteSubsetsOf(S)
  <2>1. \A k \in S : Below(k) \in SUBSET S
    OBVIOUS
  <2> HIDE DEF Below
  <2>2. \A k \in S : IsFiniteSet(Below(k))
    BY <2>1, FS_Subset
  <2> QED BY <2>1, <2>2 DEF FiniteSubsetsOf
<1>2. \E X \in F : \A Y \in F : <<Y, X>> \notin StrictSubsetOrdering(S)
  <2> HIDE DEF Below
  <2>1. F \subseteq FiniteSubsetsOf(S) /\ F # {}
    BY <1>1
  <2>2. IsWellFoundedOn(StrictSubsetOrdering(S), FiniteSubsetsOf(S))
    BY FS_StrictSubsetOrderingWellFounded
  <2> HIDE DEF F
  <2> QED BY <2>1, <2>2, WFMin
<1>3. PICK k \in S :
         \A j \in S : <<Below(j), Below(k)>> \notin StrictSubsetOrdering(S)
  <2> HIDE DEF Below
  <2> QED BY <1>2
<1>4. \A j \in S : f[k] <= f[j]
  <2> SUFFICES ASSUME NEW j \in S, f[j] < f[k] PROVE FALSE
    OBVIOUS
  <2>1. \A n \in S : f[n] < f[j] => f[n] < f[k]
    OBVIOUS
  <2>2. Below(j) \subseteq Below(k) /\ Below(j) \in SUBSET S /\ Below(k) \in SUBSET S
    BY <2>1
  <2>3. j \in Below(k) /\ j \notin Below(j)
    OBVIOUS
  <2> HIDE DEF Below
  <2>4. <<Below(j), Below(k)>> \in StrictSubsetOrdering(S)
    BY <2>2, <2>3 DEF StrictSubsetOrdering
  <2> QED BY <1>3, <2>4
<1> QED BY <1>4

\* The Min of a set of machines is the smallest.
LEMMA MinIsLeast ==
    ASSUME NEW S \in SUBSET Machines, S # {}
    PROVE  Min(S) \in S /\ \A y \in S : Min(S) <= y
<1>1. IsFiniteSet(S) /\ S \subseteq Nat
  BY MachinesAssumption, FS_Subset
<1> DEFINE f == [x \in S |-> x]
<1>2. f \in [S -> Int]
  BY <1>1
<1>3. \A x \in S : f[x] = x
  OBVIOUS
<1> HIDE DEF f
<1>4. \E x \in S : \A y \in S : f[x] <= f[y]
  BY <1>1, <1>2, LowestExists
<1>5. \E x \in S : \A y \in S : x <= y
  BY <1>3, <1>4
<1> QED BY <1>5 DEF Min

\* What a board says of a machine has its type.
LEMMA AtTypes ==
    ASSUME NEW b \in Boards, NEW k \in Machines, NEW h \in Machines
    PROVE  LeftAt(b, k, h) \in 0 .. TTL /\ ReadAt(b, k, h) \in Cursor
<1>1. b[k][h] \in Note \union {None}
  BY DEF Boards
<1> QED
  BY <1>1, TimesAssumption, BoundsAssumption DEF LeftAt, ReadAt, Note, Cursor

\* Ranking keeps the order of the stamps, and what the notes say.
LEMMA RankedOrder ==
    ASSUME NEW b \in Boards
    PROVE  LET r == Ranked(b)
           IN  /\ \A k, h \in Machines :
                     /\ r[k][h] = None <=> b[k][h] = None
                     /\ b[k][h] # None =>
                           /\ r[k][h].left = b[k][h].left
                           /\ r[k][h].cursor = b[k][h].cursor
                           /\ r[k][h].stamp <= Cardinality(Stamps(r))
               /\ \A k, h, j, g \in Machines :
                     b[k][h] # None /\ b[j][g] # None =>
                         (r[k][h].stamp <= r[j][g].stamp
                             <=> b[k][h].stamp <= b[j][g].stamp)
<1> DEFINE S == Stamps(b)
           Upto(s) == {t \in S : t <= s}
           C(s) == Cardinality(Upto(s))
           r == Ranked(b)
<1>1. IsFiniteSet(S) /\ S \subseteq Nat
  BY StampsFinite DEF Stamps, Notes, Boards, Note
<1>2. \A s \in S : /\ IsFiniteSet(Upto(s)) /\ C(s) \in Nat
                   /\ C(s) <= Cardinality(S) /\ Cardinality(S) \in Nat
  <2> TAKE s \in S
  <2>1. Upto(s) \in SUBSET S
    OBVIOUS
  <2> QED BY <1>1, <2>1, FS_Subset, FS_CardinalityType
<1>3. \A s, t \in S : s <= t => C(s) <= C(t)
  <2> TAKE s, t \in S
  <2> HAVE s <= t
  <2>1. Upto(s) \in SUBSET Upto(t)
    BY <1>1
  <2> QED BY <1>2, <2>1, FS_Subset
<1>4. \A s, t \in S : s < t => C(s) < C(t)
  <2> TAKE s, t \in S
  <2> HAVE s < t
  <2>1. Upto(s) \in SUBSET Upto(t)
    BY <1>1
  <2>2. t \in Upto(t) /\ t \notin Upto(s)
    BY <1>1
  <2> HIDE DEF Upto
  <2>3. Upto(s) # Upto(t)
    BY <2>2
  <2>4. C(s) <= C(t) /\ (C(t) = C(s) => Upto(t) = Upto(s))
    BY <1>2, <2>1, FS_Subset
  <2> QED BY <1>2, <2>3, <2>4
<1>5. \A k, h \in Machines :
         r[k][h] = IF b[k][h] = None THEN None
                   ELSE [b[k][h] EXCEPT !.stamp = C(b[k][h].stamp)]
  BY DEF Ranked
<1>6. \A k, h \in Machines : b[k][h] # None => b[k][h] \in Note /\ b[k][h].stamp \in S
  BY DEF Boards, Stamps, Notes
<1> HIDE DEF C, S, Upto
<1>7. \A k, h \in Machines :
         /\ r[k][h] = None <=> b[k][h] = None
         /\ b[k][h] # None =>
               /\ r[k][h].left = b[k][h].left
               /\ r[k][h].cursor = b[k][h].cursor
               /\ r[k][h].stamp = C(b[k][h].stamp)
  <2> TAKE k, h \in Machines
  <2>1. CASE b[k][h] = None
    BY <1>5, <2>1
  <2>2. CASE b[k][h] # None
    <3> DEFINE note == b[k][h]
               n == C(note.stamp)
    <3>1. note \in Note /\ n \in Nat
      BY <1>2, <1>6, <2>2
    <3>2. r[k][h] = [note EXCEPT !.stamp = n]
      BY <1>5, <2>2
    <3> HIDE DEF note, n
    <3>3. /\ [note EXCEPT !.stamp = n] \in Note
          /\ [note EXCEPT !.stamp = n].left = note.left
          /\ [note EXCEPT !.stamp = n].cursor = note.cursor
          /\ [note EXCEPT !.stamp = n].stamp = n
      BY <3>1 DEF Note
    <3>4. r[k][h] # None
      BY <3>2, <3>3, NoneIsNothing
    <3> QED BY <2>2, <3>2, <3>3, <3>4 DEF note, n
  <2> QED BY <2>1, <2>2
<1>8. Cardinality(Stamps(r)) = Cardinality(S)
  <2> DEFINE f == [s \in S |-> C(s)]
  <2>1. \A s \in S : f[s] \in Stamps(r)
    <3> TAKE s \in S
    <3>1. PICK k \in Machines, h \in Machines : b[k][h] # None /\ b[k][h].stamp = s
      BY DEF S, Stamps, Notes
    <3>2. r[k][h] # None /\ r[k][h].stamp = C(s)
      BY <1>7, <3>1
    <3> HIDE DEF r
    <3> QED BY <3>2 DEF Stamps, Notes
  <2>2. \A n \in Stamps(r) : \E s \in S : f[s] = n
    <3> TAKE n \in Stamps(r)
    <3> HIDE DEF r
    <3>1. PICK k \in Machines, h \in Machines : r[k][h] # None /\ r[k][h].stamp = n
      BY DEF Stamps, Notes
    <3>2. b[k][h] # None /\ b[k][h].stamp \in S /\ n = C(b[k][h].stamp)
      BY <1>6, <1>7, <3>1
    <3> QED BY <3>2
  <2>3. \A s, t \in S : f[s] = f[t] => s = t
    BY <1>1, <1>2, <1>4
  <2> HIDE DEF r
  <2>4. f \in Bijection(S, Stamps(r))
    BY <2>1, <2>2, <2>3 DEF Bijection, Injection, Surjection, IsInjective
  <2> HIDE DEF f
  <2> QED BY <1>1, <2>4, FS_Bijection DEF ExistsBijection
<1>9. \A k, h, j, g \in Machines :
         b[k][h] # None /\ b[j][g] # None =>
             (r[k][h].stamp <= r[j][g].stamp <=> b[k][h].stamp <= b[j][g].stamp)
  <2> TAKE k, h, j, g \in Machines
  <2> HAVE b[k][h] # None /\ b[j][g] # None
  <2> DEFINE s == b[k][h].stamp
             t == b[j][g].stamp
  <2>1. s \in S /\ t \in S /\ r[k][h].stamp = C(s) /\ r[j][g].stamp = C(t)
    BY <1>6, <1>7
  <2> HIDE DEF r, s, t
  <2>2. s <= t => C(s) <= C(t)
    BY <1>3, <2>1
  <2>3. t < s => C(t) < C(s)
    BY <1>4, <2>1
  <2>4. s \in Nat /\ t \in Nat /\ C(s) \in Nat /\ C(t) \in Nat
    BY <1>1, <1>2, <2>1
  <2>5. C(s) <= C(t) <=> s <= t
    BY <2>2, <2>3, <2>4
  <2> QED BY <2>1, <2>5 DEF s, t
<1>10. \A k, h \in Machines :
          b[k][h] # None => r[k][h].stamp <= Cardinality(Stamps(r))
  BY <1>2, <1>6, <1>7, <1>8
<1> QED
  BY <1>7, <1>9, <1>10

\* An ordered board that is ranked is sorted, and says what it said.
LEMMA RankedSorted ==
    ASSUME NEW b \in Boards, Ordered(b)
    PROVE  /\ Ranked(b) \in Boards /\ Sorted(Ranked(b))
           /\ \A k, h \in Machines : SameAt(Ranked(b), k, h, b, k, h)
<1> DEFINE r == Ranked(b)
<1>1. r \in Boards
  BY RankedFacts
<1>2. /\ \A k, h \in Machines :
            /\ r[k][h] = None <=> b[k][h] = None
            /\ b[k][h] # None =>
                  /\ r[k][h].left = b[k][h].left
                  /\ r[k][h].cursor = b[k][h].cursor
                  /\ r[k][h].stamp <= Cardinality(Stamps(r))
      /\ \A k, h, j, g \in Machines :
            b[k][h] # None /\ b[j][g] # None =>
                (r[k][h].stamp <= r[j][g].stamp <=> b[k][h].stamp <= b[j][g].stamp)
  BY RankedOrder
<1> HIDE DEF r
<1>3. Ordered(r)
  BY <1>2 DEF Ordered
<1>4. Sorted(r)
  BY <1>2, <1>3 DEF Sorted
<1>5. \A k, h \in Machines : SameAt(r, k, h, b, k, h)
  BY <1>2 DEF SameAt, LeftAt, ReadAt
<1> QED BY <1>1, <1>4, <1>5 DEF r

\* A board that is carried tells every machine what each says of itself.
LEMMA CarriedSorted ==
    ASSUME NEW b \in Boards, Sorted(b), linked
    PROVE  /\ Carried(b) \in Boards /\ Sorted(Carried(b))
           /\ \A k, h \in Machines : SameAt(Carried(b), k, h, b, h, h)
<1> DEFINE held(h) == {b[k][h] : k \in Machines} \ {None}
           newest(h) == {note \in held(h) :
                            \A other \in held(h) : other.stamp <= note.stamp}
           chosen(h) == IF newest(h) = {} THEN None
                        ELSE CHOOSE note \in newest(h) : TRUE
           raw == [m \in Machines |-> [h \in Machines |-> chosen(h)]]
<1>1. Carried(b) = Ranked(raw)
  BY DEF Carried
<1>2. \A h \in Machines : b[h][h] = None => chosen(h) = None
  <2> SUFFICES ASSUME NEW h \in Machines, b[h][h] = None PROVE held(h) = {}
    OBVIOUS
  <2> QED BY DEF Sorted, Ordered
<1>3. \A k, h \in Machines : b[k][h] # None => b[k][h] \in Note
  BY DEF Boards
<1>4. \A h \in Machines : b[h][h] # None =>
         \E k \in Machines : chosen(h) = b[k][h] /\ b[k][h] # None
                             /\ b[h][h].stamp <= b[k][h].stamp
  <2> SUFFICES ASSUME NEW h \in Machines, b[h][h] # None
               PROVE  \E k \in Machines : chosen(h) = b[k][h] /\ b[k][h] # None
                                          /\ b[h][h].stamp <= b[k][h].stamp
    OBVIOUS
  <2>1. b[h][h] \in held(h)
    OBVIOUS
  <2>2. \A other \in held(h) : other.stamp <= b[h][h].stamp
    BY DEF Sorted, Ordered
  <2>3. b[h][h] \in newest(h)
    BY <2>1, <2>2
  <2>4. chosen(h) \in newest(h)
    BY <2>3
  <2>5. chosen(h) \in held(h) /\ b[h][h].stamp <= chosen(h).stamp
    BY <2>1, <2>4
  <2> HIDE DEF chosen
  <2> QED BY <2>5
<1> HIDE DEF held, newest, chosen
<1>5. \A h \in Machines : b[h][h] # None =>
         /\ chosen(h) \in Note /\ chosen(h) # None
         /\ chosen(h).stamp = b[h][h].stamp
         /\ chosen(h).left = b[h][h].left /\ chosen(h).cursor = b[h][h].cursor
  <2> SUFFICES ASSUME NEW h \in Machines, b[h][h] # None
               PROVE  /\ chosen(h) \in Note /\ chosen(h) # None
                      /\ chosen(h).stamp = b[h][h].stamp
                      /\ chosen(h).left = b[h][h].left
                      /\ chosen(h).cursor = b[h][h].cursor
    OBVIOUS
  <2>1. PICK k \in Machines : chosen(h) = b[k][h] /\ b[k][h] # None
                              /\ b[h][h].stamp <= b[k][h].stamp
    BY <1>4
  <2>2. b[k][h].stamp <= b[h][h].stamp
    BY <2>1 DEF Sorted, Ordered
  <2>3. /\ b[k][h].left <= b[h][h].left /\ b[h][h].left <= b[k][h].left
        /\ b[k][h].cursor <= b[h][h].cursor /\ b[h][h].cursor <= b[k][h].cursor
    BY <2>1, <2>2 DEF Sorted, Ordered
  <2>4. b[k][h] \in Note /\ b[h][h] \in Note
    BY <1>3, <2>1
  <2>5. /\ b[k][h].stamp \in Nat /\ b[h][h].stamp \in Nat
        /\ b[k][h].left \in Nat /\ b[h][h].left \in Nat
        /\ b[k][h].cursor \in Nat /\ b[h][h].cursor \in Nat
    BY <2>4, BoundsAssumption, TimesAssumption DEF Note, Cursor
  <2> QED BY <2>1, <2>2, <2>3, <2>4, <2>5
<1>6. \A k, h \in Machines : raw[k][h] = chosen(h)
  OBVIOUS
<1>7. raw \in Boards
  BY <1>2, <1>5 DEF Boards
<1> HIDE DEF raw
<1>8. Ordered(raw)
  BY <1>2, <1>5, <1>6 DEF Sorted, Ordered
<1>9. \A k, h \in Machines : SameAt(raw, k, h, b, h, h)
  BY <1>2, <1>5, <1>6 DEF SameAt, LeftAt, ReadAt
<1>10. \A k, h \in Machines : SameAt(Ranked(raw), k, h, raw, k, h)
  BY <1>7, <1>8, RankedSorted
<1>11. \A k, h \in Machines : SameAt(Ranked(raw), k, h, b, h, h)
  BY <1>9, <1>10 DEF SameAt
<1> QED
  BY <1>1, <1>7, <1>8, <1>11, RankedSorted

\* What is newer than all there is of one's own is newer than all there is.
LEMMA OwnBounds ==
    ASSUME NEW b \in Boards, Ordered(b), NEW c \in Cursor,
           \A h \in Machines : ReadAt(b, h, h) <= c
    PROVE  \A k, h \in Machines : b[k][h] # None => b[k][h].cursor <= c
<1> SUFFICES ASSUME NEW k \in Machines, NEW h \in Machines, b[k][h] # None
             PROVE  b[k][h].cursor <= c
  OBVIOUS
<1>1. b[h][h] # None /\ b[k][h].cursor <= b[h][h].cursor
  BY DEF Ordered
<1>2. b[h][h].cursor <= c
  BY <1>1 DEF ReadAt
<1>3. b[k][h] \in Note /\ b[h][h] \in Note
  BY <1>1 DEF Boards
<1>4. b[k][h].cursor \in Nat /\ b[h][h].cursor \in Nat /\ c \in Nat
  BY <1>3, BoundsAssumption DEF Note, Cursor
<1> QED BY <1>1, <1>2, <1>4

\* A note posted with a cursor as new as any says what it is to say, and the
\* other notes what they said.
LEMMA PostedSorted ==
    ASSUME NEW b \in Boards, Sorted(b), NEW m \in Machines, NEW c \in Cursor,
           \A h \in Machines : ReadAt(b, h, h) <= c
    PROVE  LET p == Posted(b, m, c)
           IN  /\ p \in Boards /\ Sorted(p)
               /\ p[m][m] # None /\ LeftAt(p, m, m) = TTL /\ ReadAt(p, m, m) = c
               /\ \A k, h \in Machines : k # m \/ h # m => SameAt(p, k, h, b, k, h)
<1> DEFINE note == [left |-> TTL, cursor |-> c, stamp |-> 1 + Cardinality(Stamps(b))]
           raw == [b EXCEPT ![m][m] = note]
<1>1. Cardinality(Stamps(b)) \in Nat
  BY StampsFinite, FS_CardinalityType
<1>2. /\ note \in Note /\ note.cursor = c /\ note.left = TTL
      /\ note.stamp = 1 + Cardinality(Stamps(b))
  BY <1>1, TimesAssumption DEF Note
<1>3. Posted(b, m, c) = Ranked(raw)
  BY DEF Posted
<1>4. note # None
  BY <1>2, NoneIsNothing
<1> HIDE DEF note
<1>5. raw \in Boards
  BY <1>2 DEF Boards
<1>6. \A k, h \in Machines :
         raw[k][h] = IF k = m /\ h = m THEN note ELSE b[k][h]
  BY DEF Boards
<1> HIDE DEF raw
<1>7. \A k, h \in Machines : b[k][h] # None =>
         /\ b[k][h].cursor <= note.cursor /\ b[k][h].left <= note.left
         /\ b[k][h].stamp <= note.stamp /\ ~(note.stamp <= b[k][h].stamp)
  <2> SUFFICES ASSUME NEW k \in Machines, NEW h \in Machines, b[k][h] # None
               PROVE  /\ b[k][h].cursor <= note.cursor /\ b[k][h].left <= note.left
                      /\ b[k][h].stamp <= note.stamp
                      /\ ~(note.stamp <= b[k][h].stamp)
    OBVIOUS
  <2>1. b[k][h].cursor <= c
    BY OwnBounds DEF Sorted
  <2>2. b[k][h] \in Note
    BY DEF Boards
  <2>3. b[k][h].left <= TTL /\ b[k][h].stamp \in Nat
    BY <2>2, TimesAssumption DEF Note
  <2>4. b[k][h].stamp <= Cardinality(Stamps(b))
    BY DEF Sorted
  <2> QED BY <1>1, <1>2, <2>1, <2>3, <2>4
<1>8. Ordered(raw)
  <2>1. note.left <= note.left /\ note.cursor <= note.cursor /\ note.stamp <= note.stamp
    BY <1>2, <1>1, TimesAssumption, BoundsAssumption DEF Cursor
  <2>2. ASSUME NEW k \in Machines, NEW h \in Machines, NEW j \in Machines,
               NEW g \in Machines, raw[k][h] # None, raw[j][g] # None,
               raw[k][h].stamp <= raw[j][g].stamp
        PROVE  raw[k][h].left <= raw[j][g].left /\ raw[k][h].cursor <= raw[j][g].cursor
    <3>1. CASE j = m /\ g = m
      BY <1>6, <1>7, <2>1, <2>2, <3>1
    <3>2. CASE ~(j = m /\ g = m) /\ ~(k = m /\ h = m)
      BY <1>6, <2>2, <3>2 DEF Sorted, Ordered
    <3>3. CASE ~(j = m /\ g = m) /\ (k = m /\ h = m)
      BY <1>6, <1>7, <2>2, <3>3
    <3> QED BY <3>1, <3>2, <3>3
  <2>3. ASSUME NEW k \in Machines, NEW h \in Machines, raw[k][h] # None
        PROVE  raw[h][h] # None /\ raw[k][h].stamp <= raw[h][h].stamp
    <3>1. CASE h = m
      BY <1>4, <1>6, <1>7, <2>1, <2>3, <3>1
    <3>2. CASE h # m
      BY <1>6, <2>3, <3>2 DEF Sorted, Ordered
    <3> QED BY <3>1, <3>2
  <2> QED BY <2>2, <2>3 DEF Ordered
<1>9. /\ raw[m][m] # None /\ LeftAt(raw, m, m) = TTL /\ ReadAt(raw, m, m) = c
      /\ \A k, h \in Machines : k # m \/ h # m => SameAt(raw, k, h, b, k, h)
  BY <1>2, <1>4, <1>6 DEF LeftAt, ReadAt, SameAt
<1>10. /\ Ranked(raw) \in Boards /\ Sorted(Ranked(raw))
       /\ \A k, h \in Machines : SameAt(Ranked(raw), k, h, raw, k, h)
  BY <1>5, <1>8, RankedSorted
<1>11. \A k, h \in Machines : k # m \/ h # m => SameAt(Ranked(raw), k, h, b, k, h)
  BY <1>9, <1>10 DEF SameAt
<1>12. Ranked(raw)[m][m] # None /\ LeftAt(Ranked(raw), m, m) = TTL
       /\ ReadAt(Ranked(raw), m, m) = c
  BY <1>9, <1>10 DEF SameAt
<1> QED
  BY <1>3, <1>10, <1>11, <1>12

Less(n) == IF n = 0 THEN 0 ELSE n - 1

\* A tick takes one from the time of every note.
LEMMA OlderSorted ==
    ASSUME NEW b \in Boards, Sorted(b)
    PROVE  LET o == [m \in Machines |-> [h \in Machines |-> Older(b[m][h])]]
           IN  /\ o \in Boards /\ Sorted(o)
               /\ \A k, h \in Machines :
                     /\ o[k][h] = None <=> b[k][h] = None
                     /\ LeftAt(o, k, h) = Less(LeftAt(b, k, h))
                     /\ ReadAt(o, k, h) = ReadAt(b, k, h)
<1> DEFINE o == [m \in Machines |-> [h \in Machines |-> Older(b[m][h])]]
<1>1. \A k, h \in Machines : b[k][h] \in Note \union {None}
  BY DEF Boards
<1>2. \A k, h \in Machines :
         /\ o[k][h] \in Note \union {None}
         /\ o[k][h] = None <=> b[k][h] = None
         /\ b[k][h] # None =>
               /\ o[k][h].left = Less(b[k][h].left) /\ o[k][h].cursor = b[k][h].cursor
               /\ o[k][h].stamp = b[k][h].stamp
  <2> TAKE k, h \in Machines
  <2>1. o[k][h] = Older(b[k][h])
    OBVIOUS
  <2>2. CASE b[k][h] = None
    BY <2>1, <2>2 DEF Older
  <2>3. CASE b[k][h] # None
    <3> DEFINE note == b[k][h]
    <3>1. note \in Note
      BY <1>1, <2>3
    <3>2. o[k][h] = [note EXCEPT !.left = Less(note.left)]
      BY <2>1, <2>3 DEF Older, Less
    <3>3. Less(note.left) \in 0 .. TTL
      BY <3>1, TimesAssumption DEF Note, Less
    <3> HIDE DEF note
    <3>4. LET n == [note EXCEPT !.left = Less(note.left)]
          IN  /\ n \in Note /\ n.left = Less(note.left)
              /\ n.cursor = note.cursor /\ n.stamp = note.stamp
      BY <3>1, <3>3 DEF Note
    <3>5. o[k][h] # None
      BY <3>2, <3>4, NoneIsNothing
    <3> QED BY <2>3, <3>2, <3>4, <3>5 DEF note
  <2> QED BY <2>2, <2>3
<1>3. o \in Boards
  BY <1>2 DEF Boards
<1> HIDE DEF o
<1>4. \A n, p \in 0 .. TTL : n <= p => Less(n) <= Less(p)
  BY TimesAssumption DEF Less
<1>5. \A k, h \in Machines : b[k][h] # None => b[k][h].left \in 0 .. TTL
  BY <1>1 DEF Note
<1>6. Stamps(o) = Stamps(b)
  <2>1. \A s : s \in Stamps(b) <=>
                  \E k, h \in Machines : b[k][h] # None /\ b[k][h].stamp = s
    BY DEF Stamps, Notes
  <2>2. \A s : s \in Stamps(o) <=>
                  \E k, h \in Machines : o[k][h] # None /\ o[k][h].stamp = s
    BY DEF Stamps, Notes
  <2>3. \A s : s \in Stamps(o) <=> s \in Stamps(b)
    BY <1>2, <2>1, <2>2
  <2> QED BY <2>3
<1>7. Ordered(o)
  BY <1>2, <1>4, <1>5 DEF Sorted, Ordered
<1>8. Sorted(o)
  BY <1>2, <1>6, <1>7 DEF Sorted
<1>9. \A k, h \in Machines :
         LeftAt(o, k, h) = Less(LeftAt(b, k, h)) /\ ReadAt(o, k, h) = ReadAt(b, k, h)
  BY <1>2 DEF LeftAt, ReadAt, Less
<1> QED
  BY <1>2, <1>3, <1>8, <1>9 DEF o

-----------------------------------------------------------------------------
(* One voice: the invariant *)

\* A settling claim outlasts a round, and a lease the rounds between two of
\* its refreshes: of the code's times, in rounds, two and three.
LongEnough == Settle >= 2 /\ Refresh >= 3

\* What a dashboard knows, in its worker's copy if a round is out.
Copy(m)    == IF round[m] = None THEN inbox[m] ELSE round[m].inbox
Claimed(m) == Copy(m).claimed
Read(m)    == OrEmpty(Copy(m).cursor)
Stage(m)   == IF round[m] = None THEN "idle" ELSE round[m].at
Batch(m)   == IF round[m] = None THEN {} ELSE round[m].batch

\* What the newest note of h says, and what k has of it.
Left(h)        == LeftAt(board, h, h)
Told(h)        == ReadAt(board, h, h)
Seen(k, h)     == LeftAt(board, k, h)
SeenTold(k, h) == ReadAt(board, k, h)

Lives(h) == Left(h) > 0

Voice(m)    == Stage(m) \in {"reading", "refreshing", "answering"}
Claiming(m) == Stage(m) = "claiming"
Deciding(m) == Stage(m) = "deciding"

\* No note has a newer cursor.
Covers(c) == \A h \in Machines : Told(h) <= c

\* A dashboard remembers its newest note as it is.
MemoryInv ==
    \A m \in Machines :
        Copy(m).posted = IF board[m][m] = None THEN None
                         ELSE [left |-> Left(m), cursor |-> Told(m)]

\* Its note has its cursor, but for what it is about to post.
KnownInv ==
    \A m \in Machines :
        Stage(m) \notin {"reading", "refreshing"} /\ (Claiming(m) => Lives(m)) =>
            Read(m) = Told(m)

SaidInv == \A m \in Machines : Told(m) <= said /\ Read(m) <= said

RunInv == \A m \in Machines : Stage(m) # "idle" => m \in running

\* Who introduces itself knows of the newest cursor, and of no lease that has
\* settled.
ClaimInv ==
    \A k \in Machines : Claiming(k) =>
        /\ Covers(Read(k))
        /\ Read(k) = 0 \/ \E h \in Machines : Read(k) <= Told(h)
        /\ Lives(k) => Left(k) + age[k] >= Refresh /\ Claimed(k) < Settle
        /\ ~Lives(k) => Claimed(k) = 0
        /\ \A h \in Machines : h # k /\ Lives(h) /\ (Lives(k) => h < k) =>
               Claimed(h) <= age[k]

\* Who reads holds a settled lease, and nobody else reads or introduces itself.
VoiceInv ==
    \A k, h \in Machines : h # k /\ Voice(k) =>
        /\ Lives(k) /\ Claimed(k) = Settle
        /\ ~Voice(h) /\ ~Claiming(h)
        /\ h < k => ~Lives(h)

\* It resumes at the newest cursor.
ReadingInv ==
    \A k \in Machines : Stage(k) \in {"reading", "refreshing"} => Covers(Read(k))

BatchInv ==
    \A k \in Machines : \A i \in Batch(k) : answers[i] = 0 /\ i <= Read(k)

\* What has been answered has been, once, and a note says so.
AnswerInv ==
    \A i \in Message : answers[i] > 0 =>
        answers[i] = 1 /\ \E h \in Machines : i <= Told(h)

\* A lease that will be refreshed before it runs out.
Firm(h) ==
    /\ h \in running
    /\ Left(h) + age[h] >=
          IF Stage(h) \in {"idle", "over", "answering"} THEN Refresh + 1 ELSE Refresh

\* A lease is refreshed as long as its dashboard runs, unless it gives way to a
\* smaller machine's that is.
FirmInv ==
    \A h \in Machines : Lives(h) /\ h \in running =>
        Firm(h) \/ \E k \in Machines : k < h /\ Firm(k)

\* Nor can a lease run out while it settles.
YoungInv ==
    \A h \in Machines : Lives(h) /\ Claimed(h) < Settle => Left(h) + Claimed(h) >= TTL

\* Whose dashboard was closed was alone with its lease.
GoneInv ==
    \A h \in Machines : Lives(h) /\ h \notin running =>
        /\ Claimed(h) = Settle
        /\ \A k \in Machines : k # h => ~Lives(k) /\ ~Claiming(k)

\* Who decides sees the live leases, but for those of machines that introduced
\* themselves since it began; and then its own is no older than the round.
ViewInv ==
    \A k, h \in Machines : k # h /\ Deciding(k) /\ Lives(h) =>
        \/ Seen(k, h) = Left(h)
        \/ Seen(k, h) + age[k] >= 2
        \/ /\ Claimed(h) <= age[k]
           /\ Lives(k) => /\ Claimed(k) <= 1
                          /\ Claimed(k) = 1 => age[h] = 1 \/ age[k] = 1

\* It sees the newest cursor too, or will keep silent.
SeenInv ==
    \A k \in Machines : Deciding(k) =>
        \/ \A h \in Machines : \E j \in Machines : Told(h) <= SeenTold(k, j)
        \/ \E h \in Machines : /\ h # k /\ Seen(k, h) + age[k] >= 2
                               /\ Lives(k) => h < k

\* A settled lease with none before it.
Leader(h) ==
    /\ Lives(h) /\ Claimed(h) = Settle
    /\ \A j \in Machines : j < h => ~Lives(j) /\ ~Claiming(j)

\* A lease that settles has the newest cursor, or will give way.
LeadInv ==
    \A k \in Machines : Lives(k) /\ Claimed(k) < Settle =>
        Covers(Told(k)) \/ \E h \in Machines : h < k /\ Leader(h)

BoardInv == Sorted(board) /\ MemoryInv /\ KnownInv /\ SaidInv
LeaseInv == RunInv /\ ClaimInv /\ FirmInv /\ YoungInv /\ GoneInv /\ ViewInv
OnceInv  == VoiceInv /\ ReadingInv /\ BatchInv /\ AnswerInv /\ SeenInv /\ LeadInv
OneVoice == BoardInv /\ LeaseInv /\ OnceInv

-----------------------------------------------------------------------------
(* One voice: what steps change *)

\* What the invariant speaks of has these types.
LEMMA Vocabulary ==
    ASSUME TypeOK
    PROVE  \A m \in Machines :
              /\ m \in Nat /\ age[m] \in 0 .. 1
              /\ Copy(m) \in Inbox
              /\ Claimed(m) \in Nat /\ Claimed(m) <= Settle
              /\ Read(m) \in Cursor /\ Read(m) \in Nat
              /\ Stage(m) \in {"idle", "deciding", "claiming", "reading",
                               "refreshing", "answering", "over"}
              /\ Batch(m) \subseteq Message
              /\ Left(m) \in 0 .. TTL /\ Told(m) \in Nat
              /\ \A k \in Machines : Seen(m, k) \in 0 .. TTL /\ SeenTold(m, k) \in Nat
<1> SUFFICES ASSUME NEW m \in Machines
             PROVE  /\ m \in Nat /\ age[m] \in 0 .. 1
                    /\ Copy(m) \in Inbox
                    /\ Claimed(m) \in Nat /\ Claimed(m) <= Settle
                    /\ Read(m) \in Cursor /\ Read(m) \in Nat
                    /\ Stage(m) \in {"idle", "deciding", "claiming", "reading",
                                     "refreshing", "answering", "over"}
                    /\ Batch(m) \subseteq Message
                    /\ Left(m) \in 0 .. TTL /\ Told(m) \in Nat
                    /\ \A k \in Machines :
                          Seen(m, k) \in 0 .. TTL /\ SeenTold(m, k) \in Nat
  OBVIOUS
<1>1. m \in Nat /\ age[m] \in 0 .. 1 /\ inbox[m] \in Inbox /\ round[m] \in Round \union {None}
  BY MachinesAssumption DEF TypeOK
<1>2. Copy(m) \in Inbox
  BY <1>1, RoundFacts DEF Copy
<1>3. Claimed(m) \in Nat /\ Claimed(m) <= Settle
  BY <1>2, TimesAssumption DEF Inbox, Claimed
<1>4. Read(m) \in Cursor /\ Read(m) \in Nat
  BY <1>2, InboxFacts, OrEmptyType, BoundsAssumption DEF Read, Cursor
<1>5. Batch(m) \subseteq Message
  BY <1>1, RoundFacts DEF Batch
<1>6. Stage(m) \in {"idle", "deciding", "claiming", "reading", "refreshing",
                    "answering", "over"}
  BY <1>1 DEF Stage, Round
<1>7. board \in Boards
  BY DEF TypeOK, Boards
<1>8. /\ Left(m) \in 0 .. TTL /\ Told(m) \in Nat
      /\ \A k \in Machines : Seen(m, k) \in 0 .. TTL /\ SeenTold(m, k) \in Nat
  BY <1>7, AtTypes, BoundsAssumption DEF Left, Told, Seen, SeenTold, Cursor
<1> QED BY <1>1, <1>2, <1>3, <1>4, <1>5, <1>6, <1>8

\* Nothing is changed of the boards, of one dashboard, of all but one.
BoardStays ==
    /\ board' = board
    /\ \A k \in Machines : Left(k)' = Left(k) /\ Told(k)' = Told(k)
    /\ \A k, h \in Machines : Seen(k, h)' = Seen(k, h) /\ SeenTold(k, h)' = SeenTold(k, h)
KeepsCopy(m) == Copy(m)' = Copy(m) /\ Claimed(m)' = Claimed(m) /\ Read(m)' = Read(m)
StaysAsIs(m) == KeepsCopy(m) /\ Stage(m)' = Stage(m) /\ Batch(m)' = Batch(m)
OthersStay(m) == \A k \in Machines : k # m => StaysAsIs(k)

LEMMA BoardStaying == board' = board => BoardStays
  BY DEF BoardStays, Left, Told, Seen, SeenTold

\* A worker goes on.
LEMMA RoundMoves ==
    ASSUME TypeOK, NEW m \in Machines, NEW s \in Round,
           round' = [round EXCEPT ![m] = s], inbox' = inbox
    PROVE  /\ OthersStay(m)
           /\ Stage(m)' = s.at /\ Batch(m)' = s.batch /\ Copy(m)' = s.inbox
           /\ Claimed(m)' = s.inbox.claimed /\ Read(m)' = OrEmpty(s.inbox.cursor)
<1>1. round'[m] = s /\ \A k \in Machines : k # m => round'[k] = round[k]
  BY DEF TypeOK
<1>2. s # None
  BY NoneIsNothing
<1>3. /\ Stage(m)' = s.at /\ Batch(m)' = s.batch /\ Copy(m)' = s.inbox
  BY <1>1, <1>2 DEF Stage, Batch, Copy
<1>4. Claimed(m)' = s.inbox.claimed /\ Read(m)' = OrEmpty(s.inbox.cursor)
  BY <1>3 DEF Claimed, Read, OrEmpty
<1>5. OthersStay(m)
  BY <1>1 DEF OthersStay, StaysAsIs, KeepsCopy, Stage, Batch, Copy, Claimed, Read, OrEmpty
<1> QED BY <1>3, <1>4, <1>5

\* A round begins with the newest of every note.
LEMMA BeginFacts ==
    ASSUME TypeOK, linked, Sorted(board), NEW m \in Machines, Begin(m)
    PROVE  /\ Sorted(board)' /\ \A k \in Machines : board'[k][k] = None <=> board[k][k] = None
           /\ \A k \in Machines : Left(k)' = Left(k) /\ Told(k)' = Told(k)
           /\ \A k, h \in Machines : Seen(k, h)' = Left(h) /\ SeenTold(k, h)' = Told(h)
           /\ KeepsCopy(m) /\ OthersStay(m)
           /\ Stage(m) = "idle" /\ Stage(m)' = "deciding"
           /\ Batch(m) = {} /\ Batch(m)' = {}
           /\ m \in running /\ age'[m] = 0 /\ \A k \in Machines : k # m => age'[k] = age[k]
           /\ UNCHANGED <<said, running, answers>>
<1> DEFINE s == [at |-> "deciding", inbox |-> inbox[m], batch |-> {}, stale |-> FALSE]
<1>1. inbox[m] \in Inbox /\ round[m] = None /\ board \in Boards
  BY DEF TypeOK, Begin, Boards
<1>2. s \in Round /\ s.at = "deciding" /\ s.batch = {} /\ s.inbox = inbox[m]
  BY <1>1 DEF Round
<1>3. round' = [round EXCEPT ![m] = s] /\ inbox' = inbox
  BY DEF Begin
<1> HIDE DEF s
<1>4. /\ OthersStay(m)
      /\ Stage(m)' = s.at /\ Batch(m)' = s.batch /\ Copy(m)' = s.inbox
      /\ Claimed(m)' = s.inbox.claimed /\ Read(m)' = OrEmpty(s.inbox.cursor)
  BY <1>2, <1>3, RoundMoves
<1>5. KeepsCopy(m) /\ Stage(m) = "idle" /\ Batch(m) = {}
  BY <1>1, <1>2, <1>4 DEF KeepsCopy, Copy, Claimed, Read, Stage, Batch
<1>6. /\ board' = Carried(board) /\ Sorted(Carried(board))
      /\ \A k, h \in Machines : SameAt(Carried(board), k, h, board, h, h)
  BY <1>1, CarriedSorted DEF Begin
<1>7. /\ Sorted(board')
      /\ \A k, h \in Machines : SameAt(board', k, h, board, h, h)
  BY <1>6
<1>8. /\ \A k \in Machines : board'[k][k] = None <=> board[k][k] = None
      /\ \A k \in Machines : Left(k)' = Left(k) /\ Told(k)' = Told(k)
      /\ \A k, h \in Machines : Seen(k, h)' = Left(h) /\ SeenTold(k, h)' = Told(h)
  BY <1>7 DEF SameAt, Left, Told, Seen, SeenTold, LeftAt, ReadAt
<1>9. /\ m \in running /\ age'[m] = 0 /\ \A k \in Machines : k # m => age'[k] = age[k]
      /\ UNCHANGED <<said, running, answers>>
  BY DEF Begin, TypeOK
<1>10. Sorted(board)'
  BY <1>7
<1> QED
  BY <1>2, <1>4, <1>5, <1>8, <1>9, <1>10

\* The four decisions, by what the board of one's own machine says.
LEMMA Decisions ==
    ASSUME TypeOK, linked, NEW m \in Machines
    PROVE  LET d == LeaseDecision(m, board[m], Claimed(m), PeersAreLive)
               Least == \A h \in Machines : Seen(m, h) > 0 => m <= h
           IN  /\ d = "yield" => \E h \in Machines : /\ h # m /\ Seen(m, h) > 0
                                                     /\ Lives(m) => h < m
               /\ d = "consume" => \/ \A h \in Machines : h = m
                                   \/ Lives(m) /\ Claimed(m) = Settle /\ Least
               /\ d = "quiet" => Lives(m) /\ Claimed(m) < Settle /\ Least
               /\ d = "introduce" => \A h \in Machines : Seen(m, h) = 0
<1> DEFINE live == LiveHolders(board[m])
           d == LeaseDecision(m, board[m], Claimed(m), PeersAreLive)
<1>1. \A h \in Machines : h \in live <=> Seen(m, h) > 0
  BY DEF LiveHolders, Seen, LeftAt
<1>2. live \in SUBSET Machines /\ \A h \in Machines : Seen(m, h) \in Nat
  BY Vocabulary, TimesAssumption DEF LiveHolders
<1>3. Lives(m) <=> m \in live
  BY <1>1 DEF Lives, Left, Seen
<1>4. \A h \in Machines : h \in Nat
  BY MachinesAssumption
<1>5. Claimed(m) \in Nat /\ Claimed(m) <= Settle /\ Settle \in Nat
  BY Vocabulary, TimesAssumption
<1> HIDE DEF live
<1>6. CASE ~PeersAreLive
  <2>1. Cardinality(Machines) <= 1
    BY <1>6, MachinesAssumption, FS_CardinalityType DEF PeersAreLive
  <2>2. Cardinality(Machines) = 1
    BY <2>1, MachinesAssumption, FS_EmptySet, FS_CardinalityType
  <2>3. \A h \in Machines : h = m
    BY <2>2, MachinesAssumption, FS_Singleton
  <2> QED
    BY <1>6, <2>3 DEF LeaseDecision
<1>7. CASE PeersAreLive /\ live = {}
  BY <1>1, <1>2, <1>7 DEF LeaseDecision, live
<1>8. CASE PeersAreLive /\ live # {}
  <2>1. Min(live) \in live /\ \A y \in live : Min(live) <= y
    BY <1>2, <1>8, MinIsLeast
  <2>2. Min(live) \in Machines
    BY <1>2, <2>1
  <2>3. CASE Min(live) # m
    <3>1. d = "yield"
      BY <1>8, <2>3 DEF LeaseDecision, live
    <3>2. m \in live => Min(live) < m
      BY <1>4, <2>1, <2>2, <2>3
    <3> QED BY <1>1, <1>3, <2>1, <2>2, <2>3, <3>1, <3>2
  <2>4. CASE Min(live) = m
    <3>1. d = IF Claimed(m) < Settle THEN "quiet" ELSE "consume"
      BY <1>8, <2>4 DEF LeaseDecision, live
    <3> QED BY <1>1, <1>3, <1>5, <2>1, <2>4, <3>1
  <2> QED BY <2>3, <2>4
<1> QED BY <1>6, <1>7, <1>8

\* A dashboard that adopts a cursor has the newest its machine knows of.
LEMMA AdoptsNewest ==
    ASSUME TypeOK, Sorted(board), NEW m \in Machines, NEW box \in Inbox,
           OrEmpty(box.cursor) = Told(m)
    PROVE  LET adopted == AdoptNewerCursor(m, board[m], box)
           IN  /\ adopted \in Inbox
               /\ adopted.claimed = box.claimed /\ adopted.posted = box.posted
               /\ \A h \in Machines : SeenTold(m, h) <= OrEmpty(adopted.cursor)
               /\ \E h \in Machines : OrEmpty(adopted.cursor) = SeenTold(m, h)
<1> DEFINE b == board[m]
           holders == {h \in Machines : b[h] # None}
           newest  == {h \in holders : \A k \in holders : b[k].stamp <= b[h].stamp}
           others  == {h \in newest : h # m /\ b[h].cursor # 0}
           chosen  == CHOOSE h \in others : TRUE
           adopted == AdoptNewerCursor(m, board[m], box)
<1>1. adopted = IF others = {} THEN box ELSE [box EXCEPT !.cursor = b[chosen].cursor]
  BY DEF AdoptNewerCursor
<1>2. \A h \in holders : b[h] \in Note
  BY DEF TypeOK
<1>3. \A h \in Machines :
         /\ SeenTold(m, h) = IF b[h] = None THEN 0 ELSE b[h].cursor
         /\ SeenTold(m, h) \in Nat
  BY Vocabulary DEF SeenTold, ReadAt
<1>4. SeenTold(m, m) = Told(m)
  BY DEF SeenTold, Told
<1>5. \A h \in newest : \A k \in Machines : SeenTold(m, k) <= SeenTold(m, h)
  <2> SUFFICES ASSUME NEW h \in newest, NEW k \in Machines
               PROVE  SeenTold(m, k) <= SeenTold(m, h)
    OBVIOUS
  <2>1. h \in Machines /\ b[h] # None
    OBVIOUS
  <2>2. CASE b[k] = None
    BY <1>3, <2>1, <2>2
  <2>3. CASE b[k] # None
    <3>1. b[k].stamp <= b[h].stamp
      BY <2>3
    <3>2. b[k].cursor <= b[h].cursor
      BY <2>1, <2>3, <3>1 DEF Sorted, Ordered
    <3> QED BY <1>3, <2>1, <2>3, <3>2
  <2> QED BY <2>2, <2>3
<1>6. holders # {} => newest # {}
  <2> SUFFICES ASSUME holders # {} PROVE newest # {}
    OBVIOUS
  <2> DEFINE f == [h \in holders |-> 0 - b[h].stamp]
  <2>1. IsFiniteSet(holders)
    BY MachinesAssumption, FS_Subset
  <2>2. \A h \in holders : b[h].stamp \in Nat
    BY <1>2 DEF Note
  <2>3. f \in [holders -> Int] /\ \A h \in holders : f[h] = 0 - b[h].stamp
    BY <2>2
  <2> HIDE DEF f, holders
  <2>4. PICK x \in holders : \A y \in holders : f[x] <= f[y]
    BY <2>1, <2>3, LowestExists
  <2>5. \A y \in holders : b[y].stamp <= b[x].stamp
    BY <2>2, <2>3, <2>4
  <2>6. x \in newest
    BY <2>5
  <2> QED BY <2>6
<1>7. CASE others = {}
  <2>1. adopted = box
    BY <1>1, <1>7
  <2>2. \A h \in Machines : SeenTold(m, h) <= Told(m)
    <3>1. CASE holders = {}
      BY <1>3, <1>4, <3>1
    <3>2. CASE holders # {}
      <4>1. PICK x \in newest : TRUE
        BY <1>6, <3>2
      <4>2. x = m \/ b[x].cursor = 0
        BY <1>7, <4>1
      <4>3. x \in Machines /\ b[x] # None
        BY <4>1
      <4>4. \A h \in Machines : SeenTold(m, h) <= SeenTold(m, x)
        BY <1>5, <4>1
      <4> HIDE DEF newest
      <4>5. SeenTold(m, x) = 0 \/ x = m
        BY <1>3, <4>2, <4>3
      <4> QED BY <1>3, <1>4, <4>3, <4>4, <4>5
    <3> QED BY <3>1, <3>2
  <2> QED BY <1>4, <2>1, <2>2
<1>8. CASE others # {}
  <2>1. chosen \in others
    BY <1>8
  <2>2. chosen \in newest /\ chosen \in Machines /\ b[chosen] # None /\ chosen \in holders
    BY <2>1
  <2>3. b[chosen] \in Note
    BY <1>2, <2>2
  <2> DEFINE c == b[chosen].cursor
  <2>4. c \in Cursor
    BY <2>3 DEF Note
  <2>5. adopted = [box EXCEPT !.cursor = c]
    BY <1>1, <1>8
  <2>6. SeenTold(m, chosen) = c
    BY <1>3, <2>2
  <2>7. \A k \in Machines : SeenTold(m, k) <= SeenTold(m, chosen)
    BY <1>5, <2>2
  <2> HIDE DEF c, chosen, others, newest, holders, adopted
  <2>8. /\ [box EXCEPT !.cursor = c] \in Inbox
        /\ [box EXCEPT !.cursor = c].cursor = c
        /\ [box EXCEPT !.cursor = c].claimed = box.claimed
        /\ [box EXCEPT !.cursor = c].posted = box.posted
    BY <2>4 DEF Inbox
  <2>9. OrEmpty(c) = c
    BY <2>4, NoneIsNothing, BoundsAssumption DEF OrEmpty, Cursor
  <2>10. OrEmpty(adopted.cursor) = c
    BY <2>5, <2>8, <2>9
  <2>11. adopted \in Inbox /\ adopted.claimed = box.claimed /\ adopted.posted = box.posted
    BY <2>5, <2>8
  <2>12. \A h \in Machines : SeenTold(m, h) <= OrEmpty(adopted.cursor)
    BY <2>6, <2>7, <2>10
  <2> QED BY <2>2, <2>6, <2>10, <2>11, <2>12 DEF adopted
<1> QED BY <1>7, <1>8

\* A dashboard decides to keep silent, to read, to wait for its claim to settle
\* with its lease as it is or with a new one, or to introduce itself.
Least(m) == \A h \in Machines : Seen(m, h) > 0 => m <= h

Adopts(m) ==
    /\ \A h \in Machines : SeenTold(m, h) <= Read(m)'
    /\ \E h \in Machines : Read(m)' = SeenTold(m, h)

Yields(m) ==
    /\ Stage(m)' = "over" /\ KeepsCopy(m)
    /\ \E h \in Machines : h # m /\ Seen(m, h) > 0 /\ (Lives(m) => h < m)
Consumes(m) ==
    /\ Stage(m)' = "reading" /\ Adopts(m) /\ Claimed(m)' = Claimed(m)
    /\ (\A h \in Machines : h = m) \/ (Lives(m) /\ Claimed(m) = Settle /\ Least(m))
Waits(m) ==
    /\ Stage(m)' = "over" /\ KeepsCopy(m)
    /\ Lives(m) /\ Claimed(m) < Settle /\ Least(m) /\ Left(m) > Refresh
ClaimsAgain(m) ==
    /\ Stage(m)' = "claiming" /\ KeepsCopy(m)
    /\ Lives(m) /\ Claimed(m) < Settle /\ Least(m)
Introduces(m) ==
    /\ Stage(m)' = "claiming" /\ Adopts(m) /\ Claimed(m)' = 0
    /\ \A h \in Machines : Seen(m, h) = 0

\* A lease that stands has more than Refresh left, and its cursor.
LEMMA Standing ==
    ASSUME TypeOK, MemoryInv, NEW m \in Machines
    PROVE  LeaseStillStands(Copy(m)) <=>
               board[m][m] # None /\ Told(m) = Read(m) /\ Left(m) > Refresh
<1>1. Copy(m).posted = IF board[m][m] = None THEN None
                       ELSE [left |-> Left(m), cursor |-> Told(m)]
  BY DEF MemoryInv
<1>2. board[m][m] # None => Copy(m).posted # None
  <2> SUFFICES ASSUME board[m][m] # None PROVE Copy(m).posted # None
    OBVIOUS
  <2>1. board[m][m] \in Note
    BY DEF TypeOK
  <2>2. Left(m) \in 0 .. TTL /\ Told(m) \in Cursor
    BY <2>1 DEF Note, Left, Told, LeftAt, ReadAt
  <2>3. [left |-> Left(m), cursor |-> Told(m)] \in [left : 0 .. TTL, cursor : Cursor]
    BY <2>2
  <2> QED BY <1>1, <2>3, NoneIsNothing
<1>3. board[m][m] # None =>
         Copy(m).posted.left = Left(m) /\ Copy(m).posted.cursor = Told(m)
  BY <1>1
<1> QED BY <1>1, <1>2, <1>3 DEF LeaseStillStands, Read

LEMMA DecideFacts ==
    ASSUME TypeOK, linked, BoardInv,
           NEW m \in Machines, Decide(m)
    PROVE  /\ BoardStays /\ OthersStay(m) /\ UNCHANGED <<said, running, answers, age>>
           /\ Stage(m) = "deciding" /\ Batch(m)' = Batch(m)
           /\ Copy(m)'.posted = Copy(m).posted
           /\ \/ Yields(m) \/ Consumes(m) \/ Waits(m) \/ ClaimsAgain(m) \/ Introduces(m)
<1> DEFINE r == round[m]
           adopted == AdoptNewerCursor(m, board[m], r.inbox)
           claimed == [adopted EXCEPT !.claimed = 0]
           d == LeaseDecision(m, board[m], r.inbox.claimed, PeersAreLive)
           Moved(stage, box) == [[r EXCEPT !.at = stage] EXCEPT !.inbox = box]
<1>1. r # None /\ r.at = "deciding" /\ r \in Round /\ r.inbox \in Inbox
  BY RoundFacts DEF Decide, At, TypeOK
<1>2. /\ Copy(m) = r.inbox /\ Stage(m) = "deciding" /\ Batch(m) = r.batch
      /\ Claimed(m) = r.inbox.claimed /\ Read(m) = OrEmpty(r.inbox.cursor)
  BY <1>1 DEF Copy, Stage, Batch, Claimed, Read
<1>3. Read(m) = Told(m)
  BY <1>2 DEF BoardInv, KnownInv, Claiming
<1>4. /\ adopted \in Inbox
      /\ adopted.claimed = Claimed(m) /\ adopted.posted = Copy(m).posted
      /\ \A h \in Machines : SeenTold(m, h) <= OrEmpty(adopted.cursor)
      /\ \E h \in Machines : OrEmpty(adopted.cursor) = SeenTold(m, h)
  BY <1>1, <1>2, <1>3, AdoptsNewest DEF BoardInv
<1> HIDE DEF adopted
<1>5. /\ claimed \in Inbox /\ claimed.claimed = 0
      /\ claimed.cursor = adopted.cursor /\ claimed.posted = adopted.posted
  BY <1>4, TimesAssumption DEF Inbox
<1> HIDE DEF claimed
<1>6. \A stage \in {"over", "reading", "claiming"} : \A box \in Inbox :
         LET s == Moved(stage, box)
         IN  s \in Round /\ s.at = stage /\ s.inbox = box /\ s.batch = r.batch
  BY <1>1 DEF Round
<1>7. \A stage : [r EXCEPT !.at = stage] = Moved(stage, r.inbox)
  BY <1>1 DEF Round
<1>8. m \in DOMAIN round
  BY DEF TypeOK
<1>9. inbox' = inbox /\ board' = board /\ UNCHANGED <<said, running, answers, age>>
  BY DEF Decide
<1>10. BoardStays
  BY <1>9, BoardStaying
<1> DEFINE Goes(stage, box) ==
              /\ OthersStay(m) /\ Stage(m)' = stage /\ Batch(m)' = Batch(m)
              /\ Copy(m)' = box /\ Claimed(m)' = box.claimed
              /\ Read(m)' = OrEmpty(box.cursor)
<1>11. ASSUME NEW stage \in {"over", "reading", "claiming"}, NEW box \in Inbox,
              round' = [round EXCEPT ![m] = Moved(stage, box)]
       PROVE  Goes(stage, box)
  <2> HIDE DEF Moved
  <2> DEFINE s == Moved(stage, box)
  <2>1. s \in Round /\ s.at = stage /\ s.inbox = box /\ s.batch = r.batch
    BY <1>6
  <2>2. round' = [round EXCEPT ![m] = s]
    BY <1>11
  <2> HIDE DEF s
  <2>3. /\ OthersStay(m)
        /\ Stage(m)' = s.at /\ Batch(m)' = s.batch /\ Copy(m)' = s.inbox
        /\ Claimed(m)' = s.inbox.claimed /\ Read(m)' = OrEmpty(s.inbox.cursor)
    BY <1>9, <2>1, <2>2, RoundMoves
  <2> QED BY <1>2, <2>1, <2>3
<1>12. /\ d = "yield" => \E h \in Machines : /\ h # m /\ Seen(m, h) > 0
                                             /\ Lives(m) => h < m
       /\ d = "consume" => \/ \A h \in Machines : h = m
                           \/ Lives(m) /\ Claimed(m) = Settle /\ Least(m)
       /\ d = "quiet" => Lives(m) /\ Claimed(m) < Settle /\ Least(m)
       /\ d = "introduce" => \A h \in Machines : Seen(m, h) = 0
  BY <1>2, Decisions DEF Least
<1>13. \/ /\ d = "yield" /\ round' = [round EXCEPT ![m].at = "over"]
       \/ /\ d = "consume"
          /\ round' = [round EXCEPT ![m].at = "reading", ![m].inbox = adopted]
       \/ /\ d = "quiet"
          /\ round' = [round EXCEPT ![m].at =
                          IF LeaseStillStands(r.inbox) THEN "over" ELSE "claiming"]
       \/ /\ d = "introduce"
          /\ round' = [round EXCEPT ![m].at = "claiming", ![m].inbox = claimed]
  BY DEF Decide, GoTo, adopted, claimed
<1> HIDE DEF d
<1>14. CASE d = "yield" /\ round' = [round EXCEPT ![m].at = "over"]
  <2>1. round' = [round EXCEPT ![m] = Moved("over", r.inbox)]
    BY <1>7, <1>14
  <2> HIDE DEF Moved
  <2>2. Goes("over", r.inbox)
    BY <1>1, <1>11, <2>1
  <2> QED BY <1>2, <1>9, <1>10, <1>12, <1>14, <2>2 DEF Yields, KeepsCopy
<1>15. CASE /\ d = "consume"
            /\ round' = [round EXCEPT ![m].at = "reading", ![m].inbox = adopted]
  <2>1. round' = [round EXCEPT ![m] = Moved("reading", adopted)]
    BY <1>8, <1>15
  <2> HIDE DEF Moved
  <2>2. Goes("reading", adopted)
    BY <1>4, <1>11, <2>1
  <2>3. Adopts(m)
    BY <1>4, <2>2 DEF Adopts
  <2> QED BY <1>2, <1>4, <1>9, <1>10, <1>12, <1>15, <2>2, <2>3 DEF Consumes
<1>16. CASE /\ d = "quiet"
            /\ round' = [round EXCEPT ![m].at =
                            IF LeaseStillStands(r.inbox) THEN "over" ELSE "claiming"]
  <2>1. CASE LeaseStillStands(r.inbox)
    <3>1. round' = [round EXCEPT ![m] = Moved("over", r.inbox)]
      BY <1>7, <1>16, <2>1
    <3> HIDE DEF Moved
    <3>2. Goes("over", r.inbox)
      BY <1>1, <1>11, <3>1
    <3>3. Left(m) > Refresh
      BY <1>2, <2>1, Standing DEF BoardInv
    <3> QED BY <1>2, <1>9, <1>10, <1>12, <1>16, <3>2, <3>3 DEF Waits, KeepsCopy
  <2>2. CASE ~LeaseStillStands(r.inbox)
    <3>1. round' = [round EXCEPT ![m] = Moved("claiming", r.inbox)]
      BY <1>7, <1>16, <2>2
    <3> HIDE DEF Moved
    <3>2. Goes("claiming", r.inbox)
      BY <1>1, <1>11, <3>1
    <3> QED BY <1>2, <1>9, <1>10, <1>12, <1>16, <3>2 DEF ClaimsAgain, KeepsCopy
  <2> QED BY <2>1, <2>2
<1>17. CASE /\ d = "introduce"
            /\ round' = [round EXCEPT ![m].at = "claiming", ![m].inbox = claimed]
  <2>1. round' = [round EXCEPT ![m] = Moved("claiming", claimed)]
    BY <1>8, <1>17
  <2> HIDE DEF Moved
  <2>2. Goes("claiming", claimed)
    BY <1>5, <1>11, <2>1
  <2>3. Adopts(m)
    BY <1>4, <1>5, <2>2 DEF Adopts
  <2> QED BY <1>2, <1>4, <1>5, <1>9, <1>10, <1>12, <1>17, <2>2, <2>3 DEF Introduces
<1> QED BY <1>13, <1>14, <1>15, <1>16, <1>17

\* A note is posted: it has all its time and the cursor the worker holds.
Posts(m) ==
    /\ Sorted(board)' /\ board'[m][m] # None
    /\ \A k \in Machines : k # m => (board'[k][k] = None <=> board[k][k] = None)
    /\ Left(m)' = TTL /\ Told(m)' = Read(m)
    /\ Claimed(m)' = Claimed(m) /\ Read(m)' = Read(m)
    /\ Copy(m)'.posted = [left |-> TTL, cursor |-> Read(m)]
    /\ \A k \in Machines : k # m => Left(k)' = Left(k) /\ Told(k)' = Told(k)
    /\ \A k, h \in Machines : k # m \/ h # m =>
           Seen(k, h)' = Seen(k, h) /\ SeenTold(k, h)' = SeenTold(k, h)

LEMMA ClaimLeaseFacts ==
    ASSUME TypeOK, BoardInv, NEW m \in Machines, ClaimLease(m), inbox' = inbox,
           round[m] # None, round[m].at \in {"claiming", "refreshing"}, Covers(Read(m))
    PROVE  /\ Posts(m) /\ OthersStay(m) /\ Batch(m)' = Batch(m)
           /\ Stage(m)' = IF Stage(m) = "claiming" THEN "over" ELSE "answering"
<1> DEFINE r == round[m]
           c == OrEmpty(r.inbox.cursor)
           note == [left |-> TTL, cursor |-> c]
           box == [r.inbox EXCEPT !.posted = note]
           stage == IF r.at = "claiming" THEN "over" ELSE "answering"
           s == [[r EXCEPT !.inbox = box] EXCEPT !.at = stage]
<1>1. r \in Round /\ r.inbox \in Inbox /\ board \in Boards
  BY RoundFacts DEF TypeOK, Boards
<1>2. /\ Copy(m) = r.inbox /\ Stage(m) = r.at /\ Batch(m) = r.batch
      /\ Claimed(m) = r.inbox.claimed /\ Read(m) = c
  BY DEF Copy, Stage, Batch, Claimed, Read
<1>3. c \in Cursor
  BY <1>1, InboxFacts, OrEmptyType
<1>4. /\ box \in Inbox /\ box.cursor = r.inbox.cursor /\ box.posted = note
      /\ box.claimed = r.inbox.claimed
  <2>1. note \in [left : 0 .. TTL, cursor : Cursor]
    BY <1>3, TimesAssumption
  <2> HIDE DEF note
  <2> QED BY <1>1, <2>1 DEF Inbox
<1>5. board' = Posted(board, m, c)
  BY DEF ClaimLease
<1>6. round' = [round EXCEPT ![m] = s]
  <2>1. m \in DOMAIN round
    BY DEF TypeOK
  <2>2. round' = [round EXCEPT ![m].inbox.posted = note, ![m].at =
                     IF @ = "claiming" THEN "over" ELSE "answering"]
    BY DEF ClaimLease
  <2>3. s = [[r EXCEPT !.inbox.posted = note] EXCEPT !.at =
                IF @ = "claiming" THEN "over" ELSE "answering"]
    BY <1>1 DEF Round
  <2> HIDE DEF note, s
  <2> QED BY <2>1, <2>2, <2>3
<1> HIDE DEF box, note, c
<1>7. s \in Round /\ s.at = stage /\ s.inbox = box /\ s.batch = r.batch
  BY <1>1, <1>4 DEF Round
<1> HIDE DEF s
<1>8. /\ OthersStay(m)
      /\ Stage(m)' = s.at /\ Batch(m)' = s.batch /\ Copy(m)' = s.inbox
      /\ Claimed(m)' = s.inbox.claimed /\ Read(m)' = OrEmpty(s.inbox.cursor)
  BY <1>6, <1>7, RoundMoves
<1>9. \A h \in Machines : ReadAt(board, h, h) <= c
  BY <1>2 DEF Covers, Told
<1>10. LET p == Posted(board, m, c)
       IN  /\ p \in Boards /\ Sorted(p)
           /\ p[m][m] # None /\ LeftAt(p, m, m) = TTL /\ ReadAt(p, m, m) = c
           /\ \A k, h \in Machines : k # m \/ h # m => SameAt(p, k, h, board, k, h)
  BY <1>1, <1>3, <1>9, PostedSorted DEF BoardInv
<1>11. /\ Sorted(board') /\ board'[m][m] # None
       /\ LeftAt(board', m, m) = TTL /\ ReadAt(board', m, m) = c
       /\ \A k, h \in Machines : k # m \/ h # m => SameAt(board', k, h, board, k, h)
  BY <1>5, <1>10
<1>12. /\ \A k \in Machines : k # m =>
             /\ board'[k][k] = None <=> board[k][k] = None
             /\ Left(k)' = Left(k) /\ Told(k)' = Told(k)
       /\ \A k, h \in Machines : k # m \/ h # m =>
             Seen(k, h)' = Seen(k, h) /\ SeenTold(k, h)' = SeenTold(k, h)
       /\ Left(m)' = TTL /\ Told(m)' = c
  BY <1>11 DEF SameAt, Left, Told, Seen, SeenTold
<1>13. Sorted(board)'
  BY <1>11
<1>14. Posts(m)
  BY <1>2, <1>4, <1>7, <1>8, <1>11, <1>12, <1>13 DEF Posts, note, c
<1> QED
  BY <1>2, <1>7, <1>8, <1>14

\* A lease is refreshed, unless it still stands.
LEMMA RefreshFacts ==
    ASSUME TypeOK, BoardInv, NEW m \in Machines, RefreshLease(m), Covers(Read(m))
    PROVE  /\ OthersStay(m) /\ Batch(m)' = Batch(m) /\ UNCHANGED <<said, running, answers, age>>
           /\ Stage(m) = "refreshing" /\ Stage(m)' = "answering"
           /\ \/ Posts(m)
              \/ BoardStays /\ KeepsCopy(m) /\ Told(m) = Read(m) /\ Left(m) > Refresh
<1>1. /\ round[m] # None /\ round[m].at = "refreshing" /\ inbox' = inbox
      /\ UNCHANGED <<said, running, answers, age>>
  BY DEF RefreshLease, At
<1>2. /\ Stage(m) = "refreshing" /\ Copy(m) = round[m].inbox
      /\ Batch(m) = round[m].batch
  BY <1>1 DEF Stage, Copy, Batch
<1>3. CASE LeaseStillStands(round[m].inbox)
  <2> DEFINE s == [round[m] EXCEPT !.at = "answering"]
  <2>1. round[m] \in Round
    BY <1>1 DEF TypeOK
  <2>2. s \in Round /\ s.at = "answering" /\ s.inbox = round[m].inbox
        /\ s.batch = round[m].batch
    BY <2>1 DEF Round
  <2>3. round' = [round EXCEPT ![m] = s] /\ board' = board
    BY <1>3 DEF RefreshLease, GoTo
  <2> HIDE DEF s
  <2>4. /\ OthersStay(m)
        /\ Stage(m)' = s.at /\ Batch(m)' = s.batch /\ Copy(m)' = s.inbox
        /\ Claimed(m)' = s.inbox.claimed /\ Read(m)' = OrEmpty(s.inbox.cursor)
    BY <1>1, <2>2, <2>3, RoundMoves
  <2>5. KeepsCopy(m)
    BY <1>2, <2>2, <2>4 DEF KeepsCopy, Claimed, Read
  <2>6. Told(m) = Read(m) /\ Left(m) > Refresh
    BY <1>2, <1>3, Standing DEF BoardInv
  <2> QED BY <1>1, <1>2, <2>2, <2>3, <2>4, <2>5, <2>6, BoardStaying
<1>4. CASE ~LeaseStillStands(round[m].inbox)
  <2>1. ClaimLease(m)
    BY <1>4 DEF RefreshLease
  <2> QED BY <1>1, <1>2, <2>1, ClaimLeaseFacts
<1> QED BY <1>3, <1>4

LEMMA ClaimFacts ==
    ASSUME TypeOK, BoardInv, NEW m \in Machines, Claim(m), Covers(Read(m))
    PROVE  /\ OthersStay(m) /\ Batch(m)' = Batch(m) /\ UNCHANGED <<said, running, answers, age>>
           /\ Stage(m) = "claiming" /\ Stage(m)' = "over" /\ Posts(m)
<1>1. /\ round[m] # None /\ round[m].at = "claiming" /\ inbox' = inbox
      /\ UNCHANGED <<said, running, answers, age>> /\ ClaimLease(m)
  BY DEF Claim, At
<1>2. Stage(m) = "claiming"
  BY <1>1 DEF Stage
<1> QED BY <1>1, <1>2, ClaimLeaseFacts

\* The chat is read to its end.
LEMMA ReadFacts ==
    ASSUME TypeOK, NEW m \in Machines, ReadChat(m)
    PROVE  /\ BoardStays /\ OthersStay(m) /\ UNCHANGED <<said, running, answers, age>>
           /\ Stage(m) = "reading" /\ Stage(m)' = "refreshing"
           /\ Copy(m)'.posted = Copy(m).posted
           /\ Claimed(m)' = Claimed(m) /\ Read(m)' = said
           /\ Batch(m)' = {i \in 1 .. said : i > Read(m)}
<1> DEFINE r == round[m]
           unread == {i \in 1 .. said : i > OrEmpty(r.inbox.cursor)}
           box == [r.inbox EXCEPT !.cursor = said]
           s == [[[[r EXCEPT !.at = "refreshing"] EXCEPT !.inbox = box]
                     EXCEPT !.batch = unread] EXCEPT !.stale = (r.inbox.cursor = None)]
<1>1. r # None /\ r.at = "reading" /\ r \in Round /\ r.inbox \in Inbox
  BY RoundFacts DEF ReadChat, At, TypeOK
<1>2. /\ Copy(m) = r.inbox /\ Stage(m) = "reading"
      /\ Claimed(m) = r.inbox.claimed /\ Read(m) = OrEmpty(r.inbox.cursor)
  BY <1>1 DEF Copy, Stage, Claimed, Read
<1>3. said \in Cursor /\ said \in Nat /\ 1 .. said \subseteq Message
  BY BoundsAssumption DEF TypeOK, Cursor, Message
<1>4. /\ box \in Inbox /\ box.cursor = said /\ box.posted = r.inbox.posted
      /\ box.claimed = r.inbox.claimed
  BY <1>1, <1>3 DEF Inbox
<1>5. inbox' = inbox /\ board' = board /\ UNCHANGED <<said, running, answers, age>>
  BY DEF ReadChat
<1>6. round' = [round EXCEPT ![m] = s]
  <2>1. round' = [round EXCEPT ![m] =
                     [@ EXCEPT !.at = "refreshing", !.inbox.cursor = said,
                               !.batch = unread, !.stale = (r.inbox.cursor = None)]]
    BY DEF ReadChat
  <2> HIDE DEF unread
  <2>2. s = [r EXCEPT !.at = "refreshing", !.inbox.cursor = said,
                      !.batch = unread, !.stale = (r.inbox.cursor = None)]
    BY <1>1 DEF Round
  <2> HIDE DEF s
  <2> QED BY <2>1, <2>2 DEF TypeOK
<1> HIDE DEF box
<1>7. unread \subseteq Message
  BY <1>3
<1> HIDE DEF unread
<1>8. s \in Round /\ s.at = "refreshing" /\ s.inbox = box /\ s.batch = unread
  BY <1>1, <1>4, <1>7 DEF Round
<1> HIDE DEF s
<1>9. /\ OthersStay(m)
      /\ Stage(m)' = s.at /\ Batch(m)' = s.batch /\ Copy(m)' = s.inbox
      /\ Claimed(m)' = s.inbox.claimed /\ Read(m)' = OrEmpty(s.inbox.cursor)
  BY <1>5, <1>6, <1>8, RoundMoves
<1>10. OrEmpty(said) = said
  BY <1>3, NoneIsNothing DEF OrEmpty
<1> QED
  BY <1>2, <1>4, <1>5, <1>8, <1>9, <1>10, BoardStaying DEF unread

\* One message is dealt with, and answered at most.
LEMMA AbsorbFacts ==
    ASSUME TypeOK, NEW m \in Machines, Absorb(m)
    PROVE  /\ BoardStays /\ OthersStay(m) /\ UNCHANGED <<said, running, age>>
           /\ Stage(m) = "answering" /\ Stage(m)' = "answering"
           /\ Copy(m)'.posted = Copy(m).posted
           /\ Claimed(m)' = Claimed(m) /\ Read(m)' = Read(m)
           /\ \E i \in Batch(m) :
                 /\ Batch(m)' = Batch(m) \ {i}
                 /\ answers' = answers \/ answers' = [answers EXCEPT ![i] = @ + 1]
<1> DEFINE r == round[m]
<1>1. r # None /\ r.at = "answering" /\ r \in Round /\ r.inbox \in Inbox
      /\ r.batch \subseteq Message
  BY RoundFacts DEF Absorb, At, TypeOK
<1>2. /\ Copy(m) = r.inbox /\ Stage(m) = "answering" /\ Batch(m) = r.batch
      /\ Claimed(m) = r.inbox.claimed /\ Read(m) = OrEmpty(r.inbox.cursor)
  BY <1>1 DEF Copy, Stage, Claimed, Read, Batch
<1>3. PICK i \in r.batch :
         /\ round' = [round EXCEPT ![m].batch = @ \ {i},
                                  ![m].inbox.handled = @ \union {i}]
         /\ answers' = IF i \in r.inbox.handled \/ r.stale THEN answers
                       ELSE [answers EXCEPT ![i] = @ + 1]
  BY DEF Absorb
<1> DEFINE more == r.inbox.handled \union {i}
           rest == r.batch \ {i}
           box == [r.inbox EXCEPT !.handled = more]
           s == [[r EXCEPT !.batch = rest] EXCEPT !.inbox = box]
<1>4. more \in SUBSET Message /\ rest \in SUBSET Message
  BY <1>1, InboxFacts
<1>5. inbox' = inbox /\ board' = board /\ UNCHANGED <<said, running, age>>
  BY DEF Absorb
<1>6. round' = [round EXCEPT ![m] = s]
  <2>1. [r EXCEPT !.batch = @ \ {i}].inbox = r.inbox
    BY <1>1 DEF Round
  <2>2. [[r EXCEPT !.batch = @ \ {i}] EXCEPT !.inbox.handled = @ \union {i}] = s
    BY <2>1
  <2>3. m \in DOMAIN round
    BY DEF TypeOK
  <2> QED BY <1>3, <2>2, <2>3
<1> HIDE DEF more, rest
<1>7. /\ box \in Inbox /\ box.cursor = r.inbox.cursor /\ box.posted = r.inbox.posted
      /\ box.claimed = r.inbox.claimed
  BY <1>1, <1>4 DEF Inbox
<1> HIDE DEF box
<1>8. s \in Round /\ s.at = "answering" /\ s.inbox = box /\ s.batch = rest
  BY <1>1, <1>4, <1>7 DEF Round
<1> HIDE DEF s
<1>9. /\ OthersStay(m)
      /\ Stage(m)' = s.at /\ Batch(m)' = s.batch /\ Copy(m)' = s.inbox
      /\ Claimed(m)' = s.inbox.claimed /\ Read(m)' = OrEmpty(s.inbox.cursor)
  BY <1>5, <1>6, <1>8, RoundMoves
<1>10. /\ Batch(m)' = Batch(m) \ {i} /\ i \in Batch(m)
  BY <1>2, <1>3, <1>8, <1>9 DEF rest
<1>11. Claimed(m)' = Claimed(m) /\ Read(m)' = Read(m) /\ Copy(m)'.posted = Copy(m).posted
  BY <1>2, <1>7, <1>8, <1>9
<1>12. BoardStays
  BY <1>5, BoardStaying
<1> HIDE DEF r
<1>13. Stage(m)' = "answering"
  BY <1>8, <1>9
<1> QED
  BY <1>2, <1>3, <1>5, <1>9, <1>10, <1>11, <1>12, <1>13

\* A dashboard takes back what its worker had.
LEMMA FinishFacts ==
    ASSUME TypeOK, NEW m \in Machines, Finish(m)
    PROVE  /\ BoardStays /\ OthersStay(m) /\ UNCHANGED <<said, running, answers, age>>
           /\ Stage(m) \in {"over", "answering"} /\ Stage(m)' = "idle"
           /\ KeepsCopy(m) /\ Batch(m)' = {}
<1>1. /\ round[m] # None /\ round[m].at \in {"over", "answering"}
      /\ inbox'[m] = round[m].inbox /\ round'[m] = None
      /\ \A k \in Machines : k # m => round'[k] = round[k] /\ inbox'[k] = inbox[k]
      /\ board' = board /\ UNCHANGED <<said, running, answers, age>>
  BY DEF Finish, At, TypeOK
<1>2. KeepsCopy(m) /\ Stage(m) \in {"over", "answering"} /\ Stage(m)' = "idle"
      /\ Batch(m)' = {}
  BY <1>1 DEF KeepsCopy, Copy, Claimed, Read, Stage, Batch, OrEmpty
<1>3. OthersStay(m)
  BY <1>1 DEF OthersStay, StaysAsIs, KeepsCopy, Stage, Batch, Copy, Claimed, Read, OrEmpty
<1> QED BY <1>1, <1>2, <1>3, BoardStaying

LEMMA AllStay ==
    round' = round /\ inbox' = inbox => \A k \in Machines : StaysAsIs(k)
  BY DEF StaysAsIs, KeepsCopy, Stage, Batch, Copy, Claimed, Read, OrEmpty

\* A dashboard is started without a lease.
LEMMA StartFacts ==
    ASSUME TypeOK, Faults = {}, NEW m \in Machines, Start(m)
    PROVE  /\ BoardStays /\ \A k \in Machines : StaysAsIs(k)
           /\ UNCHANGED <<said, answers>> /\ ~Lives(m)
           /\ m \notin running /\ running' = running \union {m}
           /\ age'[m] = 0 /\ \A k \in Machines : k # m => age'[k] = age[k]
<1>1. m \notin LiveHolders(board[m])
  BY DEF Start
<1>2. ~Lives(m)
  BY <1>1 DEF LiveHolders, Lives, Left, LeftAt
<1> QED BY <1>2, AllStay, BoardStaying DEF Start, TypeOK

\* It is closed between two rounds, when there is no lease but its own.
LEMMA QuitFacts ==
    ASSUME TypeOK, Faults = {}, NEW m \in Machines, Quit(m)
    PROVE  /\ BoardStays /\ \A k \in Machines : StaysAsIs(k)
           /\ UNCHANGED <<said, answers>>
           /\ \A h \in Machines : h # m => ~Lives(h)
           /\ Claimed(m) = Settle /\ Stage(m) = "idle"
           /\ m \in running /\ running' = running \ {m}
           /\ age'[m] = 0 /\ \A k \in Machines : k # m => age'[k] = age[k]
<1>1. /\ LeasesLive \ {m} = {} /\ ~(inbox[m].claimed < Settle) /\ round[m] = None
      /\ round' = [round EXCEPT ![m] = None] /\ inbox' = inbox /\ board' = board
  BY DEF Quit
<1>2. round' = round
  BY <1>1 DEF TypeOK
<1>3. \A h \in Machines : h # m => ~Lives(h)
  <2> SUFFICES ASSUME NEW h \in Machines, h # m, Lives(h) PROVE FALSE
    OBVIOUS
  <2>1. h \in LiveHolders(board[h])
    BY DEF LiveHolders, Lives, Left, LeftAt
  <2>2. h \in LeasesLive
    BY <2>1 DEF LeasesLive
  <2> QED BY <1>1, <2>2
<1>4. Stage(m) = "idle" /\ Claimed(m) = inbox[m].claimed
  BY <1>1 DEF Stage, Claimed, Copy
<1>5. Claimed(m) = Settle
  BY <1>1, <1>4, Vocabulary, TimesAssumption
<1> QED
  BY <1>1, <1>2, <1>3, <1>4, <1>5, AllStay, BoardStaying DEF Quit, TypeOK

Sooner(n) == IF n = Settle THEN n ELSE n + 1

\* Time passes for every note and for every claim.
LEMMA TickFacts ==
    ASSUME TypeOK, BoardInv, Faults = {}, Tick
    PROVE  /\ Sorted(board)'
           /\ \A k, h \in Machines : SeenTold(k, h)' = SeenTold(k, h)
                                     /\ Seen(k, h)' = Less(Seen(k, h))
           /\ \A k \in Machines :
                 /\ board'[k][k] = None <=> board[k][k] = None
                 /\ Left(k)' = Less(Left(k)) /\ Told(k)' = Told(k)
                 /\ Claimed(k)' = Sooner(Claimed(k)) /\ Read(k)' = Read(k)
                 /\ Copy(k)'.posted = Older(Copy(k).posted)
                 /\ Stage(k)' = Stage(k) /\ Batch(k)' = Batch(k)
                 /\ k \in running => age[k] = 0 /\ ~Claiming(k) /\ age'[k] = 1
                 /\ k \notin running => age'[k] = 0
           /\ UNCHANGED <<said, running, answers>>
<1>1. board \in Boards
  BY DEF TypeOK, Boards
<1> DEFINE o == [m \in Machines |-> [h \in Machines |-> Older(board[m][h])]]
<1>2. /\ o \in Boards /\ Sorted(o)
      /\ \A k, h \in Machines :
            /\ o[k][h] = None <=> board[k][h] = None
            /\ LeftAt(o, k, h) = Less(LeftAt(board, k, h))
            /\ ReadAt(o, k, h) = ReadAt(board, k, h)
  BY <1>1, OlderSorted DEF BoardInv
<1>3. board' = o
  BY DEF Tick
<1> HIDE DEF o
<1>4. /\ Sorted(board')
      /\ \A k, h \in Machines :
            /\ board'[k][h] = None <=> board[k][h] = None
            /\ LeftAt(board', k, h) = Less(LeftAt(board, k, h))
            /\ ReadAt(board', k, h) = ReadAt(board, k, h)
  BY <1>2, <1>3
<1>5. Sorted(board)'
  BY <1>4
<1>6. \A k, h \in Machines : SeenTold(k, h)' = SeenTold(k, h) /\ Seen(k, h)' = Less(Seen(k, h))
  BY <1>4 DEF Seen, SeenTold
<1>7. \A k \in Machines : Left(k)' = Less(Left(k)) /\ Told(k)' = Told(k)
  BY <1>4 DEF Left, Told
<1>8. ASSUME NEW k \in Machines
      PROVE  /\ Claimed(k)' = Sooner(Claimed(k)) /\ Read(k)' = Read(k)
             /\ Copy(k)'.posted = Older(Copy(k).posted)
             /\ Stage(k)' = Stage(k) /\ Batch(k)' = Batch(k)
  <2>1. inbox[k] \in Inbox /\ round[k] \in Round \union {None}
    BY DEF TypeOK
  <2>2. inbox'[k] = OlderInbox(inbox[k]) /\ round'[k] = OlderRound(round[k])
    BY DEF Tick
  <2>3. Copy(k)' = OlderInbox(Copy(k)) /\ Stage(k)' = Stage(k) /\ Batch(k)' = Batch(k)
    <3>1. CASE round[k] = None
      BY <2>2, <3>1 DEF Copy, Stage, Batch, OlderRound
    <3>2. CASE round[k] # None
      <4>1. round[k] \in Round
        BY <2>1, <3>2
      <4> DEFINE s == OlderRound(round[k])
      <4>2. s \in Round /\ s.at = round[k].at /\ s.batch = round[k].batch
        BY <4>1, OlderRoundFacts
      <4>3. s.inbox = OlderInbox(round[k].inbox)
        BY <3>2, <4>1 DEF OlderRound, Round
      <4> HIDE DEF s
      <4>4. s # None /\ round'[k] = s
        BY <2>2, <4>2, NoneIsNothing DEF s
      <4> QED BY <3>2, <4>2, <4>3, <4>4 DEF Copy, Stage, Batch
    <3> QED BY <3>1, <3>2
  <2>4. Copy(k) \in Inbox
    BY Vocabulary
  <2> DEFINE box == Copy(k)
  <2>5. /\ OlderInbox(box).cursor = box.cursor
        /\ OlderInbox(box).posted = Older(box.posted)
        /\ OlderInbox(box).claimed = Sooner(box.claimed)
    <3> HIDE DEF box
    <3>1. box \in Inbox
      BY <2>4 DEF box
    <3> QED BY <3>1 DEF OlderInbox, Inbox, Sooner
  <2>6. Claimed(k)' = Sooner(Claimed(k))
    BY <2>3, <2>5 DEF Claimed
  <2>7. Read(k)' = Read(k)
    BY <2>3, <2>5 DEF Read, OrEmpty
  <2> QED BY <2>3, <2>5, <2>6, <2>7
<1>9. ASSUME NEW k \in Machines
      PROVE  /\ k \in running => age[k] = 0 /\ ~Claiming(k) /\ age'[k] = 1
             /\ k \notin running => age'[k] = 0
  BY DEF Tick, At, Claiming, Stage
<1>10. UNCHANGED <<said, running, answers>>
  BY DEF Tick
<1> QED BY <1>4, <1>5, <1>6, <1>7, <1>8, <1>9, <1>10

-----------------------------------------------------------------------------
(* One voice: steps keep the invariant *)

\* A round begins.
LEMMA VoiceBegin ==
    ASSUME TypeOK, linked, LongEnough, OneVoice, NEW m \in Machines, Begin(m)
    PROVE  OneVoice'
<1>1. /\ Sorted(board)' /\ \A k \in Machines : board'[k][k] = None <=> board[k][k] = None
      /\ \A k \in Machines : Left(k)' = Left(k) /\ Told(k)' = Told(k)
      /\ \A k, h \in Machines : Seen(k, h)' = Left(h) /\ SeenTold(k, h)' = Told(h)
      /\ KeepsCopy(m) /\ OthersStay(m)
      /\ Stage(m) = "idle" /\ Stage(m)' = "deciding"
      /\ Batch(m) = {} /\ Batch(m)' = {}
      /\ m \in running /\ age'[m] = 0 /\ \A k \in Machines : k # m => age'[k] = age[k]
      /\ UNCHANGED <<said, running, answers>>
  BY BeginFacts DEF OneVoice, BoardInv
<1>2. \A k \in Machines :
         /\ k \in Nat /\ age[k] \in 0 .. 1
         /\ Claimed(k) \in Nat /\ Claimed(k) <= Settle
         /\ Read(k) \in Nat /\ Left(k) \in 0 .. TTL /\ Told(k) \in Nat
  BY Vocabulary
<1>3. \A k \in Machines :
         /\ Copy(k)' = Copy(k) /\ Claimed(k)' = Claimed(k) /\ Read(k)' = Read(k)
         /\ (Lives(k)' <=> Lives(k)) /\ Batch(k)' = Batch(k)
         /\ k # m => Stage(k)' = Stage(k)
  BY <1>1 DEF OthersStay, StaysAsIs, KeepsCopy, Lives
<1>4. /\ \A k \in Machines : Claiming(k)' <=> Claiming(k)
      /\ \A k \in Machines : Voice(k)' <=> Voice(k)
      /\ \A c : Covers(c) => \A k \in Machines : Told(k)' <= c
  BY <1>1, <1>3 DEF Claiming, Voice, Covers
<1>5. BoardInv'
  <2>1. MemoryInv'
    BY <1>1, <1>3 DEF OneVoice, BoardInv, MemoryInv
  <2>2. KnownInv'
    BY <1>1, <1>3, <1>4 DEF OneVoice, BoardInv, KnownInv
  <2>3. SaidInv'
    BY <1>1, <1>3 DEF OneVoice, BoardInv, SaidInv
  <2> QED BY <1>1, <2>1, <2>2, <2>3 DEF BoardInv
<1>6. LeaseInv'
  <2>1. RunInv'
    BY <1>1, <1>3 DEF OneVoice, LeaseInv, RunInv
  <2>2. ClaimInv'
    BY <1>1, <1>3, <1>4 DEF OneVoice, LeaseInv, ClaimInv, Claiming, Covers
  <2>3. \A k \in Machines : Firm(k) => Firm(k)'
    BY <1>1, <1>2, <1>3, TimesAssumption DEF Firm
  <2>4. FirmInv'
    BY <1>1, <1>3, <2>3 DEF OneVoice, LeaseInv, FirmInv
  <2>5. YoungInv'
    BY <1>1, <1>3 DEF OneVoice, LeaseInv, YoungInv
  <2>6. GoneInv'
    BY <1>1, <1>3, <1>4 DEF OneVoice, LeaseInv, GoneInv
  <2>7. ViewInv'
    BY <1>1 DEF ViewInv
  <2> QED BY <2>1, <2>2, <2>4, <2>5, <2>6, <2>7 DEF LeaseInv
<1>7. OnceInv'
  <2>1. VoiceInv'
    BY <1>3, <1>4 DEF OneVoice, OnceInv, VoiceInv
  <2>2. ReadingInv'
    BY <1>1, <1>3 DEF OneVoice, OnceInv, ReadingInv, Covers
  <2>3. BatchInv'
    BY <1>1, <1>3 DEF OneVoice, OnceInv, BatchInv
  <2>4. AnswerInv'
    BY <1>1 DEF OneVoice, OnceInv, AnswerInv
  <2>5. SeenInv'
    <3>1. \A h \in Machines : Told(h) <= Told(h)
      BY <1>2
    <3> QED BY <1>1, <3>1 DEF SeenInv
  <2>6. \A k \in Machines : Leader(k) => Leader(k)'
    BY <1>3, <1>4 DEF Leader
  <2>7. LeadInv'
    BY <1>1, <1>3, <2>6 DEF OneVoice, OnceInv, LeadInv, Covers
  <2> QED BY <2>1, <2>2, <2>3, <2>4, <2>5, <2>7 DEF OnceInv
<1> QED BY <1>5, <1>6, <1>7 DEF OneVoice

\* A dashboard that decides, waits or is idle has nothing in its hands.
LEMMA OnlyVoicesHold ==
    ASSUME IInv PROVE \A k \in Machines : ~Voice(k) => Batch(k) = {}
  BY DEF IInv, HandInv, InRound, Voice, Batch, Stage

\* A note another holds has no more time and no newer cursor than one's own.
LEMMA SeenIsOlder ==
    ASSUME TypeOK, Sorted(board)
    PROVE  \A k, h \in Machines : Seen(k, h) <= Left(h) /\ SeenTold(k, h) <= Told(h)
<1> SUFFICES ASSUME NEW k \in Machines, NEW h \in Machines
             PROVE  Seen(k, h) <= Left(h) /\ SeenTold(k, h) <= Told(h)
  OBVIOUS
<1>1. Left(h) \in 0 .. TTL /\ Told(h) \in Nat
  BY Vocabulary
<1>2. CASE board[k][h] = None
  BY <1>1, <1>2, TimesAssumption DEF Seen, SeenTold, LeftAt, ReadAt
<1>3. CASE board[k][h] # None
  <2>1. board[h][h] # None /\ board[k][h].left <= board[h][h].left
        /\ board[k][h].cursor <= board[h][h].cursor
    BY <1>3 DEF Sorted, Ordered
  <2> QED BY <1>3, <2>1 DEF Seen, SeenTold, Left, Told, LeftAt, ReadAt
<1> QED BY <1>2, <1>3

\* What is Firm lives, for two ticks more at least.
LEMMA FirmLives ==
    ASSUME TypeOK, LongEnough, NEW k \in Machines, Firm(k)
    PROVE  Lives(k) /\ Left(k) >= 2
<1>1. Left(k) \in 0 .. TTL /\ age[k] \in 0 .. 1
  BY Vocabulary
<1>2. Left(k) + age[k] >= 3
  BY <1>1, TimesAssumption DEF Firm, LongEnough
<1> QED BY <1>1, <1>2, TimesAssumption DEF Lives

\* A machine that lives and is not seen to has introduced itself only just now.
LEMMA UnseenIsYoung ==
    ASSUME TypeOK, LongEnough, ViewInv, NEW m \in Machines, NEW h \in Machines,
           h # m, Deciding(m), Lives(h), ~(Seen(m, h) > 0)
    PROVE  /\ Claimed(h) <= age[m] /\ Claimed(h) <= 1 /\ Claimed(h) < Settle
           /\ Lives(m) => Claimed(m) <= 1 /\ Claimed(m) < Settle
<1>1. /\ age[m] \in 0 .. 1 /\ Seen(m, h) \in 0 .. TTL /\ Left(h) \in 0 .. TTL
      /\ Claimed(h) \in Nat /\ Claimed(m) \in Nat /\ Left(h) > 0
  BY Vocabulary DEF Lives
<1>2. Seen(m, h) = 0
  BY <1>1, TimesAssumption
<1>3. /\ Claimed(h) <= age[m]
      /\ Lives(m) => Claimed(m) <= 1
  BY <1>1, <1>2, TimesAssumption DEF ViewInv
<1> QED BY <1>1, <1>3, TimesAssumption DEF LongEnough

\* A note that was decided on is posted.
LEMMA VoiceClaim ==
    ASSUME TypeOK, linked, LongEnough, OneVoice, NEW m \in Machines, Claim(m)
    PROVE  OneVoice'
<1>0. Claiming(m) /\ Covers(Read(m))
  BY DEF Claim, At, Claiming, Stage, OneVoice, LeaseInv, ClaimInv
<1>1. /\ OthersStay(m) /\ Batch(m)' = Batch(m) /\ UNCHANGED <<said, running, answers, age>>
      /\ Stage(m) = "claiming" /\ Stage(m)' = "over" /\ Posts(m)
  BY <1>0, ClaimFacts DEF OneVoice
<1>2. \A k \in Machines :
         /\ k \in Nat /\ age[k] \in 0 .. 1
         /\ Claimed(k) \in Nat /\ Claimed(k) <= Settle
         /\ Read(k) \in Nat /\ Left(k) \in 0 .. TTL /\ Told(k) \in Nat
         /\ \A h \in Machines : Seen(k, h) \in 0 .. TTL /\ SeenTold(k, h) \in Nat
  BY Vocabulary
<1>3. /\ \A k \in Machines : k # m =>
            /\ Copy(k)' = Copy(k) /\ Stage(k)' = Stage(k)
            /\ Left(k)' = Left(k) /\ Told(k)' = Told(k)
            /\ (Lives(k)' <=> Lives(k)) /\ (Claiming(k)' <=> Claiming(k))
            /\ (Voice(k)' <=> Voice(k)) /\ (Deciding(k)' <=> Deciding(k))
            /\ \A h \in Machines :
                  Seen(k, h)' = Seen(k, h) /\ SeenTold(k, h)' = SeenTold(k, h)
      /\ \A k \in Machines : /\ Claimed(k)' = Claimed(k) /\ Read(k)' = Read(k)
                             /\ Batch(k)' = Batch(k)
      /\ Left(m)' = TTL /\ Told(m)' = Read(m)
      /\ ~Claiming(m)' /\ ~Voice(m)' /\ ~Deciding(m)' /\ ~Voice(m)
  BY <1>1 DEF OthersStay, StaysAsIs, KeepsCopy, Posts, Lives, Claiming, Voice, Deciding
<1>4. Lives(m)' /\ TTL \in Nat /\ TTL > Refresh /\ Refresh \in Nat /\ Settle \in Nat
  BY <1>3, TimesAssumption DEF Lives
<1>5. m \in running
  BY <1>1 DEF OneVoice, LeaseInv, RunInv
<1>6. \A h \in Machines : Told(h) <= Read(m) /\ Told(h) <= Told(h)'
  BY <1>0, <1>2, <1>3 DEF Covers
<1>7. Read(m) = 0 \/ \E h \in Machines : Read(m) <= Told(h)
  BY <1>0 DEF OneVoice, LeaseInv, ClaimInv
<1>8. \A c \in Nat : Covers(c) => Covers(c)'
  BY <1>2, <1>3, <1>7 DEF Covers
<1>9. \A k \in Machines : ~Voice(k)
  BY <1>0, <1>3 DEF OneVoice, OnceInv, VoiceInv
<1>10. BoardInv'
  <2>1. MemoryInv'
    BY <1>1, <1>3 DEF OneVoice, BoardInv, MemoryInv, Posts
  <2>2. KnownInv'
    BY <1>3 DEF OneVoice, BoardInv, KnownInv
  <2>3. SaidInv'
    BY <1>1, <1>3 DEF OneVoice, BoardInv, SaidInv
  <2> QED BY <1>1, <2>1, <2>2, <2>3 DEF BoardInv, Posts
<1>11. LeaseInv'
  <2>1. RunInv'
    BY <1>1, <1>3, <1>5 DEF OneVoice, LeaseInv, RunInv
  <2>2. ClaimInv'
    <3> SUFFICES ASSUME NEW k \in Machines, k # m, Claiming(k)
                 PROVE  (/\ Covers(Read(k))
                         /\ Read(k) = 0 \/ \E h \in Machines : Read(k) <= Told(h)
                         /\ Lives(k) => Left(k) + age[k] >= Refresh /\ Claimed(k) < Settle
                         /\ ~Lives(k) => Claimed(k) = 0
                         /\ \A h \in Machines : h # k /\ Lives(h) /\ (Lives(k) => h < k) =>
                                Claimed(h) <= age[k])'
      BY <1>3 DEF ClaimInv
    <3>1. Covers(Read(k))'
      BY <1>2, <1>3, <1>8 DEF OneVoice, LeaseInv, ClaimInv, Covers
    <3>2. Read(k)' = 0 \/ \E h \in Machines : Read(k)' <= Told(h)'
      BY <1>2, <1>3, <1>6 DEF OneVoice, LeaseInv, ClaimInv
    <3>3. /\ Lives(k)' => (Left(k) + age[k] >= Refresh /\ Claimed(k) < Settle)'
          /\ ~Lives(k)' => Claimed(k)' = 0
      BY <1>1, <1>3 DEF OneVoice, LeaseInv, ClaimInv
    <3>4. ASSUME NEW h \in Machines, h # k, Lives(h)', Lives(k)' => h < k
          PROVE  Claimed(h)' <= age'[k]
      <4>1. CASE h # m \/ Lives(m)
        BY <1>1, <1>3, <3>4, <4>1 DEF OneVoice, LeaseInv, ClaimInv
      <4>2. CASE h = m /\ ~Lives(m)
        <5>1. Claimed(m) = 0
          BY <1>0, <4>2 DEF OneVoice, LeaseInv, ClaimInv
        <5> QED BY <1>1, <1>2, <1>3, <4>2, <5>1
      <4> QED BY <4>1, <4>2
    <3> QED BY <3>1, <3>2, <3>3, <3>4
  <2>3. Firm(m)'
    BY <1>1, <1>2, <1>3, <1>4, <1>5 DEF Firm
  <2>4. \A k \in Machines : Firm(k) => Firm(k)'
    BY <1>1, <1>3, <2>3 DEF Firm
  <2>5. FirmInv'
    BY <1>1, <1>3, <2>3, <2>4 DEF OneVoice, LeaseInv, FirmInv
  <2>6. YoungInv'
    BY <1>2, <1>3, <1>4 DEF OneVoice, LeaseInv, YoungInv
  <2>7. GoneInv'
    BY <1>0, <1>1, <1>3, <1>5 DEF OneVoice, LeaseInv, GoneInv
  <2>8. ViewInv'
    <3> SUFFICES ASSUME NEW k \in Machines, NEW h \in Machines, k # h,
                        Deciding(k)', Lives(h)'
                 PROVE  (\/ Seen(k, h) = Left(h)
                         \/ Seen(k, h) + age[k] >= 2
                         \/ /\ Claimed(h) <= age[k]
                            /\ Lives(k) => /\ Claimed(k) <= 1
                                           /\ Claimed(k) = 1 => age[h] = 1 \/ age[k] = 1)'
      BY DEF ViewInv
    <3>1. k # m /\ Deciding(k)
      BY <1>3
    <3>2. CASE h # m
      BY <1>1, <1>3, <3>1, <3>2 DEF OneVoice, LeaseInv, ViewInv
    <3>3. CASE h = m /\ Lives(m)
      <4>1. Left(m) >= 2
        <5>1. Left(m) + age[m] >= Refresh
          BY <1>0, <3>3 DEF OneVoice, LeaseInv, ClaimInv
        <5> QED BY <1>2, <1>4, <5>1 DEF LongEnough
      <4>2. \/ Seen(k, m) = Left(m)
            \/ Seen(k, m) + age[k] >= 2
            \/ /\ Claimed(m) <= age[k]
               /\ Lives(k) => /\ Claimed(k) <= 1
                              /\ Claimed(k) = 1 => age[m] = 1 \/ age[k] = 1
        BY <3>1, <3>3 DEF OneVoice, LeaseInv, ViewInv
      <4>3. Seen(k, m) = Left(m) => Seen(k, m) + age[k] >= 2
        BY <1>2, <1>4, <4>1
      <4> QED BY <1>1, <1>3, <3>1, <3>3, <4>2, <4>3
    <3>4. CASE h = m /\ ~Lives(m)
      <4>1. Claimed(m) = 0 /\ (Lives(k) => Claimed(k) <= age[m])
        BY <1>0, <3>1, <3>4 DEF OneVoice, LeaseInv, ClaimInv
      <4>2. Lives(k) => Claimed(k) <= 1 /\ (Claimed(k) = 1 => age[m] = 1)
        BY <1>2, <3>1, <4>1
      <4>3. Claimed(m) <= age[k]
        BY <1>2, <4>1
      <4> QED BY <1>1, <1>3, <3>1, <3>4, <4>2, <4>3
    <3> QED BY <3>2, <3>3, <3>4
  <2> QED BY <2>1, <2>2, <2>5, <2>6, <2>7, <2>8 DEF LeaseInv
<1>12. OnceInv'
  <2>1. VoiceInv'
    BY <1>3, <1>9 DEF VoiceInv
  <2>2. ReadingInv'
    BY <1>3, <1>9 DEF ReadingInv, Voice
  <2>3. BatchInv'
    BY <1>1, <1>3 DEF OneVoice, OnceInv, BatchInv
  <2>4. AnswerInv'
    <3>1. \A i \in Message : i \in Nat
      BY DEF Message
    <3> QED BY <1>1, <1>2, <1>3, <1>6, <3>1 DEF OneVoice, OnceInv, AnswerInv
  <2>5. SeenInv'
    <3> SUFFICES ASSUME NEW k \in Machines, Deciding(k)'
                 PROVE  (\/ \A h \in Machines : \E j \in Machines : Told(h) <= SeenTold(k, j)
                         \/ \E h \in Machines : /\ h # k /\ Seen(k, h) + age[k] >= 2
                                                /\ Lives(k) => h < k)'
      BY DEF SeenInv
    <3>1. k # m /\ Deciding(k)
      BY <1>3
    <3>2. CASE \A h \in Machines : \E j \in Machines : Told(h) <= SeenTold(k, j)
      <4>1. \E j \in Machines : Read(m) <= SeenTold(k, j)
        BY <1>2, <1>7, <3>2
      <4>2. \A h \in Machines : \E j \in Machines : Told(h)' <= SeenTold(k, j)
        BY <1>3, <3>2, <4>1
      <4> QED BY <1>3, <3>1, <4>2
    <3>3. CASE \E h \in Machines : /\ h # k /\ Seen(k, h) + age[k] >= 2
                                   /\ Lives(k) => h < k
      BY <1>1, <1>3, <3>1, <3>3
    <3> QED BY <3>1, <3>2, <3>3 DEF OneVoice, OnceInv, SeenInv
  <2>6. LeadInv'
    <3> SUFFICES ASSUME NEW k \in Machines, Lives(k)', Claimed(k)' < Settle
                 PROVE  Covers(Told(k))' \/ \E h \in Machines : h < k /\ Leader(h)'
      BY DEF LeadInv
    <3>1. CASE k = m
      BY <1>2, <1>3, <1>6, <3>1 DEF Covers
    <3>2. CASE k # m /\ Covers(Told(k))
      BY <1>2, <1>3, <1>8, <3>2 DEF Covers
    <3>3. CASE k # m /\ \E h \in Machines : h < k /\ Leader(h)
      <4>1. PICK h \in Machines : h < k /\ Leader(h)
        BY <3>3
      <4>2. Claimed(m) < Settle
        BY <1>0, <1>4 DEF OneVoice, LeaseInv, ClaimInv, LongEnough
      <4>3. h # m
        BY <1>2, <1>4, <4>1, <4>2 DEF Leader
      <4>4. ~(m < h)
        BY <1>0, <4>1 DEF Leader
      <4>5. Leader(h)'
        BY <1>3, <4>1, <4>3, <4>4 DEF Leader
      <4> QED BY <4>1, <4>5
    <3> QED BY <1>3, <3>1, <3>2, <3>3 DEF OneVoice, OnceInv, LeadInv
  <2> QED BY <2>1, <2>2, <2>3, <2>4, <2>5, <2>6 DEF OnceInv
<1> QED BY <1>10, <1>11, <1>12 DEF OneVoice

\* Of who reads nobody else is in the way: its lease is firm, and whoever
\* decides sees it.
LEMMA VoiceIsFirm ==
    ASSUME TypeOK, LongEnough, OneVoice, NEW m \in Machines, Voice(m),
           NEW k \in Machines, k # m
    PROVE  /\ Lives(m) /\ Claimed(m) = Settle /\ Firm(m) /\ Left(m) >= 2
           /\ ~Voice(k) /\ ~Claiming(k)
           /\ Lives(k) => m < k
           /\ Deciding(k) => Seen(k, m) + age[k] >= 2
           /\ k \in running \/ ~Lives(k)
<1>1. /\ Lives(m) /\ Claimed(m) = Settle /\ ~Voice(k) /\ ~Claiming(k)
      /\ k < m => ~Lives(k)
  BY DEF OneVoice, OnceInv, VoiceInv
<1>2. /\ m \in Nat /\ k \in Nat /\ age[k] \in 0 .. 1
      /\ Seen(k, m) \in 0 .. TTL /\ Left(m) \in 0 .. TTL
  BY Vocabulary
<1>3. m \in running
  BY DEF OneVoice, LeaseInv, RunInv, Voice
<1>4. ~ \E j \in Machines : j < m /\ Firm(j)
  <2> SUFFICES ASSUME NEW j \in Machines, j < m, Firm(j) PROVE FALSE
    OBVIOUS
  <2>1. Lives(j)
    BY FirmLives
  <2>2. j # m
    BY <1>2
  <2> QED BY <2>1, <2>2 DEF OneVoice, OnceInv, VoiceInv
<1>5. Firm(m)
  BY <1>1, <1>3, <1>4 DEF OneVoice, LeaseInv, FirmInv
<1>6. Left(m) >= 2
  BY <1>5, FirmLives
<1>7. Deciding(k) => Seen(k, m) + age[k] >= 2
  <2> SUFFICES ASSUME Deciding(k) PROVE Seen(k, m) + age[k] >= 2
    OBVIOUS
  <2>1. \/ Seen(k, m) = Left(m)
        \/ Seen(k, m) + age[k] >= 2
        \/ Claimed(m) <= age[k]
    BY <1>1 DEF OneVoice, LeaseInv, ViewInv
  <2> QED BY <1>1, <1>2, <1>6, <2>1, TimesAssumption DEF LongEnough
<1>8. k \in running \/ ~Lives(k)
  BY <1>1 DEF OneVoice, LeaseInv, GoneInv
<1> QED BY <1>1, <1>2, <1>5, <1>6, <1>7, <1>8

\* A lease is refreshed, or left as it is.
LEMMA VoiceRefresh ==
    ASSUME TypeOK, linked, LongEnough, OneVoice, NEW m \in Machines, RefreshLease(m)
    PROVE  OneVoice'
<1>0. Stage(m) = "refreshing" /\ Voice(m) /\ Covers(Read(m))
  BY DEF RefreshLease, At, Stage, Voice, OneVoice, OnceInv, ReadingInv
<1>1. /\ OthersStay(m) /\ Batch(m)' = Batch(m) /\ UNCHANGED <<said, running, answers, age>>
      /\ Stage(m) = "refreshing" /\ Stage(m)' = "answering"
      /\ \/ Posts(m)
         \/ BoardStays /\ KeepsCopy(m) /\ Told(m) = Read(m) /\ Left(m) > Refresh
  BY <1>0, RefreshFacts DEF OneVoice
<1>2. \A k \in Machines :
         /\ k \in Nat /\ age[k] \in 0 .. 1
         /\ Claimed(k) \in Nat /\ Claimed(k) <= Settle
         /\ Read(k) \in Nat /\ Left(k) \in 0 .. TTL /\ Told(k) \in Nat
         /\ \A h \in Machines : Seen(k, h) \in 0 .. TTL /\ SeenTold(k, h) \in Nat
  BY Vocabulary
<1>3. TTL \in Nat /\ TTL > Refresh /\ Refresh \in Nat /\ Settle \in Nat
  BY TimesAssumption
<1>4. m \in running
  BY <1>1 DEF OneVoice, LeaseInv, RunInv
<1>5. /\ \A k \in Machines : k # m =>
            /\ Copy(k)' = Copy(k) /\ Stage(k)' = Stage(k)
            /\ Claimed(k)' = Claimed(k) /\ Read(k)' = Read(k)
      /\ \A k \in Machines :
            /\ Batch(k)' = Batch(k)
            /\ (Claiming(k)' <=> Claiming(k))
            /\ (Voice(k)' <=> Voice(k)) /\ (Deciding(k)' <=> Deciding(k))
      /\ ~Claiming(m) /\ ~Deciding(m)
  BY <1>1 DEF OthersStay, StaysAsIs, KeepsCopy, Claiming, Voice, Deciding
<1>6. CASE BoardStays /\ KeepsCopy(m) /\ Told(m) = Read(m) /\ Left(m) > Refresh
  <2>1. \A k \in Machines :
           /\ Copy(k)' = Copy(k) /\ Claimed(k)' = Claimed(k) /\ Read(k)' = Read(k)
           /\ Left(k)' = Left(k) /\ Told(k)' = Told(k) /\ (Lives(k)' <=> Lives(k))
           /\ \A h \in Machines :
                 Seen(k, h)' = Seen(k, h) /\ SeenTold(k, h)' = SeenTold(k, h)
    BY <1>5, <1>6 DEF BoardStays, KeepsCopy, Lives
  <2>2. board' = board
    BY <1>6 DEF BoardStays
  <2>3. BoardInv'
    <3>1. Sorted(board)'
      BY <2>2 DEF OneVoice, BoardInv, Sorted, Ordered, Stamps, Notes
    <3>2. MemoryInv'
      BY <2>1, <2>2 DEF OneVoice, BoardInv, MemoryInv
    <3>3. KnownInv'
      BY <1>5, <1>6, <2>1 DEF OneVoice, BoardInv, KnownInv
    <3>4. SaidInv'
      BY <1>1, <2>1 DEF OneVoice, BoardInv, SaidInv
    <3> QED BY <3>1, <3>2, <3>3, <3>4 DEF BoardInv
  <2>4. LeaseInv'
    <3>1. RunInv'
      BY <1>1, <1>4, <1>5 DEF OneVoice, LeaseInv, RunInv
    <3>2. ClaimInv'
      BY <1>1, <1>5, <2>1 DEF OneVoice, LeaseInv, ClaimInv, Covers
    <3>3. Firm(m)'
      BY <1>1, <1>2, <1>3, <1>4, <1>6, <2>1 DEF Firm
    <3>4. \A k \in Machines : Firm(k) => Firm(k)'
      BY <1>1, <1>5, <2>1, <3>3 DEF Firm
    <3>5. FirmInv'
      BY <1>1, <2>1, <3>4 DEF OneVoice, LeaseInv, FirmInv
    <3>6. YoungInv'
      BY <2>1 DEF OneVoice, LeaseInv, YoungInv
    <3>7. GoneInv'
      BY <1>1, <1>5, <2>1 DEF OneVoice, LeaseInv, GoneInv
    <3>8. ViewInv'
      BY <1>1, <1>5, <2>1 DEF OneVoice, LeaseInv, ViewInv
    <3> QED BY <3>1, <3>2, <3>5, <3>6, <3>7, <3>8 DEF LeaseInv
  <2>5. OnceInv'
    <3>1. VoiceInv'
      BY <1>5, <2>1 DEF OneVoice, OnceInv, VoiceInv
    <3>2. ReadingInv'
      BY <1>1, <1>5, <2>1 DEF OneVoice, OnceInv, ReadingInv, Covers
    <3>3. BatchInv'
      BY <1>1, <1>5, <2>1 DEF OneVoice, OnceInv, BatchInv
    <3>4. AnswerInv'
      BY <1>1, <2>1 DEF OneVoice, OnceInv, AnswerInv
    <3>5. SeenInv'
      BY <1>1, <1>5, <2>1 DEF OneVoice, OnceInv, SeenInv
    <3>6. LeadInv'
      BY <1>5, <2>1 DEF OneVoice, OnceInv, LeadInv, Leader, Covers
    <3> QED BY <3>1, <3>2, <3>3, <3>4, <3>5, <3>6 DEF OnceInv
  <2> QED BY <2>3, <2>4, <2>5 DEF OneVoice
<1>7. CASE Posts(m)
  <2>1. /\ \A k \in Machines : k # m =>
              /\ Left(k)' = Left(k) /\ Told(k)' = Told(k) /\ (Lives(k)' <=> Lives(k))
              /\ \A h \in Machines :
                    Seen(k, h)' = Seen(k, h) /\ SeenTold(k, h)' = SeenTold(k, h)
        /\ \A k \in Machines : Claimed(k)' = Claimed(k) /\ Read(k)' = Read(k)
        /\ Left(m)' = TTL /\ Told(m)' = Read(m) /\ Lives(m)'
    BY <1>3, <1>5, <1>7 DEF Posts, Lives
  <2>2. \A k \in Machines : k # m =>
           /\ Lives(m) /\ Claimed(m) = Settle /\ ~Voice(k) /\ ~Claiming(k)
           /\ Lives(k) => m < k
           /\ Deciding(k) => Seen(k, m) + age[k] >= 2
           /\ k \in running \/ ~Lives(k)
    BY <1>0, VoiceIsFirm
  <2>3. \A h \in Machines : Told(h) <= Read(m) /\ Told(h) <= Told(h)'
    BY <1>0, <1>2, <2>1 DEF Covers
  <2>4. BoardInv'
    <3>1. MemoryInv'
      BY <1>5, <1>7, <2>1 DEF OneVoice, BoardInv, MemoryInv, Posts
    <3>2. KnownInv'
      BY <1>5, <2>1 DEF OneVoice, BoardInv, KnownInv
    <3>3. SaidInv'
      BY <1>1, <2>1 DEF OneVoice, BoardInv, SaidInv
    <3> QED BY <1>7, <3>1, <3>2, <3>3 DEF BoardInv, Posts
  <2>5. LeaseInv'
    <3>1. RunInv'
      BY <1>1, <1>4, <1>5 DEF OneVoice, LeaseInv, RunInv
    <3>2. ClaimInv'
      BY <1>5, <2>2 DEF ClaimInv
    <3>3. Firm(m)'
      BY <1>1, <1>2, <1>3, <1>4, <2>1 DEF Firm
    <3>4. \A k \in Machines : Firm(k) => Firm(k)'
      BY <1>1, <1>5, <2>1, <3>3 DEF Firm
    <3>5. FirmInv'
      BY <1>1, <2>1, <3>3, <3>4 DEF OneVoice, LeaseInv, FirmInv
    <3>6. YoungInv'
      BY <1>2, <1>3, <2>1 DEF OneVoice, LeaseInv, YoungInv
    <3>7. GoneInv'
      BY <1>1, <1>4, <2>1, <2>2 DEF GoneInv
    <3>8. ViewInv'
      BY <1>1, <1>5, <2>1, <2>2 DEF OneVoice, LeaseInv, ViewInv
    <3> QED BY <3>1, <3>2, <3>5, <3>6, <3>7, <3>8 DEF LeaseInv
  <2>6. OnceInv'
    <3>1. VoiceInv'
      BY <1>2, <1>5, <2>1, <2>2 DEF VoiceInv
    <3>2. ReadingInv'
      BY <1>1, <1>5, <2>2 DEF ReadingInv, Voice
    <3>3. BatchInv'
      BY <1>1, <1>5, <2>1 DEF OneVoice, OnceInv, BatchInv
    <3>4. AnswerInv'
      <4>1. \A i \in Message : i \in Nat
        BY DEF Message
      <4> QED BY <1>1, <1>2, <2>1, <2>3, <4>1 DEF OneVoice, OnceInv, AnswerInv
    <3>5. SeenInv'
      BY <1>1, <1>5, <2>1, <2>2 DEF SeenInv
    <3>6. LeadInv'
      <4> SUFFICES ASSUME NEW k \in Machines, Lives(k)'
                   PROVE  Covers(Told(k))' \/ \E h \in Machines : h < k /\ Leader(h)'
        BY DEF LeadInv
      <4>1. CASE k = m
        BY <1>2, <2>1, <2>3, <4>1 DEF Covers
      <4>2. CASE k # m
        <5>1. m < k
          BY <2>1, <2>2, <4>2
        <5>2. Leader(m)'
          BY <1>2, <1>5, <2>1, <2>2, <4>2 DEF Leader
        <5> QED BY <5>1, <5>2
      <4> QED BY <4>1, <4>2
    <3> QED BY <3>1, <3>2, <3>3, <3>4, <3>5, <3>6 DEF OnceInv
  <2> QED BY <2>4, <2>5, <2>6 DEF OneVoice
<1> QED BY <1>1, <1>6, <1>7

\* The chat is read to its end.
LEMMA VoiceRead ==
    ASSUME TypeOK, linked, LongEnough, OneVoice, NEW m \in Machines, ReadChat(m)
    PROVE  OneVoice'
<1>1. /\ BoardStays /\ OthersStay(m) /\ UNCHANGED <<said, running, answers, age>>
      /\ Stage(m) = "reading" /\ Stage(m)' = "refreshing"
      /\ Copy(m)'.posted = Copy(m).posted
      /\ Claimed(m)' = Claimed(m) /\ Read(m)' = said
      /\ Batch(m)' = {i \in 1 .. said : i > Read(m)}
  BY ReadFacts
<1>2. \A k \in Machines :
         /\ k \in Nat /\ age[k] \in 0 .. 1
         /\ Claimed(k) \in Nat /\ Claimed(k) <= Settle
         /\ Read(k) \in Nat /\ Left(k) \in 0 .. TTL /\ Told(k) \in Nat
  BY Vocabulary
<1>3. /\ \A k \in Machines : k # m =>
            Stage(k)' = Stage(k) /\ Read(k)' = Read(k) /\ Batch(k)' = Batch(k)
      /\ \A k \in Machines :
            /\ Copy(k)'.posted = Copy(k).posted /\ Claimed(k)' = Claimed(k)
            /\ Left(k)' = Left(k) /\ Told(k)' = Told(k) /\ (Lives(k)' <=> Lives(k))
            /\ (Claiming(k)' <=> Claiming(k))
            /\ (Voice(k)' <=> Voice(k)) /\ (Deciding(k)' <=> Deciding(k))
            /\ \A h \in Machines :
                  Seen(k, h)' = Seen(k, h) /\ SeenTold(k, h)' = SeenTold(k, h)
      /\ ~Claiming(m)
  BY <1>1 DEF OthersStay, StaysAsIs, KeepsCopy, BoardStays, Lives, Claiming, Voice, Deciding
<1>4. board' = board
  BY <1>1 DEF BoardStays
<1>5. said \in Nat
  BY BoundsAssumption DEF TypeOK
<1>6. BoardInv'
  <2>1. Sorted(board)'
    BY <1>4 DEF OneVoice, BoardInv, Sorted, Ordered, Stamps, Notes
  <2>2. MemoryInv'
    BY <1>3, <1>4 DEF OneVoice, BoardInv, MemoryInv
  <2>3. KnownInv'
    BY <1>1, <1>3 DEF OneVoice, BoardInv, KnownInv
  <2>4. SaidInv'
    BY <1>1, <1>3, <1>5 DEF OneVoice, BoardInv, SaidInv
  <2> QED BY <2>1, <2>2, <2>3, <2>4 DEF BoardInv
<1>7. LeaseInv'
  <2>1. RunInv'
    BY <1>1, <1>3 DEF OneVoice, LeaseInv, RunInv
  <2>2. ClaimInv'
    BY <1>1, <1>3 DEF OneVoice, LeaseInv, ClaimInv, Covers
  <2>3. \A k \in Machines : Firm(k) => Firm(k)'
    BY <1>1, <1>3 DEF Firm
  <2>4. FirmInv'
    BY <1>1, <1>3, <2>3 DEF OneVoice, LeaseInv, FirmInv
  <2>5. YoungInv'
    BY <1>3 DEF OneVoice, LeaseInv, YoungInv
  <2>6. GoneInv'
    BY <1>1, <1>3 DEF OneVoice, LeaseInv, GoneInv
  <2>7. ViewInv'
    BY <1>1, <1>3 DEF OneVoice, LeaseInv, ViewInv
  <2> QED BY <2>1, <2>2, <2>4, <2>5, <2>6, <2>7 DEF LeaseInv
<1>8. OnceInv'
  <2>1. VoiceInv'
    BY <1>3 DEF OneVoice, OnceInv, VoiceInv
  <2>2. ReadingInv'
    <3>1. Covers(said)'
      BY <1>1, <1>3 DEF OneVoice, BoardInv, SaidInv, Covers
    <3> QED BY <1>1, <1>3, <3>1 DEF OneVoice, OnceInv, ReadingInv, Covers
  <2>3. BatchInv'
    <3>1. ASSUME NEW i \in 1 .. said, i > Read(m) PROVE answers[i] = 0 /\ i <= said
      <4>1. Covers(Read(m))
        BY <1>1 DEF OneVoice, OnceInv, ReadingInv
      <4>2. ~ \E h \in Machines : i <= Told(h)
        BY <1>2, <1>5, <3>1, <4>1 DEF Covers
      <4>3. i \in Message
        BY <1>5, BoundsAssumption DEF TypeOK, Message
      <4>4. ~(answers[i] > 0)
        BY <4>2, <4>3 DEF OneVoice, OnceInv, AnswerInv
      <4> QED BY <1>5, <4>3, <4>4 DEF TypeOK
    <3> QED BY <1>1, <1>3, <3>1 DEF OneVoice, OnceInv, BatchInv
  <2>4. AnswerInv'
    BY <1>1, <1>3 DEF OneVoice, OnceInv, AnswerInv
  <2>5. SeenInv'
    BY <1>1, <1>3 DEF OneVoice, OnceInv, SeenInv
  <2>6. LeadInv'
    BY <1>3 DEF OneVoice, OnceInv, LeadInv, Leader, Covers
  <2> QED BY <2>1, <2>2, <2>3, <2>4, <2>5, <2>6 DEF OnceInv
<1> QED BY <1>6, <1>7, <1>8 DEF OneVoice

\* A message of the batch is dealt with.
LEMMA VoiceAbsorb ==
    ASSUME IInv, linked, LongEnough, OneVoice, NEW m \in Machines, Absorb(m)
    PROVE  OneVoice'
<1>0. TypeOK
  BY DEF IInv
<1>1. /\ BoardStays /\ OthersStay(m) /\ UNCHANGED <<said, running, age>>
      /\ Stage(m) = "answering" /\ Stage(m)' = "answering"
      /\ Copy(m)'.posted = Copy(m).posted
      /\ Claimed(m)' = Claimed(m) /\ Read(m)' = Read(m)
  BY <1>0, AbsorbFacts
<1>2. PICK i \in Batch(m) :
         /\ Batch(m)' = Batch(m) \ {i}
         /\ answers' = answers \/ answers' = [answers EXCEPT ![i] = @ + 1]
  BY <1>0, AbsorbFacts
<1>3. \A k \in Machines :
         /\ Stage(k)' = Stage(k) /\ Read(k)' = Read(k) /\ Claimed(k)' = Claimed(k)
         /\ Copy(k)'.posted = Copy(k).posted
         /\ k # m => Batch(k)' = Batch(k)
         /\ Left(k)' = Left(k) /\ Told(k)' = Told(k) /\ (Lives(k)' <=> Lives(k))
         /\ (Claiming(k)' <=> Claiming(k))
         /\ (Voice(k)' <=> Voice(k)) /\ (Deciding(k)' <=> Deciding(k))
         /\ \A h \in Machines :
               Seen(k, h)' = Seen(k, h) /\ SeenTold(k, h)' = SeenTold(k, h)
  BY <1>1 DEF OthersStay, StaysAsIs, KeepsCopy, BoardStays, Lives, Claiming, Voice, Deciding
<1>4. board' = board /\ ~Claiming(m) /\ Voice(m)
  BY <1>1 DEF BoardStays, Claiming, Voice
<1>5. BoardInv'
  <2>1. Sorted(board)'
    BY <1>4 DEF OneVoice, BoardInv, Sorted, Ordered, Stamps, Notes
  <2>2. MemoryInv'
    BY <1>3, <1>4 DEF OneVoice, BoardInv, MemoryInv
  <2>3. KnownInv'
    BY <1>3 DEF OneVoice, BoardInv, KnownInv
  <2>4. SaidInv'
    BY <1>1, <1>3 DEF OneVoice, BoardInv, SaidInv
  <2> QED BY <2>1, <2>2, <2>3, <2>4 DEF BoardInv
<1>6. LeaseInv'
  <2>1. RunInv'
    BY <1>1, <1>3 DEF OneVoice, LeaseInv, RunInv
  <2>2. ClaimInv'
    BY <1>1, <1>3 DEF OneVoice, LeaseInv, ClaimInv, Covers
  <2>3. \A k \in Machines : Firm(k)' <=> Firm(k)
    BY <1>1, <1>3 DEF Firm
  <2>4. FirmInv'
    BY <1>1, <1>3, <2>3 DEF OneVoice, LeaseInv, FirmInv
  <2>5. YoungInv'
    BY <1>3 DEF OneVoice, LeaseInv, YoungInv
  <2>6. GoneInv'
    BY <1>1, <1>3 DEF OneVoice, LeaseInv, GoneInv
  <2>7. ViewInv'
    BY <1>1, <1>3 DEF OneVoice, LeaseInv, ViewInv
  <2> QED BY <2>1, <2>2, <2>4, <2>5, <2>6, <2>7 DEF LeaseInv
<1>7. OnceInv'
  <2>1. VoiceInv'
    BY <1>3 DEF OneVoice, OnceInv, VoiceInv
  <2>2. ReadingInv'
    BY <1>1, <1>3 DEF OneVoice, OnceInv, ReadingInv, Covers
  <2>3. \A k \in Machines : k # m => Batch(k) = {}
    BY <1>4, OnlyVoicesHold DEF OneVoice, OnceInv, VoiceInv
  <2>4. i \in Message /\ answers[i] = 0 /\ i <= Read(m) /\ answers \in [Message -> Nat]
    BY <1>0, <1>2, Vocabulary DEF OneVoice, OnceInv, BatchInv, TypeOK
  <2>5. \A j \in Message : j # i => answers'[j] = answers[j]
    BY <1>2, <2>4
  <2>6. answers'[i] = 0 \/ answers'[i] = 1
    BY <1>2, <2>4
  <2>7. BatchInv'
    <3>1. Batch(m) \subseteq Message
      BY <1>0, Vocabulary
    <3> QED BY <1>2, <1>3, <2>3, <2>5, <3>1 DEF OneVoice, OnceInv, BatchInv
  <2>8. AnswerInv'
    <3>1. Read(m) = Told(m)
      BY <1>1, <1>4 DEF OneVoice, BoardInv, KnownInv
    <3>2. i <= Told(m)'
      BY <1>3, <2>4, <3>1
    <3>3. ASSUME NEW j \in Message, answers'[j] > 0
          PROVE  answers'[j] = 1 /\ \E h \in Machines : j <= Told(h)'
      <4>1. CASE j = i
        BY <2>6, <3>2, <3>3, <4>1
      <4>2. CASE j # i
        BY <1>3, <2>5, <3>3, <4>2 DEF OneVoice, OnceInv, AnswerInv
      <4> QED BY <4>1, <4>2
    <3> QED BY <3>3 DEF AnswerInv
  <2>9. SeenInv'
    BY <1>1, <1>3 DEF OneVoice, OnceInv, SeenInv
  <2>10. LeadInv'
    BY <1>3 DEF OneVoice, OnceInv, LeadInv, Leader, Covers
  <2> QED BY <2>1, <2>2, <2>7, <2>8, <2>9, <2>10 DEF OnceInv
<1> QED BY <1>5, <1>6, <1>7 DEF OneVoice

\* A round is over.
LEMMA VoiceFinish ==
    ASSUME TypeOK, linked, LongEnough, OneVoice, NEW m \in Machines, Finish(m)
    PROVE  OneVoice'
<1>1. /\ BoardStays /\ OthersStay(m) /\ UNCHANGED <<said, running, answers, age>>
      /\ Stage(m) \in {"over", "answering"} /\ Stage(m)' = "idle"
      /\ KeepsCopy(m) /\ Batch(m)' = {}
  BY FinishFacts
<1>2. /\ \A k \in Machines : k # m => Stage(k)' = Stage(k) /\ Batch(k)' = Batch(k)
      /\ \A k \in Machines :
            /\ Copy(k)' = Copy(k) /\ Claimed(k)' = Claimed(k) /\ Read(k)' = Read(k)
            /\ Left(k)' = Left(k) /\ Told(k)' = Told(k) /\ (Lives(k)' <=> Lives(k))
            /\ (Claiming(k)' <=> Claiming(k)) /\ (Deciding(k)' <=> Deciding(k))
            /\ Voice(k)' => Voice(k)
            /\ \A h \in Machines :
                  Seen(k, h)' = Seen(k, h) /\ SeenTold(k, h)' = SeenTold(k, h)
      /\ ~Claiming(m)
  BY <1>1 DEF OthersStay, StaysAsIs, KeepsCopy, BoardStays, Lives, Claiming, Voice, Deciding
<1>3. board' = board
  BY <1>1 DEF BoardStays
<1>4. BoardInv'
  <2>1. Sorted(board)'
    BY <1>3 DEF OneVoice, BoardInv, Sorted, Ordered, Stamps, Notes
  <2>2. MemoryInv'
    BY <1>2, <1>3 DEF OneVoice, BoardInv, MemoryInv
  <2>3. KnownInv'
    BY <1>1, <1>2 DEF OneVoice, BoardInv, KnownInv
  <2>4. SaidInv'
    BY <1>1, <1>2 DEF OneVoice, BoardInv, SaidInv
  <2> QED BY <2>1, <2>2, <2>3, <2>4 DEF BoardInv
<1>5. LeaseInv'
  <2>1. RunInv'
    BY <1>1, <1>2 DEF OneVoice, LeaseInv, RunInv
  <2>2. ClaimInv'
    BY <1>1, <1>2 DEF OneVoice, LeaseInv, ClaimInv, Covers
  <2>3. \A k \in Machines : Firm(k) => Firm(k)'
    BY <1>1, <1>2 DEF Firm
  <2>4. FirmInv'
    BY <1>1, <1>2, <2>3 DEF OneVoice, LeaseInv, FirmInv
  <2>5. YoungInv'
    BY <1>2 DEF OneVoice, LeaseInv, YoungInv
  <2>6. GoneInv'
    BY <1>1, <1>2 DEF OneVoice, LeaseInv, GoneInv
  <2>7. ViewInv'
    BY <1>1, <1>2 DEF OneVoice, LeaseInv, ViewInv
  <2> QED BY <2>1, <2>2, <2>4, <2>5, <2>6, <2>7 DEF LeaseInv
<1>6. OnceInv'
  <2>1. VoiceInv'
    BY <1>2 DEF OneVoice, OnceInv, VoiceInv
  <2>2. ReadingInv'
    BY <1>1, <1>2 DEF OneVoice, OnceInv, ReadingInv, Covers
  <2>3. BatchInv'
    BY <1>1, <1>2 DEF OneVoice, OnceInv, BatchInv
  <2>4. AnswerInv'
    BY <1>1, <1>2 DEF OneVoice, OnceInv, AnswerInv
  <2>5. SeenInv'
    BY <1>1, <1>2 DEF OneVoice, OnceInv, SeenInv
  <2>6. LeadInv'
    BY <1>2 DEF OneVoice, OnceInv, LeadInv, Leader, Covers
  <2> QED BY <2>1, <2>2, <2>3, <2>4, <2>5, <2>6 DEF OnceInv
<1> QED BY <1>4, <1>5, <1>6 DEF OneVoice

\* The person says something.
LEMMA VoiceSay ==
    ASSUME TypeOK, OneVoice, Say
    PROVE  OneVoice'
<1>1. board' = board /\ round' = round /\ inbox' = inbox
      /\ UNCHANGED <<running, answers, age>> /\ said' = said + 1
  BY DEF Say
<1>2. BoardStays /\ \A k \in Machines : StaysAsIs(k)
  BY <1>1, AllStay, BoardStaying
<1>3. \A k \in Machines :
         /\ Copy(k)' = Copy(k) /\ Claimed(k)' = Claimed(k) /\ Read(k)' = Read(k)
         /\ Stage(k)' = Stage(k) /\ Batch(k)' = Batch(k)
         /\ Left(k)' = Left(k) /\ Told(k)' = Told(k) /\ (Lives(k)' <=> Lives(k))
         /\ (Claiming(k)' <=> Claiming(k)) /\ (Deciding(k)' <=> Deciding(k))
         /\ (Voice(k)' <=> Voice(k))
         /\ Read(k) \in Nat /\ Told(k) \in Nat
         /\ \A h \in Machines :
               Seen(k, h)' = Seen(k, h) /\ SeenTold(k, h)' = SeenTold(k, h)
  BY <1>2, Vocabulary
     DEF StaysAsIs, KeepsCopy, BoardStays, Lives, Claiming, Voice, Deciding
<1>4. said \in Nat
  BY DEF TypeOK
<1>5. BoardInv'
  <2>1. Sorted(board)'
    BY <1>1 DEF OneVoice, BoardInv, Sorted, Ordered, Stamps, Notes
  <2>2. MemoryInv'
    BY <1>1, <1>3 DEF OneVoice, BoardInv, MemoryInv
  <2>3. KnownInv'
    BY <1>3 DEF OneVoice, BoardInv, KnownInv
  <2>4. SaidInv'
    BY <1>1, <1>3, <1>4 DEF OneVoice, BoardInv, SaidInv
  <2> QED BY <2>1, <2>2, <2>3, <2>4 DEF BoardInv
<1>6. LeaseInv'
  <2>1. RunInv'
    BY <1>1, <1>3 DEF OneVoice, LeaseInv, RunInv
  <2>2. ClaimInv'
    BY <1>1, <1>3 DEF OneVoice, LeaseInv, ClaimInv, Covers
  <2>3. \A k \in Machines : Firm(k)' <=> Firm(k)
    BY <1>1, <1>3 DEF Firm
  <2>4. FirmInv'
    BY <1>1, <1>3, <2>3 DEF OneVoice, LeaseInv, FirmInv
  <2>5. YoungInv'
    BY <1>3 DEF OneVoice, LeaseInv, YoungInv
  <2>6. GoneInv'
    BY <1>1, <1>3 DEF OneVoice, LeaseInv, GoneInv
  <2>7. ViewInv'
    BY <1>1, <1>3 DEF OneVoice, LeaseInv, ViewInv
  <2> QED BY <2>1, <2>2, <2>4, <2>5, <2>6, <2>7 DEF LeaseInv
<1>7. OnceInv'
  <2>1. VoiceInv'
    BY <1>3 DEF OneVoice, OnceInv, VoiceInv
  <2>2. ReadingInv'
    BY <1>3 DEF OneVoice, OnceInv, ReadingInv, Covers
  <2>3. BatchInv'
    BY <1>1, <1>3 DEF OneVoice, OnceInv, BatchInv
  <2>4. AnswerInv'
    BY <1>1, <1>3 DEF OneVoice, OnceInv, AnswerInv
  <2>5. SeenInv'
    BY <1>1, <1>3 DEF OneVoice, OnceInv, SeenInv
  <2>6. LeadInv'
    BY <1>3 DEF OneVoice, OnceInv, LeadInv, Leader, Covers
  <2> QED BY <2>1, <2>2, <2>3, <2>4, <2>5, <2>6 DEF OnceInv
<1> QED BY <1>5, <1>6, <1>7 DEF OneVoice

\* A dashboard is started.
LEMMA VoiceStart ==
    ASSUME TypeOK, Faults = {}, OneVoice, NEW m \in Machines, Start(m)
    PROVE  OneVoice'
<1>1. /\ BoardStays /\ \A k \in Machines : StaysAsIs(k)
      /\ UNCHANGED <<said, answers>> /\ ~Lives(m)
      /\ m \notin running /\ running' = running \union {m}
      /\ age'[m] = 0 /\ \A k \in Machines : k # m => age'[k] = age[k]
  BY StartFacts
<1>2. Stage(m) = "idle"
  BY <1>1 DEF OneVoice, LeaseInv, RunInv
<1>3. /\ \A k \in Machines :
            /\ Copy(k)' = Copy(k) /\ Claimed(k)' = Claimed(k) /\ Read(k)' = Read(k)
            /\ Stage(k)' = Stage(k) /\ Batch(k)' = Batch(k)
            /\ Left(k)' = Left(k) /\ Told(k)' = Told(k) /\ (Lives(k)' <=> Lives(k))
            /\ (Claiming(k)' <=> Claiming(k)) /\ (Deciding(k)' <=> Deciding(k))
            /\ (Voice(k)' <=> Voice(k))
            /\ \A h \in Machines :
                  Seen(k, h)' = Seen(k, h) /\ SeenTold(k, h)' = SeenTold(k, h)
      /\ board' = board /\ ~Deciding(m) /\ ~Claiming(m)
  BY <1>1, <1>2 DEF StaysAsIs, KeepsCopy, BoardStays, Lives, Claiming, Voice, Deciding
<1>4. BoardInv'
  <2>1. Sorted(board)'
    BY <1>3 DEF OneVoice, BoardInv, Sorted, Ordered, Stamps, Notes
  <2>2. MemoryInv'
    BY <1>3 DEF OneVoice, BoardInv, MemoryInv
  <2>3. KnownInv'
    BY <1>3 DEF OneVoice, BoardInv, KnownInv
  <2>4. SaidInv'
    BY <1>1, <1>3 DEF OneVoice, BoardInv, SaidInv
  <2> QED BY <2>1, <2>2, <2>3, <2>4 DEF BoardInv
<1>5. LeaseInv'
  <2>1. RunInv'
    BY <1>1, <1>3 DEF OneVoice, LeaseInv, RunInv
  <2>2. ClaimInv'
    <3> SUFFICES ASSUME NEW k \in Machines, Claiming(k)
                 PROVE  (/\ Covers(Read(k))
                         /\ Read(k) = 0 \/ \E h \in Machines : Read(k) <= Told(h)
                         /\ Lives(k) => Left(k) + age[k] >= Refresh /\ Claimed(k) < Settle
                         /\ ~Lives(k) => Claimed(k) = 0
                         /\ \A h \in Machines : h # k /\ Lives(h) /\ (Lives(k) => h < k) =>
                                Claimed(h) <= age[k])'
      BY <1>3 DEF ClaimInv
    <3>1. age'[k] = age[k]
      BY <1>1, <1>3
    <3> QED BY <1>3, <3>1 DEF OneVoice, LeaseInv, ClaimInv, Covers
  <2>3. \A k \in Machines : Firm(k) => Firm(k)'
    BY <1>1, <1>3 DEF Firm
  <2>4. FirmInv'
    BY <1>1, <1>3, <2>3 DEF OneVoice, LeaseInv, FirmInv
  <2>5. YoungInv'
    BY <1>3 DEF OneVoice, LeaseInv, YoungInv
  <2>6. GoneInv'
    BY <1>1, <1>3 DEF OneVoice, LeaseInv, GoneInv
  <2>7. ViewInv'
    <3> SUFFICES ASSUME NEW k \in Machines, NEW h \in Machines, k # h,
                        Deciding(k)', Lives(h)'
                 PROVE  (\/ Seen(k, h) = Left(h)
                         \/ Seen(k, h) + age[k] >= 2
                         \/ /\ Claimed(h) <= age[k]
                            /\ Lives(k) => /\ Claimed(k) <= 1
                                           /\ Claimed(k) = 1 => age[h] = 1 \/ age[k] = 1)'
      BY DEF ViewInv
    <3>1. Deciding(k) /\ Lives(h) /\ age'[k] = age[k] /\ age'[h] = age[h]
      BY <1>1, <1>3
    <3> QED BY <1>3, <3>1 DEF OneVoice, LeaseInv, ViewInv
  <2> QED BY <2>1, <2>2, <2>4, <2>5, <2>6, <2>7 DEF LeaseInv
<1>6. OnceInv'
  <2>1. VoiceInv'
    BY <1>3 DEF OneVoice, OnceInv, VoiceInv
  <2>2. ReadingInv'
    BY <1>3 DEF OneVoice, OnceInv, ReadingInv, Covers
  <2>3. BatchInv'
    BY <1>1, <1>3 DEF OneVoice, OnceInv, BatchInv
  <2>4. AnswerInv'
    BY <1>1, <1>3 DEF OneVoice, OnceInv, AnswerInv
  <2>5. SeenInv'
    BY <1>1, <1>3 DEF OneVoice, OnceInv, SeenInv
  <2>6. LeadInv'
    BY <1>3 DEF OneVoice, OnceInv, LeadInv, Leader, Covers
  <2> QED BY <2>1, <2>2, <2>3, <2>4, <2>5, <2>6 DEF OnceInv
<1> QED BY <1>4, <1>5, <1>6 DEF OneVoice

\* A dashboard is closed, alone with its lease if it has one.
LEMMA VoiceQuit ==
    ASSUME TypeOK, Faults = {}, LongEnough, OneVoice, NEW m \in Machines, Quit(m)
    PROVE  OneVoice'
<1>1. /\ BoardStays /\ \A k \in Machines : StaysAsIs(k)
      /\ UNCHANGED <<said, answers>>
      /\ \A h \in Machines : h # m => ~Lives(h)
      /\ Claimed(m) = Settle /\ Stage(m) = "idle"
      /\ m \in running /\ running' = running \ {m}
      /\ age'[m] = 0 /\ \A k \in Machines : k # m => age'[k] = age[k]
  BY QuitFacts
<1>2. /\ \A k \in Machines :
            /\ Copy(k)' = Copy(k) /\ Claimed(k)' = Claimed(k) /\ Read(k)' = Read(k)
            /\ Stage(k)' = Stage(k) /\ Batch(k)' = Batch(k)
            /\ Left(k)' = Left(k) /\ Told(k)' = Told(k) /\ (Lives(k)' <=> Lives(k))
            /\ (Claiming(k)' <=> Claiming(k)) /\ (Deciding(k)' <=> Deciding(k))
            /\ (Voice(k)' <=> Voice(k))
            /\ \A h \in Machines :
                  Seen(k, h)' = Seen(k, h) /\ SeenTold(k, h)' = SeenTold(k, h)
      /\ board' = board /\ ~Deciding(m) /\ ~Claiming(m)
  BY <1>1 DEF StaysAsIs, KeepsCopy, BoardStays, Lives, Claiming, Voice, Deciding
<1>3. \A k \in Machines : age[k] \in 0 .. 1
  BY Vocabulary
<1>4. BoardInv'
  <2>1. Sorted(board)'
    BY <1>2 DEF OneVoice, BoardInv, Sorted, Ordered, Stamps, Notes
  <2>2. MemoryInv'
    BY <1>2 DEF OneVoice, BoardInv, MemoryInv
  <2>3. KnownInv'
    BY <1>2 DEF OneVoice, BoardInv, KnownInv
  <2>4. SaidInv'
    BY <1>1, <1>2 DEF OneVoice, BoardInv, SaidInv
  <2> QED BY <2>1, <2>2, <2>3, <2>4 DEF BoardInv
<1>5. LeaseInv'
  <2>1. RunInv'
    BY <1>1, <1>2 DEF OneVoice, LeaseInv, RunInv
  <2>2. ClaimInv'
    <3> SUFFICES ASSUME NEW k \in Machines, Claiming(k)
                 PROVE  (/\ Covers(Read(k))
                         /\ Read(k) = 0 \/ \E h \in Machines : Read(k) <= Told(h)
                         /\ Lives(k) => Left(k) + age[k] >= Refresh /\ Claimed(k) < Settle
                         /\ ~Lives(k) => Claimed(k) = 0
                         /\ \A h \in Machines : h # k /\ Lives(h) /\ (Lives(k) => h < k) =>
                                Claimed(h) <= age[k])'
      BY <1>2 DEF ClaimInv
    <3>1. age'[k] = age[k]
      BY <1>1, <1>2
    <3> QED BY <1>2, <3>1 DEF OneVoice, LeaseInv, ClaimInv, Covers
  <2>3. FirmInv'
    <3> SUFFICES ASSUME NEW h \in Machines, Lives(h)', h \in running'
                 PROVE  FALSE
      BY DEF FirmInv
    <3> QED BY <1>1, <1>2
  <2>4. YoungInv'
    BY <1>2 DEF OneVoice, LeaseInv, YoungInv
  <2>5. GoneInv'
    <3> SUFFICES ASSUME NEW h \in Machines, Lives(h), h \notin running'
                 PROVE  /\ Claimed(h) = Settle
                        /\ \A k \in Machines : k # h => ~Lives(k) /\ ~Claiming(k)
      BY <1>2 DEF GoneInv
    <3>1. h = m
      BY <1>1
    <3>2. ASSUME NEW k \in Machines, k # m, Claiming(k) PROVE FALSE
      <4>1. Claimed(m) <= age[k]
        BY <1>1, <3>1, <3>2 DEF OneVoice, LeaseInv, ClaimInv
      <4> QED BY <1>1, <1>3, <4>1, TimesAssumption DEF LongEnough
    <3> QED BY <1>1, <3>1, <3>2
  <2>6. ViewInv'
    <3> SUFFICES ASSUME NEW k \in Machines, NEW h \in Machines, k # h,
                        Deciding(k)', Lives(h)'
                 PROVE  (\/ Seen(k, h) = Left(h)
                         \/ Seen(k, h) + age[k] >= 2)'
      BY DEF ViewInv
    <3>1. Deciding(k) /\ h = m /\ age'[k] = age[k] /\ Claimed(h) = Settle
      BY <1>1, <1>2
    <3>2. ~(Claimed(h) <= age[k])
      BY <1>3, <3>1, TimesAssumption DEF LongEnough
    <3> QED BY <1>1, <1>2, <3>1, <3>2 DEF OneVoice, LeaseInv, ViewInv
  <2> QED BY <2>1, <2>2, <2>3, <2>4, <2>5, <2>6 DEF LeaseInv
<1>6. OnceInv'
  <2>1. VoiceInv'
    BY <1>2 DEF OneVoice, OnceInv, VoiceInv
  <2>2. ReadingInv'
    BY <1>2 DEF OneVoice, OnceInv, ReadingInv, Covers
  <2>3. BatchInv'
    BY <1>1, <1>2 DEF OneVoice, OnceInv, BatchInv
  <2>4. AnswerInv'
    BY <1>1, <1>2 DEF OneVoice, OnceInv, AnswerInv
  <2>5. SeenInv'
    <3>1. \A k \in Machines : Deciding(k) => age'[k] = age[k]
      BY <1>1, <1>2
    <3> QED BY <1>2, <3>1 DEF OneVoice, OnceInv, SeenInv
  <2>6. LeadInv'
    BY <1>2 DEF OneVoice, OnceInv, LeadInv, Leader, Covers
  <2> QED BY <2>1, <2>2, <2>3, <2>4, <2>5, <2>6 DEF OnceInv
<1> QED BY <1>4, <1>5, <1>6 DEF OneVoice

\* Time passes.
LEMMA VoiceTick ==
    ASSUME TypeOK, Faults = {}, LongEnough, OneVoice, Tick
    PROVE  OneVoice'
<1>1. /\ Sorted(board)'
      /\ \A k, h \in Machines : SeenTold(k, h)' = SeenTold(k, h)
                                /\ Seen(k, h)' = Less(Seen(k, h))
      /\ \A k \in Machines :
            /\ board'[k][k] = None <=> board[k][k] = None
            /\ Left(k)' = Less(Left(k)) /\ Told(k)' = Told(k)
            /\ Claimed(k)' = Sooner(Claimed(k)) /\ Read(k)' = Read(k)
            /\ Copy(k)'.posted = Older(Copy(k).posted)
            /\ Stage(k)' = Stage(k) /\ Batch(k)' = Batch(k)
            /\ k \in running => age[k] = 0 /\ ~Claiming(k) /\ age'[k] = 1
            /\ k \notin running => age'[k] = 0
      /\ UNCHANGED <<said, running, answers>>
  BY TickFacts DEF OneVoice
<1>2. \A k \in Machines :
         /\ k \in Nat /\ age[k] \in 0 .. 1
         /\ Claimed(k) \in Nat /\ Claimed(k) <= Settle
         /\ Read(k) \in Nat /\ Left(k) \in 0 .. TTL /\ Told(k) \in Nat
         /\ \A h \in Machines : Seen(k, h) \in 0 .. TTL /\ SeenTold(k, h) \in Nat
  BY Vocabulary
<1>3. TTL \in Nat /\ Refresh \in Nat /\ Settle \in Nat /\ Settle >= 2
  BY TimesAssumption DEF LongEnough
<1>4. \A k \in Machines :
         /\ Stage(k) # "idle" => k \in running
         /\ ~Claiming(k) /\ ~Claiming(k)'
         /\ Deciding(k)' => Deciding(k) /\ age[k] = 0 /\ age'[k] = 1
         /\ (Voice(k)' <=> Voice(k))
  BY <1>1 DEF OneVoice, LeaseInv, RunInv, Claiming, Deciding, Voice
<1>5. \A k \in Machines :
         /\ Lives(k)' => Lives(k)
         /\ Left(k) >= 2 => Lives(k)' /\ Left(k)' = Left(k) - 1
         /\ Left(k) > 0 => Left(k)' = Left(k) - 1
         /\ Claimed(k) = Settle => Claimed(k)' = Settle
         /\ Claimed(k)' < Settle => Claimed(k) < Settle
         /\ Claimed(k) < Settle => Claimed(k)' = Claimed(k) + 1
         /\ \A h \in Machines : Seen(k, h) > 0 => Seen(k, h)' = Seen(k, h) - 1
  BY <1>1, <1>2, <1>3 DEF Lives, Less, Sooner
<1>6. BoardInv'
  <2>1. MemoryInv'
    <3> SUFFICES ASSUME NEW k \in Machines
                 PROVE  (Copy(k).posted = IF board[k][k] = None THEN None
                                          ELSE [left |-> Left(k), cursor |-> Told(k)])'
      BY DEF MemoryInv
    <3>1. Copy(k).posted = IF board[k][k] = None THEN None
                           ELSE [left |-> Left(k), cursor |-> Told(k)]
      BY DEF OneVoice, BoardInv, MemoryInv
    <3>2. CASE board[k][k] = None
      BY <1>1, <3>1, <3>2 DEF Older
    <3>3. CASE board[k][k] # None
      <4> DEFINE note == [left |-> Left(k), cursor |-> Told(k)]
      <4>1. note # None
        <5>1. board[k][k] \in Note
          BY <3>3 DEF TypeOK
        <5>2. Left(k) \in 0 .. TTL /\ Told(k) \in Cursor
          BY <3>3, <5>1 DEF Note, Left, Told, LeftAt, ReadAt
        <5>3. note \in [left : 0 .. TTL, cursor : Cursor]
          BY <5>2
        <5> QED BY <5>3, NoneIsNothing
      <4>2. Older(note) = [left |-> Less(Left(k)), cursor |-> Told(k)]
        BY <4>1 DEF Older, Less
      <4>3. Copy(k)'.posted = Older(note)
        BY <1>1, <3>1, <3>3
      <4> HIDE DEF note
      <4> QED BY <1>1, <3>3, <4>2, <4>3
    <3> QED BY <3>2, <3>3
  <2>2. KnownInv'
    BY <1>1, <1>4 DEF OneVoice, BoardInv, KnownInv
  <2>3. SaidInv'
    BY <1>1 DEF OneVoice, BoardInv, SaidInv
  <2> QED BY <1>1, <2>1, <2>2, <2>3 DEF BoardInv
<1>7. \A k \in Machines : Firm(k) => Firm(k)'
  <2> SUFFICES ASSUME NEW k \in Machines, Firm(k) PROVE Firm(k)'
    OBVIOUS
  <2>1. Left(k) >= 2
    BY FirmLives
  <2> QED BY <1>1, <1>2, <1>3, <1>5, <2>1 DEF Firm
<1>8. LeaseInv'
  <2>1. RunInv'
    BY <1>1 DEF OneVoice, LeaseInv, RunInv
  <2>2. ClaimInv'
    BY <1>4 DEF ClaimInv
  <2>3. FirmInv'
    BY <1>1, <1>5, <1>7 DEF OneVoice, LeaseInv, FirmInv
  <2>4. YoungInv'
    <3> SUFFICES ASSUME NEW h \in Machines, Lives(h)', Claimed(h)' < Settle
                 PROVE  Left(h)' + Claimed(h)' >= TTL
      BY DEF YoungInv
    <3>1. Lives(h) /\ Claimed(h) < Settle
      BY <1>5
    <3>2. Left(h) + Claimed(h) >= TTL /\ Left(h) > 0
      BY <3>1 DEF OneVoice, LeaseInv, YoungInv, Lives
    <3> QED BY <1>2, <1>3, <1>5, <3>1, <3>2
  <2>5. GoneInv'
    BY <1>1, <1>4, <1>5 DEF OneVoice, LeaseInv, GoneInv
  <2>6. ViewInv'
    <3> SUFFICES ASSUME NEW k \in Machines, NEW h \in Machines, k # h,
                        Deciding(k)', Lives(h)'
                 PROVE  (\/ Seen(k, h) = Left(h)
                         \/ Seen(k, h) + age[k] >= 2
                         \/ /\ Claimed(h) <= age[k]
                            /\ Lives(k) => /\ Claimed(k) <= 1
                                           /\ Claimed(k) = 1 => age[h] = 1 \/ age[k] = 1)'
      BY DEF ViewInv
    <3>1. Deciding(k) /\ Lives(h) /\ age[k] = 0 /\ age'[k] = 1
      BY <1>4, <1>5
    <3>2. CASE Seen(k, h) = Left(h)
      BY <1>1, <3>2
    <3>3. CASE Seen(k, h) + age[k] >= 2
      BY <1>2, <1>5, <3>1, <3>3
    <3>4. CASE /\ Claimed(h) <= age[k]
               /\ Lives(k) => /\ Claimed(k) <= 1
                              /\ Claimed(k) = 1 => age[h] = 1 \/ age[k] = 1
      <4>1. Claimed(h) = 0
        BY <1>2, <3>1, <3>4
      <4>2. Claimed(h)' <= age'[k]
        BY <1>3, <1>5, <3>1, <4>1
      <4>3. age[h] = 0
        BY <1>1, <1>3, <3>1, <4>1 DEF OneVoice, LeaseInv, GoneInv
      <4>4. Lives(k)' => Claimed(k)' <= 1
        BY <1>2, <1>3, <1>5, <3>1, <3>4, <4>3
      <4> QED BY <3>1, <4>2, <4>4
    <3> QED BY <3>1, <3>2, <3>3, <3>4 DEF OneVoice, LeaseInv, ViewInv
  <2> QED BY <2>1, <2>2, <2>3, <2>4, <2>5, <2>6 DEF LeaseInv
<1>9. OnceInv'
  <2>1. VoiceInv'
    <3> SUFFICES ASSUME NEW k \in Machines, NEW h \in Machines, h # k, Voice(k)
                 PROVE  (/\ Lives(k) /\ Claimed(k) = Settle
                         /\ ~Voice(h) /\ ~Claiming(h)
                         /\ h < k => ~Lives(h))'
      BY <1>4 DEF VoiceInv
    <3>1. /\ Claimed(k) = Settle /\ Left(k) >= 2
          /\ ~Voice(h) /\ ~Claiming(h) /\ (Lives(h) => k < h)
      BY VoiceIsFirm
    <3> QED BY <1>2, <1>4, <1>5, <3>1
  <2>2. ReadingInv'
    BY <1>1 DEF OneVoice, OnceInv, ReadingInv, Covers
  <2>3. BatchInv'
    BY <1>1 DEF OneVoice, OnceInv, BatchInv
  <2>4. AnswerInv'
    BY <1>1 DEF OneVoice, OnceInv, AnswerInv
  <2>5. SeenInv'
    <3> SUFFICES ASSUME NEW k \in Machines, Deciding(k)'
                 PROVE  (\/ \A h \in Machines : \E j \in Machines : Told(h) <= SeenTold(k, j)
                         \/ \E h \in Machines : /\ h # k /\ Seen(k, h) + age[k] >= 2
                                                /\ Lives(k) => h < k)'
      BY DEF SeenInv
    <3>1. Deciding(k) /\ age[k] = 0 /\ age'[k] = 1
      BY <1>4
    <3>2. CASE \A h \in Machines : \E j \in Machines : Told(h) <= SeenTold(k, j)
      BY <1>1, <3>2
    <3>3. ASSUME NEW h \in Machines, h # k, Seen(k, h) + age[k] >= 2, Lives(k) => h < k
          PROVE  (h # k /\ Seen(k, h) + age[k] >= 2 /\ (Lives(k) => h < k))'
      BY <1>2, <1>5, <3>1, <3>3
    <3> QED BY <3>1, <3>2, <3>3 DEF OneVoice, OnceInv, SeenInv
  <2>6. LeadInv'
    <3> SUFFICES ASSUME NEW k \in Machines, Lives(k)', Claimed(k)' < Settle
                 PROVE  Covers(Told(k))' \/ \E h \in Machines : h < k /\ Leader(h)'
      BY DEF LeadInv
    <3>1. Lives(k) /\ Claimed(k) < Settle
      BY <1>5
    <3>2. CASE Covers(Told(k))
      BY <1>1, <3>2 DEF Covers
    <3>3. CASE \E h \in Machines : h < k /\ Leader(h)
      <4>1. PICK h \in Machines : h < k /\ Leader(h)
        BY <3>3
      <4>2. h \in running
        BY <1>2, <3>1, <4>1 DEF OneVoice, LeaseInv, GoneInv, Leader
      <4>3. ~ \E j \in Machines : j < h /\ Firm(j)
        BY <4>1, FirmLives DEF Leader
      <4>4. Left(h) >= 2
        BY <4>1, <4>2, <4>3, FirmLives DEF OneVoice, LeaseInv, FirmInv, Leader
      <4>5. Leader(h)'
        BY <1>4, <1>5, <4>1, <4>4 DEF Leader
      <4> QED BY <4>1, <4>5
    <3> QED BY <3>1, <3>2, <3>3 DEF OneVoice, OnceInv, LeadInv
  <2> QED BY <2>1, <2>2, <2>3, <2>4, <2>5, <2>6 DEF OnceInv
<1> QED BY <1>6, <1>8, <1>9 DEF OneVoice

\* Whatever a dashboard decides, the boards and the others stay as they are.
Decides(m) ==
    /\ BoardStays /\ OthersStay(m) /\ UNCHANGED <<said, running, answers, age>>
    /\ Stage(m) = "deciding" /\ Stage(m)' \in {"over", "reading", "claiming"}
    /\ Batch(m) = {} /\ Batch(m)' = {}
    /\ Copy(m)'.posted = Copy(m).posted
    /\ Read(m)' <= said
    /\ Claimed(m)' = Claimed(m) \/ ~Lives(m)

LEMMA DecidesAlone ==
    ASSUME NEW m \in Machines, Decides(m)
    PROVE  /\ \A k \in Machines :
                 /\ Copy(k)'.posted = Copy(k).posted /\ Batch(k)' = Batch(k)
                 /\ Left(k)' = Left(k) /\ Told(k)' = Told(k) /\ (Lives(k)' <=> Lives(k))
                 /\ Lives(k) => Claimed(k)' = Claimed(k)
                 /\ \A h \in Machines :
                       Seen(k, h)' = Seen(k, h) /\ SeenTold(k, h)' = SeenTold(k, h)
           /\ \A k \in Machines : k # m =>
                 /\ Stage(k)' = Stage(k) /\ Read(k)' = Read(k) /\ Claimed(k)' = Claimed(k)
                 /\ (Claiming(k)' <=> Claiming(k)) /\ (Deciding(k)' <=> Deciding(k))
                 /\ (Voice(k)' <=> Voice(k)) /\ (Firm(k)' <=> Firm(k))
           /\ board' = board /\ UNCHANGED <<said, running, answers, age>>
           /\ Deciding(m) /\ ~Deciding(m)' /\ ~Voice(m) /\ ~Claiming(m)
  BY DEF Decides, OthersStay, StaysAsIs, KeepsCopy, BoardStays, Lives, Claiming, Voice,
         Deciding, Firm

\* What it decides disturbs none of these.
LEMMA DecideKeeps ==
    ASSUME TypeOK, OneVoice, NEW m \in Machines, Decides(m)
    PROVE  /\ Sorted(board)' /\ MemoryInv' /\ SaidInv'
           /\ RunInv' /\ YoungInv' /\ ViewInv'
           /\ BatchInv' /\ AnswerInv' /\ SeenInv'
<1>1. /\ \A k \in Machines :
            /\ Copy(k)'.posted = Copy(k).posted /\ Batch(k)' = Batch(k)
            /\ Left(k)' = Left(k) /\ Told(k)' = Told(k) /\ (Lives(k)' <=> Lives(k))
            /\ Lives(k) => Claimed(k)' = Claimed(k)
            /\ \A h \in Machines :
                  Seen(k, h)' = Seen(k, h) /\ SeenTold(k, h)' = SeenTold(k, h)
      /\ \A k \in Machines : k # m =>
            /\ Stage(k)' = Stage(k) /\ Read(k)' = Read(k) /\ Claimed(k)' = Claimed(k)
            /\ (Deciding(k)' <=> Deciding(k))
      /\ board' = board /\ UNCHANGED <<said, running, answers, age>>
      /\ Deciding(m) /\ ~Deciding(m)' /\ Read(m)' <= said /\ Batch(m)' = {}
  BY DecidesAlone DEF Decides
<1>2. Sorted(board)'
  BY <1>1 DEF OneVoice, BoardInv, Sorted, Ordered, Stamps, Notes
<1>3. MemoryInv'
  BY <1>1 DEF OneVoice, BoardInv, MemoryInv
<1>4. SaidInv'
  BY <1>1 DEF OneVoice, BoardInv, SaidInv
<1>5. RunInv'
  BY <1>1 DEF OneVoice, LeaseInv, RunInv, Deciding
<1>6. YoungInv'
  BY <1>1 DEF OneVoice, LeaseInv, YoungInv
<1>7. ViewInv'
  BY <1>1 DEF OneVoice, LeaseInv, ViewInv
<1>8. BatchInv'
  BY <1>1 DEF OneVoice, OnceInv, BatchInv
<1>9. AnswerInv'
  BY <1>1 DEF OneVoice, OnceInv, AnswerInv
<1>10. SeenInv'
  BY <1>1 DEF OneVoice, OnceInv, SeenInv
<1> QED BY <1>2, <1>3, <1>4, <1>5, <1>6, <1>7, <1>8, <1>9, <1>10

\* Its lease stays firm, or another's is.
LEMMA DecideFirm ==
    ASSUME TypeOK, LongEnough, OneVoice, NEW m \in Machines, Decides(m),
           Lives(m) => Firm(m)' \/ \E j \in Machines : j < m /\ Firm(j)
    PROVE  FirmInv'
<1>1. /\ \A k \in Machines : Lives(k)' <=> Lives(k)
      /\ \A k \in Machines : k # m => (Firm(k)' <=> Firm(k))
      /\ running' = running
  BY DecidesAlone
<1>2. \A k \in Machines : k \in Nat
  BY Vocabulary
<1>3. Lives(m) => Firm(m)' \/ \E j \in Machines : j < m /\ Firm(j)'
  BY <1>1, <1>2
<1> SUFFICES ASSUME NEW h \in Machines, Lives(h), h \in running
             PROVE  Firm(h)' \/ \E k \in Machines : k < h /\ Firm(k)'
  BY <1>1 DEF FirmInv
<1>4. CASE h = m
  BY <1>3, <1>4
<1>5. CASE h # m /\ Firm(h)
  BY <1>1, <1>5
<1>6. CASE \E k \in Machines : k < h /\ Firm(k)
  <2>1. PICK k \in Machines : k < h /\ Firm(k)
    BY <1>6
  <2>2. CASE k # m
    BY <1>1, <2>1, <2>2
  <2>3. CASE k = m
    <3>1. Lives(m)
      BY <2>1, <2>3, FirmLives
    <3>2. CASE Firm(m)'
      BY <2>1, <2>3, <3>2
    <3>3. CASE \E j \in Machines : j < m /\ Firm(j)'
      <4>1. PICK j \in Machines : j < m /\ Firm(j)'
        BY <3>3
      <4>2. j < h
        BY <1>2, <2>1, <2>3, <4>1
      <4> QED BY <4>1, <4>2
    <3> QED BY <1>3, <3>1, <3>2, <3>3
  <2> QED BY <2>2, <2>3
<1> QED BY <1>4, <1>5, <1>6 DEF OneVoice, LeaseInv, FirmInv

\* A dashboard keeps silent, since another's lease comes first or since its own
\* has not settled.
LEMMA VoiceSilent ==
    ASSUME TypeOK, LongEnough, OneVoice, NEW m \in Machines, Decides(m),
           Stage(m)' = "over", KeepsCopy(m),
           Lives(m) => Firm(m)' \/ \E j \in Machines : j < m /\ Firm(j)
    PROVE  OneVoice'
<1>1. /\ \A k \in Machines :
            /\ Left(k)' = Left(k) /\ Told(k)' = Told(k) /\ (Lives(k)' <=> Lives(k))
            /\ Claimed(k)' = Claimed(k) /\ Read(k)' = Read(k)
      /\ \A k \in Machines : k # m =>
            /\ Stage(k)' = Stage(k)
            /\ (Claiming(k)' <=> Claiming(k)) /\ (Voice(k)' <=> Voice(k))
      /\ UNCHANGED <<said, running, answers, age>>
      /\ ~Voice(m) /\ ~Claiming(m) /\ Stage(m) = "deciding"
  BY DecidesAlone DEF KeepsCopy, Decides
<1>2. ~Voice(m)' /\ ~Claiming(m)'
  BY DEF Voice, Claiming
<1>3. KnownInv'
  BY <1>1, <1>2 DEF OneVoice, BoardInv, KnownInv
<1>4. FirmInv'
  BY DecideFirm
<1>5. ClaimInv'
  BY <1>1, <1>2 DEF OneVoice, LeaseInv, ClaimInv, Covers
<1>6. GoneInv'
  BY <1>1, <1>2 DEF OneVoice, LeaseInv, GoneInv
<1>7. VoiceInv'
  BY <1>1, <1>2 DEF OneVoice, OnceInv, VoiceInv
<1>8. ReadingInv'
  BY <1>1, <1>2 DEF OneVoice, OnceInv, ReadingInv, Covers, Voice
<1>9. LeadInv'
  BY <1>1, <1>2 DEF OneVoice, OnceInv, LeadInv, Leader, Covers
<1> QED
  BY <1>3, <1>4, <1>5, <1>6, <1>7, <1>8, <1>9, DecideKeeps
     DEF OneVoice, BoardInv, LeaseInv, OnceInv

\* It reads, since its own comes first and has settled.
LEMMA VoiceConsumes ==
    ASSUME TypeOK, LongEnough, OneVoice, NEW m \in Machines, Decides(m), Consumes(m)
    PROVE  OneVoice'
<1>1. /\ \A k \in Machines :
            /\ Left(k)' = Left(k) /\ Told(k)' = Told(k) /\ (Lives(k)' <=> Lives(k))
            /\ Claimed(k)' = Claimed(k)
      /\ \A k \in Machines : k # m =>
            /\ Stage(k)' = Stage(k) /\ Read(k)' = Read(k)
            /\ (Claiming(k)' <=> Claiming(k)) /\ (Voice(k)' <=> Voice(k))
      /\ UNCHANGED <<said, running, answers, age>>
      /\ ~Voice(m) /\ ~Claiming(m) /\ Deciding(m)
  BY DecidesAlone DEF Consumes
<1>2. Voice(m)' /\ ~Claiming(m)' /\ Stage(m)' = "reading"
  BY DEF Consumes, Voice, Claiming
<1>3. \A k \in Machines :
         /\ k \in Nat /\ age[k] \in 0 .. 1 /\ Claimed(k) \in Nat
         /\ Read(k) \in Nat /\ Told(k) \in Nat
         /\ \A h \in Machines : Seen(k, h) \in 0 .. TTL /\ SeenTold(k, h) \in Nat
  BY Vocabulary
<1>4. Settle \in Nat /\ Settle >= 2 /\ TTL \in Nat
  BY TimesAssumption DEF LongEnough
<1>5. ASSUME NEW h \in Machines, h # m
      PROVE  /\ Lives(m) /\ Claimed(m) = Settle /\ Least(m)
             /\ Lives(h) => m < h
             /\ ~Voice(h) /\ ~Claiming(h)
  <2>1. Lives(m) /\ Claimed(m) = Settle /\ Least(m)
    BY <1>5 DEF Consumes
  <2>2. Lives(h) => m < h
    BY <1>1, <1>3, <1>4, <1>5, <2>1, UnseenIsYoung DEF Least, OneVoice, LeaseInv
  <2>3. ~Voice(h)
    BY <1>5, <2>1, <2>2 DEF OneVoice, OnceInv, VoiceInv
  <2>4. ~Claiming(h)
    BY <1>3, <1>4, <1>5, <2>1, <2>2 DEF OneVoice, LeaseInv, ClaimInv
  <2> QED BY <2>1, <2>2, <2>3, <2>4
<1>6. Covers(Read(m)')
  <2>1. CASE \A h \in Machines : h = m
    <3>1. SeenTold(m, m) = Told(m)
      BY DEF SeenTold, Told
    <3> QED BY <2>1, <3>1 DEF Covers, Consumes, Adopts
  <2>2. CASE \E h \in Machines : h # m
    <3>1. Lives(m) /\ Least(m)
      BY <1>5, <2>2
    <3>2. ~ \E h \in Machines : /\ h # m /\ Seen(m, h) + age[m] >= 2
                                /\ Lives(m) => h < m
      <4> SUFFICES ASSUME NEW h \in Machines, Seen(m, h) + age[m] >= 2, h < m
                   PROVE  FALSE
        BY <3>1
      <4>1. Seen(m, h) > 0
        BY <1>3, <1>4
      <4> QED BY <1>3, <3>1, <4>1 DEF Least
    <3>3. \A h \in Machines : \E j \in Machines : Told(h) <= SeenTold(m, j)
      BY <1>1, <3>2 DEF OneVoice, OnceInv, SeenInv
    <3>4. Read(m)' \in Nat
      BY <1>3 DEF Consumes, Adopts
    <3> QED BY <1>3, <3>3, <3>4 DEF Covers, Consumes, Adopts
  <2> QED BY <2>1, <2>2
<1>7. KnownInv'
  BY <1>1, <1>2 DEF OneVoice, BoardInv, KnownInv
<1>8. FirmInv'
  <2>1. m \in running
    BY <1>1 DEF OneVoice, LeaseInv, RunInv, Deciding
  <2>2. Firm(m) => Firm(m)'
    BY <1>1, <1>2 DEF Firm, Deciding
  <2> QED BY <2>1, <2>2, DecideFirm DEF OneVoice, LeaseInv, FirmInv
<1>9. ClaimInv'
  BY <1>2, <1>1, <1>5 DEF ClaimInv
<1>10. GoneInv'
  BY <1>1, <1>2 DEF OneVoice, LeaseInv, GoneInv
<1>11. VoiceInv'
  BY <1>1, <1>2, <1>3, <1>5 DEF VoiceInv
<1>12. ReadingInv'
  BY <1>1, <1>2, <1>6 DEF OneVoice, OnceInv, ReadingInv, Covers
<1>13. LeadInv'
  BY <1>1, <1>2 DEF OneVoice, OnceInv, LeadInv, Leader, Covers
<1> QED
  BY <1>7, <1>8, <1>9, <1>10, <1>11, <1>12, <1>13, DecideKeeps
     DEF OneVoice, BoardInv, LeaseInv, OnceInv

\* Its lease comes first, has not settled and is to be posted again.
LEMMA VoiceClaimsAgain ==
    ASSUME TypeOK, LongEnough, OneVoice, NEW m \in Machines, Decides(m), ClaimsAgain(m)
    PROVE  OneVoice'
<1>1. /\ \A k \in Machines :
            /\ Left(k)' = Left(k) /\ Told(k)' = Told(k) /\ (Lives(k)' <=> Lives(k))
            /\ Claimed(k)' = Claimed(k) /\ Read(k)' = Read(k)
      /\ \A k \in Machines : k # m =>
            /\ Stage(k)' = Stage(k)
            /\ (Claiming(k)' <=> Claiming(k)) /\ (Voice(k)' <=> Voice(k))
      /\ UNCHANGED <<said, running, answers, age>>
      /\ ~Voice(m) /\ ~Claiming(m) /\ Deciding(m) /\ Stage(m) = "deciding"
  BY DecidesAlone DEF ClaimsAgain, KeepsCopy, Decides
<1>2. ~Voice(m)' /\ Claiming(m)' /\ Stage(m)' = "claiming"
  BY DEF ClaimsAgain, Voice, Claiming
<1>3. \A k \in Machines :
         /\ k \in Nat /\ age[k] \in 0 .. 1 /\ Claimed(k) \in Nat
         /\ Read(k) \in Nat /\ Told(k) \in Nat /\ Left(k) \in 0 .. TTL
  BY Vocabulary
<1>4. Settle \in Nat /\ Settle >= 2 /\ TTL \in Nat /\ Refresh \in Nat /\ Refresh < TTL
  BY TimesAssumption DEF LongEnough
<1>5. Lives(m) /\ Claimed(m) < Settle /\ Least(m)
  BY DEF ClaimsAgain
<1>6. m \in running
  BY <1>1 DEF OneVoice, LeaseInv, RunInv
\* Who comes before it has introduced itself just now, as it has.
<1>7. ASSUME NEW h \in Machines, h < m, Lives(h)
      PROVE  Claimed(h) <= age[m] /\ Claimed(h) < Settle /\ Claimed(m) <= 1
  <2>1. h # m /\ ~(Seen(m, h) > 0)
    BY <1>3, <1>5, <1>7 DEF Least
  <2> QED BY <1>1, <1>5, <1>7, <2>1, UnseenIsYoung DEF OneVoice, LeaseInv
<1>8. Read(m) = Told(m)
  BY <1>1 DEF OneVoice, BoardInv, KnownInv
<1>9. Covers(Read(m))
  <2>1. ~ \E h \in Machines : h < m /\ Leader(h)
    BY <1>3, <1>4, <1>7 DEF Leader
  <2> QED BY <1>5, <1>8, <2>1 DEF OneVoice, OnceInv, LeadInv
<1>10. Left(m) + age[m] >= Refresh
  <2>1. CASE Firm(m)
    BY <1>1, <2>1 DEF Firm
  <2>2. CASE \E k \in Machines : k < m /\ Firm(k)
    <3>1. Claimed(m) <= 1
      BY <1>7, <2>2, FirmLives
    <3>2. Left(m) + Claimed(m) >= TTL
      BY <1>5 DEF OneVoice, LeaseInv, YoungInv
    <3> QED BY <1>3, <1>4, <3>1, <3>2
  <2> QED BY <1>5, <1>6, <2>1, <2>2 DEF OneVoice, LeaseInv, FirmInv
<1>11. \A k \in Machines : k # m => ~Voice(k)
  <2> SUFFICES ASSUME NEW k \in Machines, k # m, Voice(k) PROVE FALSE
    OBVIOUS
  <2>1. Lives(k) /\ Claimed(k) = Settle /\ (Lives(m) => k < m)
    BY VoiceIsFirm
  <2> QED BY <1>3, <1>4, <1>5, <1>7, <2>1
<1>12. KnownInv'
  BY <1>1, <1>2, <1>8 DEF OneVoice, BoardInv, KnownInv
<1>13. FirmInv'
  <2>1. Firm(m) => Firm(m)'
    BY <1>1, <1>2 DEF Firm
  <2> QED BY <1>6, <2>1, DecideFirm DEF OneVoice, LeaseInv, FirmInv
<1>14. ClaimInv'
  <2> SUFFICES ASSUME NEW k \in Machines, Claiming(k)'
               PROVE  (/\ Covers(Read(k))
                       /\ Read(k) = 0 \/ \E h \in Machines : Read(k) <= Told(h)
                       /\ Lives(k) => Left(k) + age[k] >= Refresh /\ Claimed(k) < Settle
                       /\ ~Lives(k) => Claimed(k) = 0
                       /\ \A h \in Machines : h # k /\ Lives(h) /\ (Lives(k) => h < k) =>
                              Claimed(h) <= age[k])'
    BY DEF ClaimInv
  <2>1. CASE k # m
    BY <1>1, <2>1 DEF OneVoice, LeaseInv, ClaimInv, Covers
  <2>2. CASE k = m
    <3>1. \E h \in Machines : Read(m) <= Told(h)
      BY <1>3, <1>8
    <3> QED BY <1>1, <1>5, <1>7, <1>9, <1>10, <2>2, <3>1 DEF Covers
  <2> QED BY <2>1, <2>2
<1>15. GoneInv'
  BY <1>1, <1>5, <1>6 DEF OneVoice, LeaseInv, GoneInv
<1>16. VoiceInv'
  BY <1>1, <1>2, <1>11 DEF VoiceInv
<1>17. ReadingInv'
  BY <1>1, <1>2 DEF OneVoice, OnceInv, ReadingInv, Covers
<1>18. LeadInv'
  <2>1. \A h \in Machines : Leader(h) => Leader(h)'
    BY <1>1, <1>5 DEF Leader
  <2> QED BY <1>1, <2>1 DEF OneVoice, OnceInv, LeadInv, Covers
<1> QED
  BY <1>12, <1>13, <1>14, <1>15, <1>16, <1>17, <1>18, DecideKeeps
     DEF OneVoice, BoardInv, LeaseInv, OnceInv

\* It sees no lease, and introduces itself.
LEMMA VoiceIntroduces ==
    ASSUME TypeOK, LongEnough, OneVoice, NEW m \in Machines, Decides(m), Introduces(m)
    PROVE  OneVoice'
<1>1. /\ \A k \in Machines :
            /\ Left(k)' = Left(k) /\ Told(k)' = Told(k) /\ (Lives(k)' <=> Lives(k))
      /\ \A k \in Machines : k # m =>
            /\ Stage(k)' = Stage(k) /\ Read(k)' = Read(k) /\ Claimed(k)' = Claimed(k)
            /\ (Claiming(k)' <=> Claiming(k)) /\ (Voice(k)' <=> Voice(k))
      /\ UNCHANGED <<said, running, answers, age>>
      /\ ~Voice(m) /\ ~Claiming(m) /\ Deciding(m)
  BY DecidesAlone
<1>2. ~Voice(m)' /\ Claiming(m)' /\ Stage(m)' = "claiming" /\ Claimed(m)' = 0
  BY DEF Introduces, Voice, Claiming
<1>3. \A k \in Machines :
         /\ k \in Nat /\ age[k] \in 0 .. 1 /\ Claimed(k) \in Nat
         /\ Read(k) \in Nat /\ Told(k) \in Nat
         /\ \A h \in Machines : SeenTold(k, h) \in Nat
  BY Vocabulary
<1>4. Settle \in Nat /\ Settle >= 2
  BY TimesAssumption DEF LongEnough
<1>5. \A h \in Machines : Seen(m, h) = 0
  BY DEF Introduces
<1>6. ~Lives(m)
  BY <1>5 DEF Lives, Left, Seen
\* Whose leases it cannot see introduced themselves just now.
<1>7. ASSUME NEW h \in Machines, Lives(h)
      PROVE  h # m /\ Claimed(h) <= age[m] /\ Claimed(h) < Settle
  <2>1. h # m /\ ~(Seen(m, h) > 0)
    BY <1>5, <1>6, <1>7
  <2> QED BY <1>1, <1>7, <2>1, UnseenIsYoung DEF OneVoice, LeaseInv
<1>8. \A k \in Machines : k # m => ~Voice(k)
  <2> SUFFICES ASSUME NEW k \in Machines, k # m, Voice(k) PROVE FALSE
    OBVIOUS
  <2>1. Lives(k) /\ Claimed(k) = Settle
    BY VoiceIsFirm
  <2> QED BY <1>4, <1>7, <2>1
<1>9. Covers(Read(m)')
  <2>1. ~ \E h \in Machines : Seen(m, h) + age[m] >= 2
    BY <1>3, <1>5
  <2>2. \A h \in Machines : \E j \in Machines : Told(h) <= SeenTold(m, j)
    BY <1>1, <2>1 DEF OneVoice, OnceInv, SeenInv
  <2>3. Read(m)' \in Nat
    BY <1>3 DEF Introduces, Adopts
  <2> QED BY <1>3, <2>2, <2>3 DEF Covers, Introduces, Adopts
<1>10. \E h \in Machines : Read(m)' <= Told(h)
  BY SeenIsOlder DEF Introduces, Adopts, OneVoice, BoardInv
<1>11. KnownInv'
  BY <1>1, <1>2, <1>6 DEF OneVoice, BoardInv, KnownInv
<1>12. FirmInv'
  BY <1>6, DecideFirm
<1>13. ClaimInv'
  <2> SUFFICES ASSUME NEW k \in Machines, Claiming(k)'
               PROVE  (/\ Covers(Read(k))
                       /\ Read(k) = 0 \/ \E h \in Machines : Read(k) <= Told(h)
                       /\ Lives(k) => Left(k) + age[k] >= Refresh /\ Claimed(k) < Settle
                       /\ ~Lives(k) => Claimed(k) = 0
                       /\ \A h \in Machines : h # k /\ Lives(h) /\ (Lives(k) => h < k) =>
                              Claimed(h) <= age[k])'
    BY DEF ClaimInv
  <2>1. CASE k # m
    BY <1>1, <1>6, <2>1 DEF OneVoice, LeaseInv, ClaimInv, Covers
  <2>2. CASE k = m
    BY <1>1, <1>2, <1>6, <1>7, <1>9, <1>10, <2>2 DEF Covers
  <2> QED BY <2>1, <2>2
<1>14. GoneInv'
  <2> SUFFICES ASSUME NEW h \in Machines, Lives(h), h \notin running
               PROVE  FALSE
    BY <1>1 DEF GoneInv
  <2> QED BY <1>4, <1>7 DEF OneVoice, LeaseInv, GoneInv
<1>15. VoiceInv'
  BY <1>1, <1>2, <1>8 DEF VoiceInv
<1>16. ReadingInv'
  BY <1>1, <1>2 DEF OneVoice, OnceInv, ReadingInv, Covers
<1>17. LeadInv'
  <2>1. ~ \E h \in Machines : Leader(h)
    BY <1>4, <1>7 DEF Leader
  <2> QED BY <1>1, <1>6, <2>1 DEF OneVoice, OnceInv, LeadInv, Covers
<1> QED
  BY <1>11, <1>12, <1>13, <1>14, <1>15, <1>16, <1>17, DecideKeeps
     DEF OneVoice, BoardInv, LeaseInv, OnceInv

\* A dashboard decides.
LEMMA VoiceDecide ==
    ASSUME IInv, linked, LongEnough, OneVoice,
           NEW m \in Machines, Decide(m)
    PROVE  OneVoice'
<1>1. TypeOK
  BY DEF IInv
<1>2. /\ BoardStays /\ OthersStay(m) /\ UNCHANGED <<said, running, answers, age>>
      /\ Stage(m) = "deciding" /\ Batch(m)' = Batch(m)
      /\ Copy(m)'.posted = Copy(m).posted
      /\ Yields(m) \/ Consumes(m) \/ Waits(m) \/ ClaimsAgain(m) \/ Introduces(m)
  BY <1>1, DecideFacts DEF OneVoice
<1>3. Batch(m) = {}
  BY <1>2, OnlyVoicesHold DEF Voice
<1>4. \A h \in Machines : /\ Seen(m, h) <= Left(h) /\ SeenTold(m, h) <= Told(h)
                          /\ Told(h) <= said /\ Read(h) <= said
  BY <1>1, SeenIsOlder DEF OneVoice, BoardInv, SaidInv
<1>5. /\ \A k \in Machines :
            /\ k \in Nat /\ age[k] \in 0 .. 1 /\ Told(k) \in Nat /\ Left(k) \in 0 .. TTL
            /\ \A h \in Machines : Seen(k, h) \in 0 .. TTL /\ SeenTold(k, h) \in Nat
      /\ TTL \in Nat /\ Refresh \in Nat /\ said \in Nat
  BY <1>1, Vocabulary, TimesAssumption DEF TypeOK
<1>6. Read(m)' <= said
  <2>1. (\E h \in Machines : Read(m)' = SeenTold(m, h)) => Read(m)' <= said
    BY <1>4, <1>5
  <2> QED
    BY <1>2, <1>4, <2>1
       DEF Yields, Consumes, Waits, ClaimsAgain, Introduces, Adopts, KeepsCopy
<1>7. Claimed(m)' = Claimed(m) \/ ~Lives(m)
  BY <1>2 DEF Yields, Consumes, Waits, ClaimsAgain, Introduces, KeepsCopy, Lives, Left, Seen
<1>8. Stage(m)' \in {"over", "reading", "claiming"}
  BY <1>2 DEF Yields, Consumes, Waits, ClaimsAgain, Introduces
<1>9. Decides(m)
  BY <1>2, <1>3, <1>6, <1>7, <1>8 DEF Decides
<1>10. m \in running
  BY <1>2 DEF OneVoice, LeaseInv, RunInv
<1>11. CASE Yields(m)
  <2>1. PICK h \in Machines : h # m /\ Seen(m, h) > 0 /\ (Lives(m) => h < m)
    BY <1>11 DEF Yields
  <2>2. Lives(h)
    BY <1>4, <1>5, <2>1 DEF Lives
  <2>3. Lives(m) => \E j \in Machines : j < m /\ Firm(j)
    <3> SUFFICES ASSUME Lives(m) PROVE \E j \in Machines : j < m /\ Firm(j)
      OBVIOUS
    <3>1. h < m /\ h \in running
      BY <2>1, <2>2 DEF OneVoice, LeaseInv, GoneInv
    <3>2. Firm(h) \/ \E k \in Machines : k < h /\ Firm(k)
      BY <2>2, <3>1 DEF OneVoice, LeaseInv, FirmInv
    <3> QED BY <1>5, <3>1, <3>2
  <2> QED BY <1>1, <1>9, <1>11, <2>3, VoiceSilent DEF Yields
<1>12. CASE Waits(m)
  <2>1. Left(m)' = Left(m) /\ running' = running /\ age' = age
    BY <1>2 DEF BoardStays
  <2>2. Firm(m)'
    BY <1>5, <1>10, <1>12, <2>1 DEF Waits, Firm
  <2> QED BY <1>1, <1>9, <1>12, <2>2, VoiceSilent DEF Waits
<1>13. CASE Consumes(m)
  BY <1>1, <1>9, <1>13, VoiceConsumes
<1>14. CASE ClaimsAgain(m)
  BY <1>1, <1>9, <1>14, VoiceClaimsAgain
<1>15. CASE Introduces(m)
  BY <1>1, <1>9, <1>15, VoiceIntroduces
<1> QED BY <1>2, <1>11, <1>12, <1>13, <1>14, <1>15

-----------------------------------------------------------------------------
(* One voice: the theorem *)

\* The machines are in touch, and no read has failed so far.
NoReadFailed == linked /\ fails = 0
VoiceAlways  == NoReadFailed => OneVoice

LEMMA VoiceInit == Init => OneVoice
<1> SUFFICES ASSUME Init PROVE OneVoice
  OBVIOUS
<1>1. \A k, h \in Machines : board[k][h] = None
  BY DEF Init
<1>2. \A k, h \in Machines :
         Left(h) = 0 /\ Told(h) = 0 /\ Seen(k, h) = 0 /\ SeenTold(k, h) = 0
  BY <1>1 DEF Left, Told, Seen, SeenTold, LeftAt, ReadAt
<1>3. \A k \in Machines : Copy(k) = UnreadInbox /\ Stage(k) = "idle" /\ Batch(k) = {}
  BY DEF Init, Copy, Stage, Batch
<1>4. \A k \in Machines : Copy(k).posted = None /\ Read(k) = 0
  BY <1>3 DEF UnreadInbox, Read, OrEmpty
<1>5. \A k \in Machines : ~Lives(k) /\ ~Voice(k) /\ ~Claiming(k) /\ ~Deciding(k)
  BY <1>2, <1>3 DEF Lives, Voice, Claiming, Deciding
<1>6. said = 0 /\ \A i \in Message : answers[i] = 0
  BY DEF Init
<1>7. Sorted(board)
  BY <1>1 DEF Sorted, Ordered
<1>8. BoardInv
  BY <1>1, <1>2, <1>4, <1>6, <1>7 DEF BoardInv, MemoryInv, KnownInv, SaidInv
<1>9. LeaseInv
  BY <1>3, <1>5
     DEF LeaseInv, RunInv, ClaimInv, FirmInv, YoungInv, GoneInv, ViewInv
<1>10. OnceInv
  BY <1>3, <1>5, <1>6
     DEF OnceInv, VoiceInv, ReadingInv, BatchInv, AnswerInv, SeenInv, LeadInv
<1> QED BY <1>8, <1>9, <1>10 DEF OneVoice

LEMMA VoiceStutter == OneVoice /\ UNCHANGED vars => OneVoice'
<1> SUFFICES ASSUME OneVoice, UNCHANGED vars PROVE OneVoice'
  OBVIOUS
<1>1. /\ board' = board /\ round' = round /\ inbox' = inbox
      /\ UNCHANGED <<said, running, answers, age>>
  BY DEF vars
<1>2. BoardStays /\ \A k \in Machines : StaysAsIs(k)
  BY <1>1, AllStay, BoardStaying
<1>3. \A k \in Machines :
         /\ Copy(k)' = Copy(k) /\ Claimed(k)' = Claimed(k) /\ Read(k)' = Read(k)
         /\ Stage(k)' = Stage(k) /\ Batch(k)' = Batch(k)
         /\ Left(k)' = Left(k) /\ Told(k)' = Told(k)
         /\ \A h \in Machines :
               Seen(k, h)' = Seen(k, h) /\ SeenTold(k, h)' = SeenTold(k, h)
  BY <1>2 DEF StaysAsIs, KeepsCopy, BoardStays
<1>4. \A k \in Machines :
         /\ (Lives(k)' <=> Lives(k)) /\ (Claiming(k)' <=> Claiming(k))
         /\ (Deciding(k)' <=> Deciding(k)) /\ (Voice(k)' <=> Voice(k))
         /\ (Firm(k)' <=> Firm(k))
  BY <1>1, <1>3 DEF Lives, Claiming, Voice, Deciding, Firm
<1>5. BoardInv'
  <2>1. Sorted(board)'
    BY <1>1 DEF OneVoice, BoardInv, Sorted, Ordered, Stamps, Notes
  <2>2. MemoryInv' /\ KnownInv' /\ SaidInv'
    BY <1>1, <1>3, <1>4 DEF OneVoice, BoardInv, MemoryInv, KnownInv, SaidInv
  <2> QED BY <2>1, <2>2 DEF BoardInv
<1>6. LeaseInv'
  <2>1. RunInv' /\ ClaimInv' /\ FirmInv'
    BY <1>1, <1>3, <1>4 DEF OneVoice, LeaseInv, RunInv, ClaimInv, FirmInv, Covers
  <2>2. YoungInv' /\ GoneInv' /\ ViewInv'
    BY <1>1, <1>3, <1>4 DEF OneVoice, LeaseInv, YoungInv, GoneInv, ViewInv
  <2> QED BY <2>1, <2>2 DEF LeaseInv
<1>7. OnceInv'
  <2>1. VoiceInv' /\ ReadingInv' /\ BatchInv' /\ AnswerInv'
    BY <1>1, <1>3, <1>4
       DEF OneVoice, OnceInv, VoiceInv, ReadingInv, BatchInv, AnswerInv, Covers
  <2>2. SeenInv' /\ LeadInv'
    BY <1>1, <1>3, <1>4 DEF OneVoice, OnceInv, SeenInv, LeadInv, Leader, Covers
  <2> QED BY <2>1, <2>2 DEF OnceInv
<1> QED BY <1>5, <1>6, <1>7 DEF OneVoice

\* While no read has failed, every step keeps the invariant.
LEMMA VoiceNext ==
    Faults = {} /\ LongEnough /\ IInv /\ VoiceAlways /\ [Next]_vars => VoiceAlways'
<1> SUFFICES ASSUME Faults = {}, LongEnough, IInv, VoiceAlways, [Next]_vars,
                    NoReadFailed'
             PROVE  OneVoice'
  BY DEF VoiceAlways
<1>1. TypeOK
  BY DEF IInv
<1>2. CASE UNCHANGED vars
  BY <1>2, VoiceStutter DEF VoiceAlways, NoReadFailed, vars, budgets
<1>3. CASE Say
  BY <1>1, <1>3, VoiceSay DEF VoiceAlways, NoReadFailed, Say, budgets
<1>4. CASE Tick
  BY <1>1, <1>4, VoiceTick DEF VoiceAlways, NoReadFailed, Tick, budgets
<1>5. ASSUME NEW m \in Machines, Start(m) PROVE OneVoice'
  BY <1>1, <1>5, VoiceStart DEF VoiceAlways, NoReadFailed, Start, budgets
<1>6. ASSUME NEW m \in Machines, Quit(m) PROVE OneVoice'
  BY <1>1, <1>6, VoiceQuit DEF VoiceAlways, NoReadFailed, Quit
<1>7. ASSUME NEW m \in Machines, Begin(m) PROVE OneVoice'
  BY <1>1, <1>7, VoiceBegin DEF VoiceAlways, NoReadFailed, Begin, budgets
<1>8. ASSUME NEW m \in Machines, Decide(m) PROVE OneVoice'
  BY <1>1, <1>8, VoiceDecide DEF VoiceAlways, NoReadFailed, Decide, budgets
<1>9. ASSUME NEW m \in Machines, Claim(m) PROVE OneVoice'
  BY <1>1, <1>9, VoiceClaim DEF VoiceAlways, NoReadFailed, Claim, budgets
<1>10. ASSUME NEW m \in Machines, ReadChat(m) PROVE OneVoice'
  BY <1>1, <1>10, VoiceRead DEF VoiceAlways, NoReadFailed, ReadChat, budgets
<1>11. ASSUME NEW m \in Machines, ReadFails(m) PROVE FALSE
  BY <1>1, <1>11 DEF NoReadFailed, ReadFails, TypeOK
<1>11a. ASSUME NEW m \in Machines, TakeAlone(m) PROVE FALSE
  BY <1>1, <1>11a DEF NoReadFailed, TakeAlone, TypeOK
<1>12. ASSUME NEW m \in Machines, RefreshLease(m) PROVE OneVoice'
  BY <1>1, <1>12, VoiceRefresh DEF VoiceAlways, NoReadFailed, RefreshLease, budgets
<1>13. ASSUME NEW m \in Machines, Absorb(m) PROVE OneVoice'
  BY <1>1, <1>13, VoiceAbsorb DEF VoiceAlways, NoReadFailed, Absorb, budgets
<1>14. ASSUME NEW m \in Machines, Finish(m) PROVE OneVoice'
  BY <1>1, <1>14, VoiceFinish DEF VoiceAlways, NoReadFailed, Finish, budgets
<1> QED
  BY <1>2, <1>3, <1>4, <1>5, <1>6, <1>7, <1>8, <1>9, <1>10, <1>11,
     <1>11a, <1>12, <1>13, <1>14
     DEF Next, Step

LEMMA OneVoiceIsEnough == TypeOK /\ VoiceAlways => SpokenOnce
<1> SUFFICES ASSUME TypeOK, OneVoice, NEW i \in Message PROVE answers[i] <= 1
  BY DEF SpokenOnce, VoiceAlways, NoReadFailed
<1>1. answers[i] \in Nat
  BY DEF TypeOK
<1> QED BY <1>1 DEF OneVoice, OnceInv, AnswerInv

\* With no fault, and with the code's times or longer ones, nothing the person
\* says is answered twice (channel.rs:2826-2828), however many dashboards there
\* are and however their rounds interleave.
THEOREM OneAnswer == Faults = {} /\ LongEnough => (Spec => []SpokenOnce)
<1> SUFFICES ASSUME Faults = {}, LongEnough PROVE Spec => []SpokenOnce
  OBVIOUS
<1>1. RoundsEnd
  BY DEF RoundsEnd
<1>2. Spec => []IInv
  BY <1>1, Invariance
<1>3. Init => VoiceAlways
  BY VoiceInit DEF VoiceAlways
<1>4. IInv /\ VoiceAlways /\ [Next]_vars => VoiceAlways'
  BY VoiceNext
<1>5. IInv /\ VoiceAlways => SpokenOnce
  BY OneVoiceIsEnough DEF IInv
<1> QED BY <1>2, <1>3, <1>4, <1>5, PTL DEF Spec

=============================================================================
