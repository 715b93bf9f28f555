---------------------------- MODULE BoardProofs ----------------------------
(***************************************************************************)
(* Proofs about Board, for any number of machines and controllers and any  *)
(* limits.                                                                 *)
(*                                                                         *)
(* A step of a board may drop messages, but accounts for each of them by   *)
(* its mark: that is the one fact (Accounted) all of compaction, clearing  *)
(* and restarting come down to.  From it follows that a machine's highest  *)
(* number only grows, which makes the next one new; and that its vector    *)
(* only grows, so that nothing is asked for twice.                         *)
(***************************************************************************)
EXTENDS Board, FiniteSetTheorems, WellFoundedInduction, TLAPS

(***************************************************************************)
(* Extremal elements of finite sets.                                       *)
(***************************************************************************)

\* In a finite set with a transitive and irreflexive order some element has
\* nothing before it: among the sets of elements before one, take a minimal.
LEMMA FirstElement ==
    ASSUME NEW S, IsFiniteSet(S), S # {}, NEW R \in SUBSET (S \X S),
           \A x \in S : <<x, x>> \notin R,
           \A x, y, z \in S : <<x, y>> \in R /\ <<y, z>> \in R => <<x, z>> \in R
    PROVE  \E x \in S : \A y \in S : <<y, x>> \notin R
<1> DEFINE Below(k) == {n \in S : <<n, k>> \in R}
           F == {Below(k) : k \in S}
<1>1. \A k \in S : Below(k) \in FiniteSubsetsOf(S)
  <2>1. \A k \in S : Below(k) \in SUBSET S
    OBVIOUS
  <2> HIDE DEF Below
  <2>2. \A k \in S : IsFiniteSet(Below(k))
    BY <2>1, FS_Subset
  <2>3. QED
    BY <2>1, <2>2 DEF FiniteSubsetsOf
<1>2. \E X \in F : \A Y \in F : <<Y, X>> \notin StrictSubsetOrdering(S)
  <2> HIDE DEF Below
  <2>1. F \subseteq FiniteSubsetsOf(S) /\ F # {}
    BY <1>1
  <2>2. IsWellFoundedOn(StrictSubsetOrdering(S), FiniteSubsetsOf(S))
    BY FS_StrictSubsetOrderingWellFounded
  <2> HIDE DEF F
  <2>3. QED
    BY <2>1, <2>2, WFMin
<1>3. PICK k \in S :
         \A j \in S : <<Below(j), Below(k)>> \notin StrictSubsetOrdering(S)
  <2> HIDE DEF Below
  <2>1. QED
    BY <1>2
<1>4. SUFFICES ASSUME NEW j \in S, <<j, k>> \in R PROVE FALSE
  OBVIOUS
<1>5. Below(j) \subseteq Below(k)
  BY <1>4
<1>6. j \in Below(k) /\ j \notin Below(j)
  BY <1>4
<1>7. Below(j) \in SUBSET S /\ Below(k) \in SUBSET S
  OBVIOUS
<1> HIDE DEF Below
<1>8. <<Below(j), Below(k)>> \in StrictSubsetOrdering(S)
  BY <1>5, <1>6, <1>7 DEF StrictSubsetOrdering
<1>9. QED
  BY <1>3, <1>8

\* Max returns the greatest element.
LEMMA MaxIsGreatest ==
    ASSUME NEW N \in Nat, NEW S \in SUBSET (0..N), S # {}
    PROVE  Max(S) \in S /\ \A y \in S : y <= Max(S)
<1> DEFINE R == {p \in S \X S : p[1] > p[2]}
<1>1. IsFiniteSet(S) /\ S \subseteq Int
  <2>1. S \in SUBSET Nat /\ \A s \in S : s <= N
    OBVIOUS
  <2>2. QED
    BY <2>1, FS_BoundedSetOfNaturals
<1>2. \E x \in S : \A y \in S : <<y, x>> \notin R
  <2>1. \A x \in S : <<x, x>> \notin R
    OBVIOUS
  <2>2. \A x, y, z \in S : <<x, y>> \in R /\ <<y, z>> \in R => <<x, z>> \in R
    OBVIOUS
  <2>3. R \in SUBSET (S \X S)
    OBVIOUS
  <2> HIDE DEF R
  <2>4. QED
    BY <1>1, <2>1, <2>2, <2>3, FirstElement
<1>3. PICK x \in S : \A y \in S : <<y, x>> \notin R
  <2> HIDE DEF R
  <2>1. QED
    BY <1>2
<1>4. \A y \in S : ~(y > x)
  BY <1>3
<1>5. \A y \in S : x >= y
  BY <1>1, <1>4
<1>6. QED
  BY <1>1, <1>5 DEF Max

\* A set of numbers has a least one.
LEMMA LeastExists ==
    ASSUME NEW N \in Nat, NEW S \in SUBSET (0..N), S # {}
    PROVE  \E x \in S : \A y \in S : x <= y
<1> DEFINE R == {p \in S \X S : p[1] < p[2]}
<1>1. IsFiniteSet(S) /\ S \subseteq Int
  <2>1. S \in SUBSET Nat /\ \A s \in S : s <= N
    OBVIOUS
  <2>2. QED
    BY <2>1, FS_BoundedSetOfNaturals
<1>2. \E x \in S : \A y \in S : <<y, x>> \notin R
  <2>1. \A x \in S : <<x, x>> \notin R
    OBVIOUS
  <2>2. \A x, y, z \in S : <<x, y>> \in R /\ <<y, z>> \in R => <<x, z>> \in R
    OBVIOUS
  <2>3. R \in SUBSET (S \X S)
    OBVIOUS
  <2> HIDE DEF R
  <2>4. QED
    BY <1>1, <2>1, <2>2, <2>3, FirstElement
<1>3. PICK x \in S : \A y \in S : <<y, x>> \notin R
  <2> HIDE DEF R
  <2>1. QED
    BY <1>2
<1>4. \A y \in S : ~(y < x)
  BY <1>3
<1>5. QED
  BY <1>1, <1>4

(***************************************************************************)
(* What the operators on a log return.                                     *)
(***************************************************************************)

\* There are only so many messages.
LEMMA MessageFinite == IsFiniteSet(Message)
<1> DEFINE S == (Board \X Seq) \X (Time \X Seq)
           f == [x \in S |-> [origin |-> x[1][1], seq |-> x[1][2],
                              ts |-> x[2][1], tag |-> x[2][2]]]
<1>1. IsFiniteSet(Board) /\ IsFiniteSet(Seq) /\ IsFiniteSet(Time)
  BY BoardsAssumption, LimitsAssumption, FS_Interval DEF Board, Seq, Time
<1>2. IsFiniteSet(S)
  <2>1. IsFiniteSet(Board \X Seq) /\ IsFiniteSet(Time \X Seq)
    BY <1>1, FS_Product
  <2>2. QED
    BY <2>1, FS_Product
<1>3. f \in Surjection(S, Message)
  <2>1. f \in [S -> Message]
    BY DEF Message
  <2>2. \A m \in Message : \E x \in S : f[x] = m
    <3>1. SUFFICES ASSUME NEW m \in Message PROVE \E x \in S : f[x] = m
      OBVIOUS
    <3>2. <<<<m.origin, m.seq>>, <<m.ts, m.tag>>>> \in S
      BY DEF Message
    <3>3. f[<<<<m.origin, m.seq>>, <<m.ts, m.tag>>>>] = m
      BY <3>2 DEF Message
    <3>4. QED
      BY <3>2, <3>3
  <2>3. QED
    BY <2>1, <2>2 DEF Surjection
<1>4. QED
  <2> HIDE DEF S, f
  <2>1. QED
    BY <1>2, <1>3, FS_Surjection

\* The fields of a message, for the arithmetic of the proofs.
LEMMA MessageFields ==
    ASSUME NEW m \in Message
    PROVE  /\ m.origin \in Board
           /\ m.seq \in Nat /\ 1 <= m.seq /\ m.seq <= MaxPosts
           /\ m.ts \in Nat
  BY LimitsAssumption DEF Message, Seq, Time

\* The numbers of a log are within bounds.
LEMMA SeqsBounded ==
    ASSUME NEW log \in SUBSET Message
    PROVE  /\ Seqs(log) \in SUBSET (0..MaxPosts)
           /\ \A m \in log : m.seq \in Seqs(log)
           /\ \A n \in Seqs(log) : \E m \in log : n = m.seq
  BY MessageFields, LimitsAssumption DEF Seqs

\* The highest number a log ever held is that of a message, or the mark; and
\* nothing in the log is above it.
LEMMA HighestOfLog ==
    ASSUME NEW log \in SUBSET Message, NEW mark \in 0..MaxPosts
    PROVE  /\ Highest(log, mark) \in 0..MaxPosts
           /\ mark <= Highest(log, mark)
           /\ \A m \in log : m.seq <= Highest(log, mark)
           /\ \/ Highest(log, mark) = mark
              \/ \E m \in log : Highest(log, mark) = m.seq
<1>1. /\ Seqs(log) \cup {mark} \in SUBSET (0..MaxPosts)
      /\ Seqs(log) \cup {mark} # {}
  BY SeqsBounded
<1>2. /\ Max(Seqs(log) \cup {mark}) \in Seqs(log) \cup {mark}
      /\ \A y \in Seqs(log) \cup {mark} : y <= Max(Seqs(log) \cup {mark})
  BY <1>1, MaxIsGreatest, LimitsAssumption
<1>3. QED
  BY <1>1, <1>2, SeqsBounded DEF Highest

\* The highest number of messages that go is the number of one of them.
LEMMA HighestGone ==
    ASSUME NEW gone \in SUBSET Message, gone # {}
    PROVE  /\ Max(Seqs(gone)) \in 0..MaxPosts
           /\ \A m \in gone : m.seq <= Max(Seqs(gone))
           /\ \E m \in gone : Max(Seqs(gone)) = m.seq
<1>1. Seqs(gone) \in SUBSET (0..MaxPosts) /\ Seqs(gone) # {}
  BY SeqsBounded
<1>2. QED
  BY <1>1, SeqsBounded, MaxIsGreatest, LimitsAssumption

\* What does not go when a log is too long comes after all that goes.
LEMMA SurplusIsOldest ==
    ASSUME NEW log \in SUBSET Message, NEW g \in Surplus(log),
           NEW k \in log \ Surplus(log)
    PROVE  g.seq < k.seq
<1> DEFINE Above(x) == {n \in log : n.seq > x.seq}
<1>1. /\ g \in log /\ Cardinality(Above(g)) >= Retain
      /\ ~(Cardinality(Above(k)) >= Retain)
  BY DEF Surplus
<1>2. SUFFICES ASSUME k.seq <= g.seq PROVE FALSE
  BY <1>1, MessageFields
<1>3. Above(g) \subseteq Above(k)
  BY <1>1, <1>2, MessageFields
<1>4. IsFiniteSet(Above(k))
  <2>1. Above(k) \in SUBSET Message
    OBVIOUS
  <2> HIDE DEF Above
  <2>2. QED
    BY <2>1, MessageFinite, FS_Subset
<1>5. /\ Cardinality(Above(g)) <= Cardinality(Above(k))
      /\ Cardinality(Above(g)) \in Nat /\ Cardinality(Above(k)) \in Nat
  <2> HIDE DEF Above
  <2>1. IsFiniteSet(Above(g)) /\ Cardinality(Above(g)) <= Cardinality(Above(k))
    BY <1>3, <1>4, FS_Subset
  <2>2. QED
    BY <2>1, <1>4, FS_CardinalityType
<1> HIDE DEF Above
<1>6. QED
  BY <1>1, <1>5, LimitsAssumption

\* What has not aged out comes after all that has.
LEMMA AgedIsOldest ==
    ASSUME NEW log \in SUBSET Message, NEW t \in Time,
           NEW g \in Aged(log, t), NEW k \in log \ Aged(log, t)
    PROVE  g.seq < k.seq
<1>1. g \in log /\ \A n \in log : n.seq <= g.seq => n.ts < t - Window
  BY DEF Aged
<1>2. PICK n \in log : n.seq <= k.seq /\ ~(n.ts < t - Window)
  BY DEF Aged
<1>3. QED
  BY <1>1, <1>2, MessageFields

\* The mark read back from a file is below all its messages, reaches to the
\* first of them, and is the header's when the file is empty.
LEMMA MarkReadBack ==
    ASSUME NEW log \in SUBSET Message, NEW header \in 0..MaxPosts,
           \A m \in log : header < m.seq
    PROVE  /\ MarkOnFile(log, header) \in 0..MaxPosts
           /\ header <= MarkOnFile(log, header)
           /\ \A m \in log : MarkOnFile(log, header) < m.seq
           /\ log = {} => MarkOnFile(log, header) = header
           /\ \A n \in 0..MaxPosts :
                log # {} /\ (\A m \in log : n < m.seq) => n <= MarkOnFile(log, header)
           /\ \/ MarkOnFile(log, header) = header
              \/ \E m \in log : MarkOnFile(log, header) = m.seq - 1
<1> DEFINE First == {n \in log : \A k \in log : n.seq <= k.seq}
           Marks == {header} \cup {m.seq - 1 : m \in First}
<1>1. Marks \in SUBSET (0..MaxPosts) /\ Marks # {}
  BY MessageFields, LimitsAssumption
<1>2. MarkOnFile(log, header) = Max(Marks)
  BY DEF MarkOnFile
<1>3. Max(Marks) \in Marks /\ \A y \in Marks : y <= Max(Marks)
  <2> HIDE DEF Marks
  <2>1. QED
    BY <1>1, MaxIsGreatest, LimitsAssumption
<1>4. log # {} => First # {}
  <2>1. SUFFICES ASSUME log # {} PROVE First # {}
    OBVIOUS
  <2>2. Seqs(log) \in SUBSET (0..MaxPosts) /\ Seqs(log) # {}
    BY <2>1, SeqsBounded
  <2>3. PICK x \in Seqs(log) : \A y \in Seqs(log) : x <= y
    BY <2>2, LeastExists, LimitsAssumption
  <2>4. PICK n \in log : x = n.seq
    BY SeqsBounded
  <2>5. n \in First
    BY <2>3, <2>4, SeqsBounded
  <2>6. QED
    BY <2>5
<1>5. \A m \in log, n \in First : n.seq <= m.seq
  OBVIOUS
<1>6. \A m \in log : Max(Marks) < m.seq
  BY <1>3, <1>5, MessageFields, LimitsAssumption
<1>7. header <= Max(Marks)
  BY <1>3
<1>8. \A n \in 0..MaxPosts :
         log # {} /\ (\A m \in log : n < m.seq) => n <= Max(Marks)
  <2>1. SUFFICES ASSUME NEW n \in 0..MaxPosts, log # {}, \A m \in log : n < m.seq
                 PROVE  n <= Max(Marks)
    OBVIOUS
  <2>2. PICK m \in First : TRUE
    BY <1>4, <2>1
  <2>3. m \in log /\ m.seq - 1 \in Marks
    OBVIOUS
  <2>4. n <= m.seq - 1 /\ m.seq - 1 <= Max(Marks)
    <3>1. n < m.seq /\ m.seq \in Nat
      BY <2>1, <2>3, MessageFields
    <3>2. m.seq - 1 <= Max(Marks)
      BY <1>3, <2>3
    <3>3. QED
      BY <3>1, <3>2, LimitsAssumption
  <2>5. Max(Marks) \in Int
    BY <1>1, <1>3
  <2>6. QED
    BY <2>2, <2>4, <2>5, <2>3, MessageFields
<1>9. \/ Max(Marks) = header
      \/ \E m \in log : Max(Marks) = m.seq - 1
  BY <1>3
<1>10. Max(Marks) \in 0..MaxPosts
  BY <1>1, <1>3
<1>11. log = {} => Max(Marks) = header
  BY <1>9
<1> HIDE DEF Marks, First
<1>12. QED
  BY <1>2, <1>6, <1>7, <1>8, <1>9, <1>10, <1>11

\* A vector's entry is the end of an unbroken run from the mark, and of the
\* longest.
LEMMA ContiguousRun ==
    ASSUME NEW log \in SUBSET Message, NEW mark \in 0..MaxPosts
    PROVE  /\ Contiguous(log, mark) \in mark..MaxPosts
           /\ mark+1..Contiguous(log, mark) \subseteq Seqs(log)
           /\ \A n \in mark..MaxPosts :
                mark+1..n \subseteq Seqs(log) => n <= Contiguous(log, mark)
<1> DEFINE Runs == {n \in mark..MaxPosts : mark+1..n \subseteq Seqs(log)}
<1>1. Runs \in SUBSET (0..MaxPosts) /\ mark \in Runs
  BY LimitsAssumption
<1>2. Contiguous(log, mark) = Max(Runs)
  BY DEF Contiguous
<1>3. Max(Runs) \in Runs /\ \A y \in Runs : y <= Max(Runs)
  <2> HIDE DEF Runs
  <2>1. QED
    BY <1>1, MaxIsGreatest, LimitsAssumption
<1>4. QED
  BY <1>2, <1>3

\* What becomes of a log when messages may go: each is still there or below the
\* mark, which does not fall.
Accounts(log, mark, after, markAfter) ==
    /\ mark <= markAfter
    /\ \A m \in log : m \in after \/ m.seq <= markAfter

\* Then its vector's entry and its highest number do not fall either.
LEMMA AccountsKeeps ==
    ASSUME NEW log \in SUBSET Message, NEW mark \in 0..MaxPosts,
           NEW after \in SUBSET Message, NEW markAfter \in 0..MaxPosts,
           Accounts(log, mark, after, markAfter)
    PROVE  /\ Contiguous(log, mark) <= Contiguous(after, markAfter)
           /\ Highest(log, mark) <= Highest(after, markAfter)
<1>1. Highest(log, mark) <= Highest(after, markAfter)
  BY HighestOfLog, MessageFields, LimitsAssumption DEF Accounts
<1>2. Contiguous(log, mark) <= Contiguous(after, markAfter)
  <2> DEFINE v == Contiguous(log, mark)
  <2>1. /\ v \in mark..MaxPosts /\ mark+1..v \subseteq Seqs(log)
        /\ Contiguous(after, markAfter) \in markAfter..MaxPosts
        /\ \A n \in markAfter..MaxPosts :
             markAfter+1..n \subseteq Seqs(after) => n <= Contiguous(after, markAfter)
    BY ContiguousRun
  <2> HIDE DEF v
  <2>2. CASE v <= markAfter
    BY <2>1, <2>2, LimitsAssumption DEF v
  <2>3. CASE ~(v <= markAfter)
    <3>1. v \in markAfter..MaxPosts
      BY <2>1, <2>3, LimitsAssumption
    <3>2. ASSUME NEW n \in markAfter+1..v PROVE n \in Seqs(after)
      <4>1. n \in mark+1..v /\ n \in Int /\ ~(n <= markAfter)
        BY <2>1, LimitsAssumption DEF Accounts
      <4>2. PICK m \in log : n = m.seq
        BY <4>1, <2>1, SeqsBounded
      <4>3. m \in after
        BY <4>1, <4>2 DEF Accounts
      <4>4. QED
        BY <4>2, <4>3, SeqsBounded
    <3>3. QED
      BY <2>1, <3>1, <3>2 DEF v
  <2>4. QED
    BY <2>2, <2>3 DEF v
<1>3. QED
  BY <1>1, <1>2

\* A page has a first message, as long as no two on it share an id.
LEMMA FirstOfPage ==
    ASSUME NEW page \in SUBSET Message, page # {},
           \A m, n \in page : m.origin = n.origin /\ m.seq = n.seq => m = n
    PROVE  FirstOf(page) \in page
<1> DEFINE R == {p \in page \X page : Before(p[1], p[2])}
<1>1. IsFiniteSet(page)
  BY MessageFinite, FS_Subset
<1>2. \E m \in page : \A n \in page : <<n, m>> \notin R
  <2>1. R \in SUBSET (page \X page)
    OBVIOUS
  <2>2. \A x \in page : <<x, x>> \notin R
    BY MessageFields DEF Before, Board
  <2>3. \A x, y, z \in page : <<x, y>> \in R /\ <<y, z>> \in R => <<x, z>> \in R
    BY MessageFields, SMTT(30) DEF Before, Board
  <2> HIDE DEF R
  <2>4. QED
    BY <1>1, <2>1, <2>2, <2>3, FirstElement
<1>3. PICK m \in page : \A n \in page : <<n, m>> \notin R
  <2> HIDE DEF R
  <2>1. QED
    BY <1>2
<1>4. ASSUME NEW n \in page \ {m} PROVE Before(m, n)
  <2>1. n \in page /\ <<n, m>> \in page \X page /\ ~Before(n, m)
    BY <1>3
  <2>2. m.origin # n.origin \/ m.seq # n.seq
    OBVIOUS
  <2>3. /\ m.origin \in Int /\ m.seq \in Int /\ m.ts \in Int
        /\ n.origin \in Int /\ n.seq \in Int /\ n.ts \in Int
    BY <2>1, MessageFields DEF Board
  <2>4. QED
    BY <2>1, <2>2, <2>3 DEF Before
<1>5. QED
  BY <1>4 DEF FirstOf

(***************************************************************************)
(* The invariant.                                                          *)
(***************************************************************************)

\* What the proofs assume: no crash cuts a line short.
NoTornLines == "torn lines" \notin Troubles

\* A board's files say what it holds in memory.
FileInv ==
    /\ lines = held
    /\ \A b \in Board : torn[b] = {}

\* Messages are above the mark, which is on file unless the file's first line
\* says as much.
MarkInv ==
    \A b, o \in Board :
        /\ \A m \in held[b] : m.origin = o => low[b][o] < m.seq
        /\ through[b][o] <= low[b][o]
        /\ (\A m \in held[b] : m.origin # o) => through[b][o] = low[b][o]

\* No number is used before it was minted.
CountInv ==
    /\ \A b, o \in Board : low[b][o] <= minted[o]
    /\ \A m \in Everywhere : m.seq <= minted[m.origin]

\* A machine remembers having used every number of its own that is anywhere.
HighestOf(b) == Highest(LogOf(held[b], b), low[b][b])

OwnInv == \A m \in Everywhere : m.seq <= HighestOf(m.origin)

\* A page being filed is not yet filed whole.
PageInv ==
    \A c \in Controllers : round[c].stage \in {"pull", "push"} => round[c].page # {}

IInv ==
    /\ TypeOK
    /\ FileInv
    /\ MarkInv
    /\ CountInv
    /\ OwnInv
    /\ PageInv
    /\ IdsAreUnique

\* What a step does to the boards: nothing said goes back.
Accounted ==
    \A b, o \in Board :
        Accounts(LogOf(held[b], o), low[b][o], LogOf(held'[b], o), low'[b][o])

\* The messages everywhere are messages of the boards and of the pages.
LEMMA Everyone ==
    ASSUME NEW m
    PROVE  m \in Everywhere <=> \/ \E b \in Board : m \in held[b] \cup lines[b]
                                \/ \E c \in Controllers : m \in round[c].page
<1>1. m \in UNION {held[b] \cup lines[b] : b \in Board}
        <=> \E b \in Board : m \in held[b] \cup lines[b]
  OBVIOUS
<1>2. m \in UNION {round[c].page : c \in Controllers}
        <=> \E c \in Controllers : m \in round[c].page
  OBVIOUS
<1>3. QED
  BY <1>1, <1>2 DEF Everywhere

(***************************************************************************)
(* Filing a message.                                                       *)
(***************************************************************************)

\* Filing keeps memory and file the same, drops the oldest only, and leaves the
\* message held or below the mark.
FiledWell(b, m) ==
    /\ held' \in [Board -> SUBSET Message] /\ low' \in [Board -> Vector]
    /\ through' \in [Board -> Vector] /\ torn' = torn
    /\ FileInv' /\ MarkInv' /\ Accounted
    /\ \A x \in Board : held'[x] \subseteq held[x] \cup (IF x = b THEN {m} ELSE {})
    /\ \A x, o \in Board :
         \/ low'[x][o] = low[x][o]
         \/ \E k \in held[x] \cup (IF x = b THEN {m} ELSE {}) :
              k.origin = o /\ low'[x][o] = k.seq
    /\ ~Refused(b, m) => m \in held'[b] \/ m.seq <= low'[b][m.origin]

LEMMA FileStep ==
    ASSUME TypeOK, FileInv, MarkInv, NEW b \in Board, NEW m \in Message, File(b, m)
    PROVE  FiledWell(b, m)
<1> USE DEF Vector
<1>1. CASE Refused(b, m)
  <2>1. UNCHANGED <<held, low, lines, through, torn>>
    BY <1>1 DEF File
  <2>2. Accounted
    BY <2>1, LimitsAssumption DEF Accounted, Accounts, LogOf, TypeOK
  <2>3. FileInv' /\ MarkInv'
    BY <2>1 DEF FileInv, MarkInv
  <2>4. QED
    BY <1>1, <2>1, <2>2, <2>3 DEF FiledWell, TypeOK
<1>2. CASE ~Refused(b, m)
  <2> DEFINE log  == LogOf(held[b], m.origin) \cup {m}
             gone == Surplus(log)
             mark == IF gone = {} THEN low[b][m.origin] ELSE Max(Seqs(gone))
  <2>1. /\ log \in SUBSET Message /\ gone \subseteq log /\ m \in log
        /\ m.origin \in Board /\ \A k \in log : k.origin = m.origin
    BY MessageFields DEF TypeOK, LogOf, Surplus
  <2>2. \A k \in log : k.seq \in 0..MaxPosts /\ low[b][m.origin] < k.seq
    BY <1>2, <2>1, MessageFields, LimitsAssumption
    DEF Refused, MarkInv, LogOf, TypeOK
  <2>3. /\ held' = [held EXCEPT ![b] = (@ \cup {m}) \ gone]
        /\ low' = [low EXCEPT ![b][m.origin] = mark]
        /\ IF gone = {} THEN Append(b, m) ELSE Rewrite(b, m.origin, log \ gone, mark)
    BY <1>2 DEF File
  <2>4. /\ mark \in 0..MaxPosts /\ low[b][m.origin] <= mark
        /\ \A k \in gone : k.seq <= mark
        /\ \A k \in log \ gone : mark < k.seq
        /\ gone # {} => \E k \in gone : mark = k.seq
    <3>1. CASE gone = {}
      <4>1. mark = low[b][m.origin] /\ mark \in 0..MaxPosts
        BY <3>1, <2>1 DEF TypeOK
      <4> HIDE DEF log, gone, mark
      <4>2. QED
        BY <3>1, <4>1, <2>1, <2>2, LimitsAssumption
    <3>2. CASE gone # {}
      <4>1. /\ mark \in 0..MaxPosts /\ \A k \in gone : k.seq <= mark
            /\ \E k \in gone : mark = k.seq
        <5>1. gone \in SUBSET Message
          BY <2>1
        <5>2. mark = Max(Seqs(gone))
          BY <3>2
        <5> HIDE DEF gone, mark
        <5>3. QED
          BY <3>2, <5>1, <5>2, HighestGone
      <4>2. \A g \in gone : \A k \in log \ gone : g.seq < k.seq
        <5> HIDE DEF log
        <5>1. QED
          BY <2>1, SurplusIsOldest
      <4> HIDE DEF log, gone, mark
      <4>3. PICK g \in gone : mark = g.seq
        BY <4>1
      <4>4. low[b][m.origin] < g.seq /\ low[b][m.origin] \in Int
        BY <2>1, <2>2 DEF TypeOK
      <4>5. QED
        BY <3>2, <4>1, <4>2, <4>3, <4>4
    <3>3. QED
      BY <3>1, <3>2
  <2>5. /\ lines' = held' /\ torn' = torn
        /\ through' = IF gone = {} THEN through
                      ELSE [through EXCEPT ![b][m.origin] = mark]
    <3>1. torn[b] = {} /\ lines = held
      BY DEF FileInv
    <3>2. torn' = [torn EXCEPT ![b] = @ \ {m.origin}]
      BY <2>3 DEF Append, Rewrite
    <3>3. torn' = torn
      BY <3>1, <3>2 DEF TypeOK
    <3>4. CASE gone = {}
      <4>1. lines' = [lines EXCEPT ![b] = @ \cup {m}] /\ UNCHANGED through
        BY <2>3, <3>1, <3>4 DEF Append
      <4>2. QED
        BY <2>3, <3>1, <3>3, <3>4, <4>1 DEF TypeOK
    <3>5. CASE gone # {}
      <4>1. /\ lines' = [lines EXCEPT ![b] =
                           (@ \ LogOf(@, m.origin)) \cup (log \ gone)]
            /\ through' = [through EXCEPT ![b][m.origin] = mark]
        BY <2>3, <3>5 DEF Rewrite
      <4>2. (held[b] \ LogOf(held[b], m.origin)) \cup (log \ gone)
              = (held[b] \cup {m}) \ gone
        BY <2>1 DEF LogOf
      <4> HIDE DEF log, gone, mark
      <4>3. QED
        BY <2>3, <3>1, <3>3, <3>5, <4>1, <4>2 DEF TypeOK
    <3>6. QED
      BY <3>4, <3>5
  <2>6. /\ (held[b] \cup {m}) \ gone \in SUBSET Message
        /\ \A k \in held[b] \cup {m} : k.origin = m.origin => k \in log
        /\ \A k \in held[b] \cup {m} : k \in gone => k.origin = m.origin
    BY <2>1 DEF TypeOK, LogOf
  <2> HIDE DEF log, gone, mark
  <2>7. /\ held' \in [Board -> SUBSET Message] /\ low' \in [Board -> Vector]
        /\ through' \in [Board -> Vector]
    BY <2>1, <2>3, <2>4, <2>5, <2>6 DEF TypeOK
  <2>8. FileInv'
    BY <2>5 DEF FileInv
  <2>9. /\ held'[b] = (held[b] \cup {m}) \ gone
        /\ low'[b][m.origin] = mark
        /\ \A o \in Board : o # m.origin => low'[b][o] = low[b][o]
        /\ \A x \in Board : x # b => held'[x] = held[x] /\ low'[x] = low[x]
    BY <2>1, <2>3 DEF TypeOK
  <2>10. MarkInv'
    <3>1. /\ through'[b][m.origin] <= mark
          /\ \A x, o \in Board : x # b \/ o # m.origin => through'[x][o] = through[x][o]
      BY <2>1, <2>4, <2>5, LimitsAssumption DEF TypeOK, MarkInv
    <3>2. (\A k \in held'[b] : k.origin # m.origin) => through'[b][m.origin] = mark
      BY <2>1, <2>4, <2>5, <2>9 DEF TypeOK
    <3>3. ASSUME NEW x \in Board, NEW o \in Board
          PROVE  /\ \A k \in held'[x] : k.origin = o => low'[x][o] < k.seq
                 /\ through'[x][o] <= low'[x][o]
                 /\ (\A k \in held'[x] : k.origin # o) => through'[x][o] = low'[x][o]
      <4>1. CASE x = b /\ o = m.origin
        BY <4>1, <3>1, <3>2, <2>4, <2>6, <2>9
      <4>2. CASE x = b /\ o # m.origin
        <5>1. \A k \in Message : k.origin = o => (k \in held'[b] <=> k \in held[b])
          BY <4>2, <2>6, <2>9
        <5>2. /\ \A k \in held'[b] : k.origin = o => k \in held[b]
              /\ \A k \in held[b] : k.origin = o => k \in held'[b]
          BY <5>1, <2>7 DEF TypeOK
        <5>3. low'[x][o] = low[b][o] /\ through'[x][o] = through[b][o]
          BY <4>2, <2>9, <3>1
        <5>4. QED
          BY <4>2, <5>2, <5>3 DEF MarkInv
      <4>3. CASE x # b
        BY <4>3, <2>9, <3>1 DEF MarkInv
      <4>4. QED
        BY <4>1, <4>2, <4>3
    <3>4. QED
      BY <3>3 DEF MarkInv
  <2>11. Accounted
    <3>1. ASSUME NEW x \in Board, NEW o \in Board
          PROVE  /\ low[x][o] <= low'[x][o]
                 /\ \A k \in LogOf(held[x], o) :
                       k \in LogOf(held'[x], o) \/ k.seq <= low'[x][o]
      <4>1. low[x][o] \in 0..MaxPosts
        BY DEF TypeOK
      <4>2. CASE x = b /\ o = m.origin
        BY <4>2, <2>4, <2>6, <2>9 DEF LogOf
      <4>3. CASE x = b /\ o # m.origin
        BY <4>1, <4>3, <2>6, <2>9, LimitsAssumption DEF LogOf
      <4>4. CASE x # b
        BY <4>1, <4>4, <2>9, LimitsAssumption DEF LogOf
      <4>5. QED
        BY <4>2, <4>3, <4>4
    <3>2. QED
      BY <3>1 DEF Accounted, Accounts
  <2>12. ASSUME NEW x \in Board, NEW o \in Board
         PROVE  \/ low'[x][o] = low[x][o]
                \/ \E k \in held[x] \cup (IF x = b THEN {m} ELSE {}) :
                      k.origin = o /\ low'[x][o] = k.seq
    <3>1. CASE x = b /\ o = m.origin /\ gone # {}
      <4>1. PICK k \in gone : mark = k.seq
        BY <2>4, <3>1
      <4>2. k \in held[b] \cup {m} /\ k.origin = m.origin
        BY <2>1, <4>1 DEF log, LogOf
      <4>3. QED
        BY <3>1, <4>1, <4>2, <2>9
    <3>2. CASE ~(x = b /\ o = m.origin /\ gone # {})
      BY <3>2, <2>9 DEF mark
    <3>3. QED
      BY <3>1, <3>2
  <2>13. /\ m \in held'[b] \/ m.seq <= low'[b][m.origin]
         /\ \A x \in Board :
              held'[x] \subseteq held[x] \cup (IF x = b THEN {m} ELSE {})
    BY <2>4, <2>9
  <2>14. QED
    BY <2>5, <2>7, <2>8, <2>10, <2>11, <2>12, <2>13 DEF FiledWell
<1>3. QED
  BY <1>1, <1>2

(***************************************************************************)
(* Clearing and restarting.                                                *)
(***************************************************************************)

\* Memory and file stay the same, and messages only go.
DroppedWell ==
    /\ held' \in [Board -> SUBSET Message] /\ low' \in [Board -> Vector]
    /\ through' \in [Board -> Vector]
    /\ FileInv' /\ MarkInv' /\ Accounted
    /\ torn' \in [Board -> SUBSET Board]
    /\ \A x \in Board : held'[x] \subseteq held[x]
    /\ \A x, o \in Board : low'[x][o] <= minted[o]

LEMMA ClearStep ==
    ASSUME TypeOK, FileInv, MarkInv, CountInv, NEW b \in Board, Clear(b)
    PROVE  DroppedWell
<1> USE DEF Vector
<1> DEFINE mark(o) == Highest(LogOf(held[b], o), low[b][o])
           cleared == {m.origin : m \in held[b]}
<1>1. ASSUME NEW o \in Board
      PROVE  /\ mark(o) \in 0..MaxPosts /\ low[b][o] <= mark(o)
             /\ \A m \in held[b] : m.origin = o => m.seq <= mark(o)
             /\ mark(o) <= minted[o]
             /\ o \notin cleared => mark(o) = low[b][o]
  <2>1. /\ LogOf(held[b], o) \in SUBSET Message /\ low[b][o] \in 0..MaxPosts
        /\ \A m \in held[b] : m.origin = o => m \in LogOf(held[b], o)
    BY DEF TypeOK, LogOf
  <2>2. \A m \in LogOf(held[b], o) : m \in Everywhere /\ m.origin = o
    BY Everyone DEF LogOf
  <2>3. o \notin cleared => LogOf(held[b], o) = {}
    BY DEF LogOf
  <2>4. /\ Highest(LogOf(held[b], o), low[b][o]) \in 0..MaxPosts
        /\ low[b][o] <= Highest(LogOf(held[b], o), low[b][o])
        /\ \A m \in LogOf(held[b], o) : m.seq <= Highest(LogOf(held[b], o), low[b][o])
        /\ \/ Highest(LogOf(held[b], o), low[b][o]) = low[b][o]
           \/ \E m \in LogOf(held[b], o) :
                Highest(LogOf(held[b], o), low[b][o]) = m.seq
    BY <2>1, HighestOfLog
  <2>5. QED
    BY <2>1, <2>2, <2>3, <2>4 DEF CountInv
<1>2. /\ held' = [held EXCEPT ![b] = {}]
      /\ low' = [low EXCEPT ![b] = [o \in Board |-> mark(o)]]
      /\ lines' = [lines EXCEPT ![b] = {m \in @ : m.origin \notin cleared}]
      /\ through' = [through EXCEPT ![b] =
            [o \in Board |-> IF o \in cleared THEN mark(o) ELSE @[o]]]
      /\ torn' = [torn EXCEPT ![b] = @ \ cleared]
  BY DEF Clear
<1>3. {m \in held[b] : m.origin \notin cleared} = {}
  OBVIOUS
<1>4. FileInv'
  BY <1>2, <1>3 DEF FileInv, TypeOK
<1>5. /\ held'[b] = {} /\ \A o \in Board : low'[b][o] = mark(o)
      /\ \A o \in Board : through'[b][o] = IF o \in cleared THEN mark(o) ELSE through[b][o]
      /\ \A x \in Board : x # b => /\ held'[x] = held[x] /\ low'[x] = low[x]
                                   /\ through'[x] = through[x]
  BY <1>2 DEF TypeOK
<1>6. \A o \in Board : o \notin cleared => \A m \in held[b] : m.origin # o
  OBVIOUS
<1>7. /\ held' \in [Board -> SUBSET Message] /\ low' \in [Board -> Vector]
      /\ through' \in [Board -> Vector] /\ torn' \in [Board -> SUBSET Board]
  BY <1>1, <1>2 DEF TypeOK
<1> HIDE DEF mark, cleared
<1>8. MarkInv'
  <2>1. ASSUME NEW x \in Board, NEW o \in Board
        PROVE  /\ \A m \in held'[x] : m.origin = o => low'[x][o] < m.seq
               /\ through'[x][o] <= low'[x][o]
               /\ (\A m \in held'[x] : m.origin # o) => through'[x][o] = low'[x][o]
    <3>1. CASE x = b
      <4>1. through'[b][o] = mark(o) /\ mark(o) \in Int
        BY <1>1, <1>5, <1>6, LimitsAssumption DEF MarkInv
      <4>2. QED
        BY <3>1, <4>1, <1>5
    <3>2. CASE x # b
      BY <3>2, <1>5 DEF MarkInv
    <3>3. QED
      BY <3>1, <3>2
  <2>2. QED
    BY <2>1 DEF MarkInv
<1>9. Accounted
  <2>1. ASSUME NEW x \in Board, NEW o \in Board
        PROVE  /\ low[x][o] <= low'[x][o]
               /\ \A k \in LogOf(held[x], o) :
                     k \in LogOf(held'[x], o) \/ k.seq <= low'[x][o]
    <3>1. CASE x = b
      BY <3>1, <1>1, <1>5 DEF LogOf
    <3>2. CASE x # b
      BY <3>2, <1>5, LimitsAssumption DEF LogOf, TypeOK
    <3>3. QED
      BY <3>1, <3>2
  <2>2. QED
    BY <2>1 DEF Accounted, Accounts
<1>10. \A x, o \in Board : low'[x][o] <= minted[o]
  BY <1>1, <1>5 DEF CountInv
<1>11. \A x \in Board : held'[x] \subseteq held[x]
  BY <1>5
<1>12. QED
  BY <1>4, <1>7, <1>8, <1>9, <1>10, <1>11 DEF DroppedWell

LEMMA RestartStep ==
    ASSUME NoTornLines, TypeOK, FileInv, MarkInv, CountInv,
           NEW b \in Board, Restart(b)
    PROVE  DroppedWell
<1> USE DEF Vector
<1>1. PICK t \in Time, cut \in CutShort :
         LET aged(o) == Aged(LogOf(lines[b], o), t)
             mark(o) == IF aged(o) = {}
                        THEN MarkOnFile(LogOf(lines[b], o), through[b][o])
                        ELSE Max(Seqs(aged(o)))
             kept    == {m \in lines[b] : m \notin aged(m.origin)}
         IN  /\ held' = [held EXCEPT ![b] = kept]
             /\ low' = [low EXCEPT ![b] = [o \in Board |-> mark(o)]]
             /\ lines' = [lines EXCEPT ![b] = kept]
             /\ through' = [through EXCEPT ![b] =
                   [o \in Board |-> IF aged(o) = {} THEN @[o] ELSE mark(o)]]
             /\ torn' = [torn EXCEPT ![b] =
                   {o \in @ \cup cut : aged(o) = {}}]
  BY DEF Restart
<1> DEFINE log(o)  == LogOf(held[b], o)
           aged(o) == Aged(log(o), t)
           mark(o) == IF aged(o) = {} THEN MarkOnFile(log(o), through[b][o])
                      ELSE Max(Seqs(aged(o)))
           kept    == {m \in held[b] : m \notin aged(m.origin)}
<1>2. lines = held /\ torn[b] = {} /\ cut = {}
  BY DEF FileInv, CutShort, NoTornLines
<1>3. /\ held' = [held EXCEPT ![b] = kept] /\ lines' = [lines EXCEPT ![b] = kept]
      /\ low' = [low EXCEPT ![b] = [o \in Board |-> mark(o)]]
      /\ through' = [through EXCEPT ![b] =
            [o \in Board |-> IF aged(o) = {} THEN @[o] ELSE mark(o)]]
      /\ torn' = [torn EXCEPT ![b] = {}]
  BY <1>1, <1>2
<1>4. ASSUME NEW o \in Board
      PROVE  /\ mark(o) \in 0..MaxPosts /\ low[b][o] <= mark(o)
             /\ mark(o) <= minted[o]
             /\ \A m \in aged(o) : m.seq <= mark(o)
             /\ \A m \in log(o) \ aged(o) : mark(o) < m.seq
             /\ aged(o) = {} => /\ through[b][o] <= mark(o)
                                /\ log(o) = {} => through[b][o] = mark(o)
  <2>1. /\ log(o) \in SUBSET Message /\ aged(o) \in SUBSET log(o)
        /\ low[b][o] \in 0..MaxPosts /\ through[b][o] \in 0..MaxPosts
        /\ minted[o] \in 0..MaxPosts
    BY DEF TypeOK, LogOf, Aged
  <2>2. \A m \in log(o) : /\ m \in held[b] /\ m.origin = o
                          /\ m.seq \in 0..MaxPosts /\ m.seq <= minted[o]
                          /\ low[b][o] < m.seq /\ through[b][o] < m.seq
    <3>1. SUFFICES ASSUME NEW m \in log(o)
                   PROVE  /\ m \in held[b] /\ m.origin = o
                          /\ m.seq \in 0..MaxPosts /\ m.seq <= minted[o]
                          /\ low[b][o] < m.seq /\ through[b][o] < m.seq
      OBVIOUS
    <3>2. m \in held[b] /\ m.origin = o /\ m \in Message
      BY <2>1 DEF LogOf
    <3>3. m.seq <= minted[o]
      BY <3>2, Everyone DEF CountInv
    <3>4. low[b][o] < m.seq /\ through[b][o] <= low[b][o]
      BY <3>2 DEF MarkInv
    <3>5. QED
      BY <3>2, <3>3, <3>4, <2>1, MessageFields, LimitsAssumption
  <2>3. (log(o) = {}) => low[b][o] = through[b][o]
    BY DEF MarkInv, LogOf
  <2>4. through[b][o] <= low[b][o] /\ low[b][o] <= minted[o]
    BY DEF MarkInv, CountInv
  <2>5. \A g \in aged(o) : \A k \in log(o) \ aged(o) : g.seq < k.seq
    <3> HIDE DEF log
    <3>1. QED
      BY <2>1, AgedIsOldest
  <2>6. aged(o) # {} => /\ Max(Seqs(aged(o))) \in 0..MaxPosts
                        /\ \A m \in aged(o) : m.seq <= Max(Seqs(aged(o)))
                        /\ \E m \in aged(o) : Max(Seqs(aged(o))) = m.seq
    <3> HIDE DEF aged, log
    <3>1. aged(o) \in SUBSET Message
      BY <2>1
    <3>2. QED
      BY <3>1, HighestGone
  <2> DEFINE M == MarkOnFile(log(o), through[b][o])
  <2>7. /\ M \in 0..MaxPosts
        /\ through[b][o] <= M
        /\ \A m \in log(o) : M < m.seq
        /\ log(o) = {} => M = through[b][o]
        /\ log(o) # {} /\ (\A m \in log(o) : low[b][o] < m.seq) => low[b][o] <= M
        /\ \/ M = through[b][o]
           \/ \E m \in log(o) : M = m.seq - 1
    <3> HIDE DEF log
    <3>1. QED
      BY <2>1, <2>2, MarkReadBack
  <2>8. CASE aged(o) = {}
    <3>1. mark(o) = M
      BY <2>8
    <3> HIDE DEF M, mark, log, aged
    <3>2. low[b][o] <= M
      BY <2>1, <2>2, <2>3, <2>7
    <3>3. M <= minted[o]
      BY <2>1, <2>2, <2>4, <2>7, LimitsAssumption
    <3>4. QED
      BY <2>8, <3>1, <3>2, <3>3, <2>7
  <2>9. CASE aged(o) # {}
    <3>1. mark(o) = Max(Seqs(aged(o)))
      BY <2>9
    <3> HIDE DEF M, mark, log, aged
    <3>2. PICK g \in aged(o) : mark(o) = g.seq
      BY <2>6, <2>9, <3>1
    <3>3. QED
      BY <2>1, <2>2, <2>5, <2>6, <2>9, <3>1, <3>2, LimitsAssumption
  <2>10. QED
    BY <2>8, <2>9
<1>5. kept \in SUBSET Message /\ kept \subseteq held[b]
  BY DEF TypeOK
<1>6. \A o \in Board : \A m \in held[b] :
         m.origin = o => m \in log(o) /\ (m \in kept <=> m \notin aged(o))
  BY DEF LogOf
<1>7. \A o \in Board : \A m \in aged(o) : m \in held[b] /\ m.origin = o
  BY DEF LogOf, Aged
<1>8. \A o \in Board : log(o) = {} <=> \A m \in held[b] : m.origin # o
  BY DEF LogOf
<1> HIDE DEF log, aged, mark, kept
<1>9. FileInv'
  BY <1>2, <1>3 DEF FileInv, TypeOK
<1>10. /\ held'[b] = kept /\ \A o \in Board : low'[b][o] = mark(o)
       /\ \A o \in Board :
            through'[b][o] = IF aged(o) = {} THEN through[b][o] ELSE mark(o)
       /\ \A x \in Board : x # b => /\ held'[x] = held[x] /\ low'[x] = low[x]
                                    /\ through'[x] = through[x]
  BY <1>3 DEF TypeOK
<1>11. /\ held' \in [Board -> SUBSET Message] /\ low' \in [Board -> Vector]
       /\ through' \in [Board -> Vector] /\ torn' \in [Board -> SUBSET Board]
  BY <1>3, <1>4, <1>5 DEF TypeOK
<1>12. MarkInv'
  <2>1. ASSUME NEW o \in Board
        PROVE  /\ \A m \in kept : m.origin = o => mark(o) < m.seq
               /\ through'[b][o] <= mark(o)
               /\ (\A m \in kept : m.origin # o) => through'[b][o] = mark(o)
    <3>1. \A m \in kept : m.origin = o => mark(o) < m.seq
      BY <1>4, <1>5, <1>6
    <3>2. through'[b][o] <= mark(o)
      BY <1>4, <1>10, LimitsAssumption
    <3>3. aged(o) = {} /\ (\A m \in kept : m.origin # o) => log(o) = {}
      BY <1>6, <1>8
    <3>4. QED
      BY <3>1, <3>2, <3>3, <1>4, <1>10
  <2>2. QED
    BY <2>1, <1>10 DEF MarkInv
<1>13. Accounted
  <2>1. ASSUME NEW x \in Board, NEW o \in Board
        PROVE  /\ low[x][o] <= low'[x][o]
               /\ \A k \in LogOf(held[x], o) :
                     k \in LogOf(held'[x], o) \/ k.seq <= low'[x][o]
    <3>1. CASE x = b
      BY <3>1, <1>4, <1>6, <1>10 DEF LogOf
    <3>2. CASE x # b
      BY <3>2, <1>10, LimitsAssumption DEF LogOf, TypeOK
    <3>3. QED
      BY <3>1, <3>2
  <2>2. QED
    BY <2>1 DEF Accounted, Accounts
<1>14. \A x, o \in Board : low'[x][o] <= minted[o]
  BY <1>4, <1>10 DEF CountInv
<1>15. \A x \in Board : held'[x] \subseteq held[x]
  BY <1>5, <1>10
<1>16. QED
  BY <1>9, <1>11, <1>12, <1>13, <1>14, <1>15 DEF DroppedWell

(***************************************************************************)
(* What holds of the messages everywhere.                                  *)
(***************************************************************************)

\* Logs, pages and marks are of their types.
LEMMA Types ==
    ASSUME TypeOK
    PROVE  /\ Everywhere \in SUBSET Message
           /\ \A b, o \in Board : /\ LogOf(held[b], o) \in SUBSET Message
                                  /\ low[b][o] \in 0..MaxPosts
           /\ \A b \in Board : VectorOf(b) \in Vector
<1>1. \A b, o \in Board : /\ LogOf(held[b], o) \in SUBSET Message
                          /\ low[b][o] \in 0..MaxPosts
  BY DEF TypeOK, LogOf, Vector
<1>2. \A b, o \in Board : Contiguous(LogOf(held[b], o), low[b][o]) \in 0..MaxPosts
  <2>1. SUFFICES ASSUME NEW b \in Board, NEW o \in Board
                 PROVE  Contiguous(LogOf(held[b], o), low[b][o]) \in 0..MaxPosts
    OBVIOUS
  <2>2. Contiguous(LogOf(held[b], o), low[b][o]) \in low[b][o]..MaxPosts
    BY <1>1, ContiguousRun
  <2>3. QED
    BY <1>1, <2>2, LimitsAssumption
<1>3. Everywhere \in SUBSET Message
  BY Everyone DEF TypeOK
<1>4. QED
  BY <1>1, <1>2, <1>3 DEF VectorOf, Vector

\* A step that accounts for what was held, and adds at most a message of a
\* number nobody has, keeps the invariant.
LEMMA StepInv ==
    ASSUME IInv, TypeOK', FileInv', MarkInv', PageInv', Accounted,
           \A x, o \in Board : low'[x][o] <= minted'[o],
           \A o \in Board : minted[o] <= minted'[o],
           NEW new \in SUBSET Message, Everywhere' \subseteq Everywhere \cup new,
           \A m, n \in new : m = n,
           \A m \in new : /\ m.seq <= minted'[m.origin]
                          /\ m.seq <= HighestOf(m.origin)'
                          /\ \A k \in Everywhere :
                               k.origin = m.origin => k.seq # m.seq
    PROVE  IInv'
<1>1. \A m \in Everywhere \cup new :
         m \in Message /\ m.origin \in Board /\ m.seq \in Int
  BY Types, MessageFields DEF IInv
<1>2. CountInv'
  <2>1. ASSUME NEW m \in Everywhere' PROVE m.seq <= minted'[m.origin]
    <3>1. CASE m \in new
      BY <3>1
    <3>2. CASE m \in Everywhere
      <4>1. /\ m.seq <= minted[m.origin] /\ minted[m.origin] <= minted'[m.origin]
            /\ minted[m.origin] \in Int /\ minted'[m.origin] \in Int
        BY <1>1, <3>2, LimitsAssumption DEF IInv, CountInv, TypeOK
      <4>2. QED
        BY <1>1, <3>2, <4>1
    <3>3. QED
      BY <3>1, <3>2
  <2>2. QED
    BY <2>1 DEF CountInv
<1>3. OwnInv'
  <2>1. ASSUME NEW o \in Board
        PROVE  HighestOf(o) <= HighestOf(o)' /\ HighestOf(o) \in Int /\ HighestOf(o)' \in Int
    <3>1. /\ LogOf(held[o], o) \in SUBSET Message /\ low[o][o] \in 0..MaxPosts
          /\ LogOf(held'[o], o) \in SUBSET Message /\ low'[o][o] \in 0..MaxPosts
      BY DEF IInv, TypeOK, LogOf, Vector
    <3>2. Accounts(LogOf(held[o], o), low[o][o], LogOf(held'[o], o), low'[o][o])
      BY DEF Accounted
    <3>3. Highest(LogOf(held[o], o), low[o][o])
             <= Highest(LogOf(held'[o], o), low'[o][o])
      BY <3>1, <3>2, AccountsKeeps
    <3>4. /\ Highest(LogOf(held[o], o), low[o][o]) \in Int
          /\ Highest(LogOf(held'[o], o), low'[o][o]) \in Int
      BY <3>1, HighestOfLog, LimitsAssumption
    <3>5. QED
      BY <3>3, <3>4 DEF HighestOf
  <2>2. ASSUME NEW m \in Everywhere' PROVE m.seq <= HighestOf(m.origin)'
    <3>1. CASE m \in new
      BY <3>1
    <3>2. CASE m \in Everywhere
      <4>1. m.seq <= HighestOf(m.origin)
        BY <3>2 DEF IInv, OwnInv
      <4>2. /\ HighestOf(m.origin) <= HighestOf(m.origin)'
            /\ HighestOf(m.origin) \in Int /\ HighestOf(m.origin)' \in Int
        BY <1>1, <3>2, <2>1
      <4>3. QED
        BY <1>1, <3>2, <4>1, <4>2
    <3>3. QED
      BY <3>1, <3>2
  <2>3. QED
    BY <2>2 DEF OwnInv
<1>4. IdsAreUnique'
  BY DEF IInv, IdsAreUnique
<1>5. QED
  BY <1>2, <1>3, <1>4 DEF IInv

\* So does a step that only concerns a round and only picks up what is there.
LEMMA RoundInv ==
    ASSUME IInv, UNCHANGED boardVars, TypeOK', PageInv',
           \A c \in Controllers : round'[c].page \subseteq Everywhere
    PROVE  IInv' /\ Accounted
<1>1. Accounted
  BY Types, LimitsAssumption DEF Accounted, Accounts, boardVars, IInv
<1>2. FileInv' /\ MarkInv'
  BY DEF boardVars, IInv, FileInv, MarkInv
<1>3. /\ \A x, o \in Board : low'[x][o] <= minted'[o]
      /\ \A o \in Board : minted[o] <= minted'[o]
  BY LimitsAssumption DEF boardVars, IInv, CountInv, TypeOK
<1>4. Everywhere' \subseteq Everywhere
  <2>1. ASSUME NEW m \in Everywhere' PROVE m \in Everywhere
    <3>1. CASE \E b \in Board : m \in held'[b] \cup lines'[b]
      BY <3>1, Everyone DEF boardVars
    <3>2. CASE \E c \in Controllers : m \in round'[c].page
      BY <3>2
    <3>3. QED
      BY <2>1, <3>1, <3>2 DEF Everywhere
  <2>2. QED
    BY <2>1
<1>5. {} \in SUBSET Message /\ Everywhere' \subseteq Everywhere \cup {}
  BY <1>4
<1>6. IInv'
  BY <1>1, <1>2, <1>3, <1>5, StepInv
<1>7. QED
  BY <1>1, <1>6

(***************************************************************************)
(* The steps of a round.                                                   *)
(***************************************************************************)
RoundType ==
    [stage : {"idle", "between", "asked", "pull", "pulled", "push", "carried"},
     left : SUBSET Board, at : Board \cup {Nowhere},
     mine : Vector, theirs : Vector, page : SUBSET Message,
     filing : BOOLEAN, pulled : BOOLEAN]

\* A round at rest, or between two machines, has no page.
LEMMA BetweenPages ==
    /\ Resting \in RoundType /\ Resting.page = {} /\ Resting.stage = "idle"
    /\ \A r \in RoundType :
         /\ Between(r) \in RoundType
         /\ Between(r).page = {} /\ Between(r).stage = "between"
<1>1. Nothing \in Vector
  BY LimitsAssumption DEF Nothing, Vector
<1>2. Resting \in RoundType /\ Resting.page = {} /\ Resting.stage = "idle"
  BY <1>1 DEF Resting, RoundType
<1>3. ASSUME NEW r \in RoundType
      PROVE  /\ Between(r) \in RoundType
             /\ Between(r).page = {} /\ Between(r).stage = "between"
  BY <1>1 DEF Between, Resting, RoundType
<1>4. QED
  BY <1>2, <1>3

\* One controller's round moves on to a state that is sound, whose page is of
\* messages that were somewhere.
LEMMA OneRound ==
    ASSUME IInv, UNCHANGED <<boardVars>>, fails' \in 0..MaxFails,
           NEW c \in Controllers, NEW r \in RoundType,
           round' = [round EXCEPT ![c] = r],
           r.page \subseteq Everywhere,
           r.stage \in {"pull", "push"} => r.page # {}
    PROVE  IInv' /\ Accounted
<1>1. \A d \in Controllers : round[d].page \subseteq Everywhere
  BY Everyone
<1>2. TypeOK'
  BY DEF IInv, TypeOK, boardVars, RoundType
<1>3. \A d \in Controllers : round'[d] = IF d = c THEN r ELSE round[d]
  BY DEF IInv, TypeOK
<1>4. PageInv'
  BY <1>3 DEF IInv, PageInv
<1>5. \A d \in Controllers : round'[d].page \subseteq Everywhere
  BY <1>1, <1>3
<1>6. UNCHANGED boardVars
  OBVIOUS
<1>7. QED
  BY <1>2, <1>4, <1>5, <1>6, RoundInv

LEMMA BeginRoundInv ==
    ASSUME IInv, NEW c \in Controllers, BeginRound(c)
    PROVE  IInv' /\ Accounted
<1> DEFINE q == [Resting EXCEPT !.left = Board \ {c}, !.mine = VectorOf(c)]
<1>1. c \in Board
  BY ControllersAssumption DEF Board
<1>2. VectorOf(c) \in Vector
  BY <1>1, Types DEF IInv
<1>3. q \in RoundType
  BY <1>2, BetweenPages DEF RoundType
<1>4. round' = [round EXCEPT ![c] = Between(q)] /\ UNCHANGED <<boardVars>>
  BY DEF BeginRound
<1>5. fails' \in 0..MaxFails
  BY DEF BeginRound, IInv, TypeOK
<1> HIDE DEF q
<1>6. QED
  BY <1>3, <1>4, <1>5, BetweenPages, OneRound

LEMMA AskInv ==
    ASSUME IInv, NEW c \in Controllers, NEW b \in Board, Ask(c, b)
    PROVE  IInv' /\ Accounted
<1> DEFINE r == [round[c] EXCEPT !.stage = "asked", !.at = b, !.left = @ \ {b},
                                 !.theirs = VectorOf(b)]
<1>1. round[c] \in RoundType /\ VectorOf(b) \in Vector
  BY Types DEF IInv, TypeOK, RoundType
<1>2. r \in RoundType /\ r.page = round[c].page /\ r.stage = "asked"
  BY <1>1 DEF RoundType
<1>3. r.page \subseteq Everywhere
  BY <1>2, Everyone
<1>4. round' = [round EXCEPT ![c] = r] /\ UNCHANGED <<boardVars>>
  BY DEF Ask, IInv, TypeOK
<1>5. fails' \in 0..MaxFails
  BY DEF Ask, IInv, TypeOK
<1> HIDE DEF r
<1>6. QED
  BY <1>2, <1>3, <1>4, <1>5, OneRound

\* A page that is fetched is of messages the board holds.
LEMMA FetchedPage ==
    ASSUME IInv, NEW b \in Board, NEW from
    PROVE  Since(b, from) \subseteq Everywhere
<1>1. Since(b, from) \subseteq held[b]
  BY DEF Since
<1>2. QED
  BY <1>1, Everyone

LEMMA FetchInv ==
    ASSUME IInv, NEW c \in Controllers, NEW b \in Board,
           FetchInbound(c, b) \/ FetchOutbound(c, b)
    PROVE  IInv' /\ Accounted
<1>1. PICK s \in {"pulled", "pull", "carried", "push"}, page \in SUBSET Everywhere :
         /\ round' = [round EXCEPT ![c].stage = s, ![c].page = page]
         /\ s \in {"pull", "push"} => page # {}
         /\ UNCHANGED <<boardVars, fails>>
  <2>1. /\ Since(b, round[c].mine) \in SUBSET Everywhere
        /\ Since(c, round[c].theirs) \in SUBSET Everywhere
    BY FetchedPage, ControllersAssumption DEF Board
  <2>2. CASE FetchInbound(c, b)
    <3> DEFINE page == Since(b, round[c].mine)
               s == IF page = {} THEN "pulled" ELSE "pull"
    <3>1. /\ round' = [round EXCEPT ![c].stage = s, ![c].page = page]
          /\ UNCHANGED <<boardVars, fails>>
      BY <2>2 DEF FetchInbound
    <3>2. page \in SUBSET Everywhere
      BY <2>1
    <3> HIDE DEF page
    <3>3. QED
      BY <3>1, <3>2
  <2>3. CASE FetchOutbound(c, b)
    <3> DEFINE page == Since(c, round[c].theirs)
               s == IF page = {} THEN "carried" ELSE "push"
    <3>1. /\ round' = [round EXCEPT ![c].stage = s, ![c].page = page]
          /\ UNCHANGED <<boardVars, fails>>
      BY <2>3 DEF FetchOutbound
    <3>2. page \in SUBSET Everywhere
      BY <2>1
    <3> HIDE DEF page
    <3>3. QED
      BY <3>1, <3>2
  <2>4. QED
    BY <2>2, <2>3
<1>2. page \subseteq Everywhere /\ page \in SUBSET Message
  BY <1>1, Types DEF IInv
<1> DEFINE r == [round[c] EXCEPT !.stage = s, !.page = page]
<1>3. round[c] \in RoundType
  BY DEF IInv, TypeOK, RoundType
<1>4. r \in RoundType /\ r.page = page /\ r.stage = s
  BY <1>2, <1>3 DEF RoundType
<1>5. round' = [round EXCEPT ![c] = r] /\ UNCHANGED <<boardVars>>
  BY <1>1 DEF IInv, TypeOK
<1>6. fails' \in 0..MaxFails
  BY <1>1 DEF IInv, TypeOK
<1> HIDE DEF r
<1>7. QED
  BY <1>1, <1>2, <1>4, <1>5, <1>6, OneRound

LEMMA CarriedInv ==
    ASSUME IInv, NEW c \in Controllers, Carried(c)
    PROVE  IInv' /\ Accounted
<1> DEFINE q == [round[c] EXCEPT !.mine = IF round[c].pulled THEN VectorOf(c) ELSE @]
<1>1. VectorOf(c) \in Vector /\ round[c] \in RoundType
  BY Types, ControllersAssumption DEF IInv, TypeOK, RoundType, Board
<1>2. q \in RoundType
  BY <1>1 DEF RoundType
<1>3. round' = [round EXCEPT ![c] = Between(q)] /\ UNCHANGED <<boardVars>>
  BY DEF Carried
<1>4. fails' \in 0..MaxFails
  BY DEF Carried, IInv, TypeOK
<1> HIDE DEF q
<1>5. QED
  BY <1>2, <1>3, <1>4, BetweenPages, OneRound

LEMMA RoundStopsInv ==
    ASSUME IInv, NEW c \in Controllers, EndRound(c) \/ Fail(c)
    PROVE  IInv' /\ Accounted
<1>1. PICK r \in {Resting, Between(round[c])} :
         round' = [round EXCEPT ![c] = r] /\ UNCHANGED <<boardVars>>
  BY DEF EndRound, Fail
<1>2. fails' \in 0..MaxFails
  BY LimitsAssumption DEF EndRound, Fail, IInv, TypeOK
<1>3. round[c] \in RoundType
  BY DEF IInv, TypeOK, RoundType
<1>4. QED
  BY <1>1, <1>2, <1>3, BetweenPages, OneRound

(***************************************************************************)
(* The steps of a board.                                                   *)
(***************************************************************************)

\* Filing a message of a page brings nothing new.
LEMMA FileNextInv ==
    ASSUME IInv, NEW c \in Controllers, NEW b \in Board, FileNext(c, b)
    PROVE  IInv' /\ Accounted
<1> DEFINE m == FirstOf(round[c].page)
           rest == round[c].page \ {m}
           next == CASE rest # {} -> round[c].stage
                     [] round[c].stage = "pull" -> "pulled"
                     [] OTHER -> "carried"
           r == [round[c] EXCEPT
                   !.page = rest, !.filing = rest # {},
                   !.pulled = @ \/ (round[c].stage = "pull" /\ ~Refused(b, m)),
                   !.stage = next]
<1>1. /\ File(b, m) /\ round' = [round EXCEPT ![c] = r]
      /\ UNCHANGED <<clock, minted, fails>> /\ Into(c) = b
  BY DEF FileNext
<1>2. round[c] \in RoundType
  BY DEF IInv, TypeOK, RoundType
<1>3. round[c].stage \in {"pull", "push"}
  BY <1>1, BoardsAssumption DEF Into, Nowhere, Board
<1>4. m \in round[c].page /\ m \in Message /\ round[c].page \subseteq Everywhere
  <2>1. round[c].page \subseteq Everywhere /\ round[c].page \in SUBSET Message
    BY <1>2, Everyone DEF RoundType
  <2>2. round[c].page # {}
    BY <1>3 DEF IInv, PageInv
  <2>3. \A k, n \in round[c].page : k.origin = n.origin /\ k.seq = n.seq => k = n
    BY <2>1 DEF IInv, IdsAreUnique
  <2>4. FirstOf(round[c].page) \in round[c].page
    BY <2>1, <2>2, <2>3, FirstOfPage
  <2>5. QED
    BY <2>1, <2>4
<1>5. /\ r \in RoundType /\ r.page = rest
      /\ r.stage \in {"pull", "push"} => rest # {}
  <2>1. rest \in SUBSET Message
    BY <1>2 DEF RoundType
  <2>2. next \in {round[c].stage, "pulled", "carried"}
    OBVIOUS
  <2>3. rest = {} => next \in {"pulled", "carried"}
    OBVIOUS
  <2> HIDE DEF m, rest, next
  <2>4. r.page = rest /\ r.stage = next
    BY <1>2 DEF RoundType
  <2>5. r \in RoundType
    BY <1>2, <2>1, <2>2 DEF RoundType
  <2>6. QED
    BY <2>3, <2>4, <2>5
<1> HIDE DEF m, rest, next, r
<1>6. FiledWell(b, m)
  BY <1>1, <1>4, FileStep DEF IInv
<1>7. \A d \in Controllers : round'[d] = IF d = c THEN r ELSE round[d]
  BY <1>1 DEF IInv, TypeOK
<1>8. Everywhere' \subseteq Everywhere
  <2>1. ASSUME NEW x \in Board, NEW k \in held'[x] \cup lines'[x]
        PROVE  k \in Everywhere
    <3>1. k \in held[x] \cup {m}
      BY <1>6 DEF FiledWell, FileInv
    <3>2. QED
      BY <1>4, <3>1, Everyone
  <2>2. ASSUME NEW d \in Controllers, NEW k \in round'[d].page
        PROVE  k \in Everywhere
    <3>1. k \in round[c].page \/ k \in round[d].page
      BY <1>5, <1>7 DEF rest
    <3>2. QED
      BY <3>1, Everyone
  <2>3. QED
    BY <2>1, <2>2 DEF Everywhere
<1>9. TypeOK'
  BY <1>1, <1>5, <1>6 DEF IInv, TypeOK, FiledWell, FileInv, RoundType
<1>10. PageInv'
  BY <1>5, <1>7 DEF IInv, PageInv
<1>11. ASSUME NEW x \in Board, NEW o \in Board
       PROVE  low'[x][o] <= minted'[o] /\ minted[o] <= minted'[o]
  <2>1. minted'[o] = minted[o] /\ minted[o] \in Int
    BY <1>1, LimitsAssumption DEF IInv, TypeOK
  <2>2. CASE low'[x][o] = low[x][o]
    BY <2>1, <2>2 DEF IInv, CountInv
  <2>3. CASE \E k \in held[x] \cup {m} : k.origin = o /\ low'[x][o] = k.seq
    <3>1. PICK k \in held[x] \cup {m} : k.origin = o /\ low'[x][o] = k.seq
      BY <2>3
    <3>2. k \in Everywhere
      BY <1>4, <3>1, Everyone
    <3>3. QED
      BY <2>1, <3>1, <3>2 DEF IInv, CountInv
  <2>4. QED
    BY <1>6, <2>1, <2>2, <2>3 DEF FiledWell
<1>12. {} \in SUBSET Message /\ Everywhere' \subseteq Everywhere \cup {}
  BY <1>8
<1>13. FileInv' /\ MarkInv' /\ Accounted
  BY <1>6 DEF FiledWell
<1>14. /\ \A x, o \in Board : low'[x][o] <= minted'[o]
       /\ \A o \in Board : minted[o] <= minted'[o]
  BY <1>11
<1>15. IInv'
  BY <1>9, <1>10, <1>12, <1>13, <1>14, StepInv
<1>16. QED
  BY <1>13, <1>15

\* A machine posts under a number that is nowhere yet.
LEMMA PostInv ==
    ASSUME IInv, NEW b \in Board, Post(b)
    PROVE  IInv' /\ Accounted
<1>1. PICK t \in Time :
         /\ clock' = [clock EXCEPT ![b] = t]
         /\ File(b, [origin |-> b, ts |-> t, tag |-> minted[b] + 1,
                     seq |-> Highest(LogOf(held[b], b), low[b][b]) + 1])
  BY DEF Post
<1> DEFINE top == HighestOf(b)
           m == [origin |-> b, ts |-> t, tag |-> minted[b] + 1, seq |-> top + 1]
<1>2. /\ minted' = [minted EXCEPT ![b] = @ + 1] /\ minted[b] < MaxPosts
      /\ UNCHANGED <<round, fails>> /\ minted[b] \in Nat
  BY LimitsAssumption DEF Post, IInv, TypeOK
<1>3. /\ top \in 0..MaxPosts /\ low[b][b] <= top /\ low[b][b] \in 0..MaxPosts
      /\ \A k \in held[b] : k.origin = b => k.seq <= top
      /\ top <= minted[b]
  <2>1. LogOf(held[b], b) \in SUBSET Message /\ low[b][b] \in 0..MaxPosts
    BY Types DEF IInv
  <2>2. /\ top \in 0..MaxPosts /\ low[b][b] <= top
        /\ \A k \in LogOf(held[b], b) : k.seq <= top
        /\ top = low[b][b] \/ \E k \in LogOf(held[b], b) : top = k.seq
    BY <2>1, HighestOfLog DEF HighestOf
  <2>3. \A k \in LogOf(held[b], b) : k.seq <= minted[b]
    BY Everyone DEF IInv, CountInv, LogOf
  <2>4. low[b][b] <= minted[b]
    BY DEF IInv, CountInv
  <2> HIDE DEF top
  <2>5. QED
    BY <2>1, <2>2, <2>3, <2>4 DEF LogOf
<1> HIDE DEF top
<1>4. /\ m \in Message /\ m.origin = b /\ m.seq = top + 1
      /\ m.seq \in 0..MaxPosts /\ m.seq <= minted[b] + 1
  BY <1>2, <1>3, LimitsAssumption DEF Message, Seq
<1>5. File(b, m)
  BY <1>1 DEF top, HighestOf
<1> HIDE DEF m
<1>6. ~Refused(b, m)
  <2>1. m.seq \notin Seqs(LogOf(held[b], b))
    <3>1. ASSUME NEW k \in LogOf(held[b], b) PROVE m.seq # k.seq
      <4>1. k.seq <= top /\ k.seq \in Int
        BY <1>3, MessageFields DEF LogOf, IInv, TypeOK
      <4>2. QED
        BY <1>3, <1>4, <4>1
    <3>2. QED
      BY <3>1 DEF Seqs
  <2>2. ~(m.seq <= low[b][b])
    BY <1>3, <1>4, LimitsAssumption
  <2>3. QED
    BY <1>4, <2>1, <2>2 DEF Refused
<1>7. FiledWell(b, m)
  BY <1>4, <1>5, FileStep DEF IInv
<1>8. Everywhere' \subseteq Everywhere \cup {m}
  <2>1. ASSUME NEW x \in Board, NEW k \in held'[x] \cup lines'[x]
        PROVE  k \in Everywhere \cup {m}
    <3>1. k \in held[x] \cup {m}
      BY <1>7 DEF FiledWell, FileInv
    <3>2. QED
      BY <3>1, Everyone
  <2>2. ASSUME NEW d \in Controllers, NEW k \in round'[d].page
        PROVE  k \in Everywhere
    BY <1>2, Everyone
  <2>3. QED
    BY <2>1, <2>2 DEF Everywhere
<1>9. TypeOK'
  <2>1. clock' \in [Board -> Time] /\ minted' \in [Board -> 0..MaxPosts]
    BY <1>1, <1>2, LimitsAssumption DEF IInv, TypeOK
  <2>2. QED
    BY <1>2, <1>7, <2>1 DEF IInv, TypeOK, FiledWell, FileInv
<1>10. PageInv'
  BY <1>2 DEF IInv, PageInv
<1>11. \A o \in Board : /\ minted[o] <= minted'[o] /\ minted[o] \in Int
                        /\ minted'[o] = IF o = b THEN minted[o] + 1 ELSE minted[o]
  BY <1>2, LimitsAssumption DEF IInv, TypeOK
<1>12. ASSUME NEW x \in Board, NEW o \in Board
       PROVE  low'[x][o] <= minted'[o]
  <2>1. CASE low'[x][o] = low[x][o]
    <3>1. low[x][o] <= minted[o] /\ low[x][o] \in Int
      BY Types, LimitsAssumption DEF IInv, CountInv
    <3>2. QED
      BY <1>11, <2>1, <3>1
  <2>2. CASE \E k \in held[x] \cup {m} : k.origin = o /\ low'[x][o] = k.seq
    <3>1. PICK k \in held[x] \cup {m} : k.origin = o /\ low'[x][o] = k.seq
      BY <2>2
    <3>2. CASE k = m
      BY <1>4, <1>11, <3>1, <3>2
    <3>3. CASE k \in held[x]
      <4>1. k.seq <= minted[o] /\ k.seq \in Int
        BY <3>1, <3>3, Everyone, MessageFields DEF IInv, CountInv, TypeOK
      <4>2. QED
        BY <1>11, <3>1, <4>1
    <3>4. QED
      BY <3>1, <3>2, <3>3
  <2>3. QED
    BY <1>7, <2>1, <2>2 DEF FiledWell
<1>13. m.seq <= HighestOf(b)'
  <2>1. LogOf(held'[b], b) \in SUBSET Message /\ low'[b][b] \in 0..MaxPosts
    BY <1>7 DEF FiledWell, LogOf, Vector
  <2>2. /\ low'[b][b] <= Highest(LogOf(held'[b], b), low'[b][b])
        /\ \A k \in LogOf(held'[b], b) : k.seq <= Highest(LogOf(held'[b], b), low'[b][b])
        /\ Highest(LogOf(held'[b], b), low'[b][b]) \in Int
    BY <2>1, HighestOfLog, LimitsAssumption
  <2>3. m \in LogOf(held'[b], b) \/ m.seq <= low'[b][b]
    BY <1>4, <1>6, <1>7 DEF FiledWell, LogOf
  <2>4. QED
    BY <1>4, <2>1, <2>2, <2>3, LimitsAssumption DEF HighestOf
<1>14. ASSUME NEW k \in Everywhere, k.origin = b PROVE k.seq # m.seq
  <2>1. k.seq <= top /\ k.seq \in Int
    BY <1>14, Types, MessageFields DEF IInv, OwnInv, top
  <2>2. QED
    BY <1>3, <1>4, <2>1
<1>15. FileInv' /\ MarkInv' /\ Accounted
  BY <1>7 DEF FiledWell
<1>16. {m} \in SUBSET Message /\ \A k, n \in {m} : k = n
  BY <1>4
<1>17. \A k \in {m} : /\ k.seq <= minted'[k.origin]
                      /\ k.seq <= HighestOf(k.origin)'
                      /\ \A n \in Everywhere : n.origin = k.origin => n.seq # k.seq
  BY <1>4, <1>11, <1>13, <1>14
<1>18. \A o \in Board : minted[o] <= minted'[o]
  BY <1>11
<1>19. IInv'
  BY <1>8, <1>9, <1>10, <1>12, <1>15, <1>16, <1>17, <1>18, StepInv
<1>20. QED
  BY <1>15, <1>19

\* A clear, or a restart, only drops messages.
LEMMA DropInv ==
    ASSUME IInv, DroppedWell,
           clock' \in [Board -> Time], UNCHANGED <<minted, fails>>,
           round' \in [Controllers -> RoundType],
           \A c \in Controllers : round'[c] \in {round[c], Between(round[c])}
    PROVE  IInv' /\ Accounted
<1>1. \A c \in Controllers : round[c] \in RoundType
  BY DEF IInv, TypeOK, RoundType
<1>2. \A c \in Controllers : /\ round'[c].page \subseteq round[c].page
                             /\ round'[c].stage \in {"pull", "push"} =>
                                   round'[c] = round[c]
  BY <1>1, BetweenPages
<1>3. Everywhere' \subseteq Everywhere
  <2>1. ASSUME NEW x \in Board, NEW k \in held'[x] \cup lines'[x]
        PROVE  k \in Everywhere
    BY Everyone DEF DroppedWell, FileInv
  <2>2. ASSUME NEW d \in Controllers, NEW k \in round'[d].page
        PROVE  k \in Everywhere
    BY <1>2, Everyone
  <2>3. QED
    BY <2>1, <2>2 DEF Everywhere
<1>4. TypeOK'
  BY DEF IInv, TypeOK, DroppedWell, FileInv, RoundType
<1>5. PageInv'
  BY <1>2 DEF IInv, PageInv
<1>6. /\ \A x, o \in Board : low'[x][o] <= minted'[o]
      /\ \A o \in Board : minted[o] <= minted'[o]
  BY LimitsAssumption DEF DroppedWell, IInv, TypeOK
<1>7. {} \in SUBSET Message /\ Everywhere' \subseteq Everywhere \cup {}
  BY <1>3
<1>8. FileInv' /\ MarkInv' /\ Accounted
  BY DEF DroppedWell
<1>9. IInv'
  BY <1>4, <1>5, <1>6, <1>7, <1>8, StepInv
<1>10. QED
  BY <1>8, <1>9

LEMMA ClearInv ==
    ASSUME IInv, NEW b \in Board, Clear(b)
    PROVE  IInv' /\ Accounted
<1>1. DroppedWell
  BY ClearStep DEF IInv
<1>2. UNCHANGED <<clock, minted, round, fails>>
  BY DEF Clear
<1>3. /\ clock' \in [Board -> Time] /\ UNCHANGED <<minted, fails>>
      /\ round' \in [Controllers -> RoundType]
      /\ \A c \in Controllers : round'[c] \in {round[c], Between(round[c])}
  BY <1>2 DEF IInv, TypeOK, RoundType
<1>4. QED
  BY <1>1, <1>3, DropInv

LEMMA RestartInv ==
    ASSUME NoTornLines, IInv, NEW b \in Board, Restart(b)
    PROVE  IInv' /\ Accounted
<1>1. DroppedWell
  BY RestartStep DEF IInv
<1>2. /\ \E t \in Time : clock' = [clock EXCEPT ![b] = t]
      /\ UNCHANGED <<minted, fails>>
      /\ round' = [c \in Controllers |->
            IF round[c].filing /\ Into(c) = b THEN Between(round[c]) ELSE round[c]]
  BY DEF Restart
<1>3. \A c \in Controllers : round[c] \in RoundType /\ Between(round[c]) \in RoundType
  BY BetweenPages DEF IInv, TypeOK, RoundType
<1>4. /\ round' \in [Controllers -> RoundType]
      /\ \A c \in Controllers : round'[c] \in {round[c], Between(round[c])}
  BY <1>2, <1>3
<1>5. clock' \in [Board -> Time]
  BY <1>2 DEF IInv, TypeOK
<1>6. QED
  BY <1>1, <1>2, <1>4, <1>5, DropInv

(***************************************************************************)
(* The theorems.                                                           *)
(***************************************************************************)

LEMMA InitInv == Init => IInv
<1> SUFFICES ASSUME Init PROVE IInv
  OBVIOUS
<1>1. Nothing \in Vector
  BY LimitsAssumption DEF Nothing, Vector
<1>2. TypeOK
  BY <1>1, BoardsAssumption, LimitsAssumption, BetweenPages
  DEF Init, TypeOK, RoundType, Time
<1>3. \A m : m \notin Everywhere
  BY Everyone, BetweenPages DEF Init
<1>4. FileInv /\ MarkInv /\ PageInv
  BY BetweenPages DEF Init, FileInv, MarkInv, PageInv, Nothing
<1>5. CountInv /\ OwnInv /\ IdsAreUnique
  BY <1>3 DEF Init, CountInv, OwnInv, IdsAreUnique, Nothing
<1>6. QED
  BY <1>2, <1>4, <1>5 DEF IInv

\* Every step keeps the invariant, and accounts for the messages held before.
LEMMA NextInv ==
    ASSUME NoTornLines, IInv, [Next]_vars
    PROVE  IInv' /\ Accounted
<1>1. ASSUME NEW c \in Controllers, Round(c) PROVE IInv' /\ Accounted
  BY <1>1, BeginRoundInv, AskInv, FetchInv, FileNextInv, CarriedInv, RoundStopsInv
  DEF Round, Carry
<1>2. ASSUME NEW c \in Controllers, Fail(c) PROVE IInv' /\ Accounted
  BY <1>2, RoundStopsInv
<1>3. ASSUME NEW b \in Board, Daemon(b) PROVE IInv' /\ Accounted
  BY <1>3, PostInv, ClearInv, RestartInv DEF Daemon
<1>4. CASE UNCHANGED vars
  <2>1. UNCHANGED boardVars /\ UNCHANGED <<round, fails>>
    BY <1>4 DEF vars, boardVars
  <2>2. TypeOK' /\ PageInv'
    BY <2>1 DEF IInv, TypeOK, PageInv, boardVars
  <2>3. \A c \in Controllers : round'[c].page \subseteq Everywhere
    BY <2>1, Everyone
  <2>4. QED
    BY <2>1, <2>2, <2>3, RoundInv
<1>5. QED
  BY <1>1, <1>2, <1>3, <1>4 DEF Next

\* What is true of boards, files and pages in every state.
THEOREM Invariance == NoTornLines => (Spec => []IInv)
<1> SUFFICES ASSUME NoTornLines PROVE Spec => []IInv
  OBVIOUS
<1>1. Init => IInv
  BY InitInv
<1>2. IInv /\ [Next]_vars => IInv'
  BY NextInv
<1>3. QED
  BY <1>1, <1>2, PTL DEF Spec

\* Every variable keeps its type; numbers and marks stay within what was minted.
THEOREM TypeCorrect == NoTornLines => (Spec => []TypeOK)
<1>1. IInv => TypeOK
  BY DEF IInv
<1>2. QED
  BY <1>1, Invariance, PTL

\* No machine ever gives one number to two messages, whatever was dropped,
\* cleared, replicated or restarted in between.
THEOREM UniqueIds == NoTornLines => (Spec => []IdsAreUnique)
<1>1. IInv => IdsAreUnique
  BY DEF IInv
<1>2. QED
  BY <1>1, Invariance, PTL

\* No board's vector ever goes back, so that no round asks for a message twice.
THEOREM NeverAskedTwice == NoTornLines => (Spec => NothingAskedTwice)
<1> SUFFICES ASSUME NoTornLines PROVE Spec => NothingAskedTwice
  OBVIOUS
<1>1. IInv /\ [Next]_vars =>
         [\A b, o \in Board : VectorOf(b)'[o] >= VectorOf(b)[o]]_vars
  <2>1. SUFFICES ASSUME IInv, [Next]_vars, NEW b \in Board, NEW o \in Board
                 PROVE  VectorOf(b)'[o] >= VectorOf(b)[o]
    OBVIOUS
  <2>2. IInv' /\ Accounted
    BY <2>1, NextInv
  <2>3. /\ LogOf(held[b], o) \in SUBSET Message /\ low[b][o] \in 0..MaxPosts
        /\ LogOf(held'[b], o) \in SUBSET Message /\ low'[b][o] \in 0..MaxPosts
    BY <2>1, <2>2 DEF IInv, TypeOK, LogOf, Vector
  <2>4. Accounts(LogOf(held[b], o), low[b][o], LogOf(held'[b], o), low'[b][o])
    BY <2>2 DEF Accounted
  <2>5. Contiguous(LogOf(held[b], o), low[b][o])
           <= Contiguous(LogOf(held'[b], o), low'[b][o])
    BY <2>3, <2>4, AccountsKeeps
  <2>6. /\ VectorOf(b)[o] = Contiguous(LogOf(held[b], o), low[b][o])
        /\ VectorOf(b)'[o] = Contiguous(LogOf(held'[b], o), low'[b][o])
    BY DEF VectorOf
  <2>7. /\ Contiguous(LogOf(held[b], o), low[b][o]) \in Int
        /\ Contiguous(LogOf(held'[b], o), low'[b][o]) \in Int
    <3>1. /\ Contiguous(LogOf(held[b], o), low[b][o]) \in low[b][o]..MaxPosts
          /\ Contiguous(LogOf(held'[b], o), low'[b][o]) \in low'[b][o]..MaxPosts
      BY <2>3, ContiguousRun
    <3>2. QED
      BY <3>1, <2>3, LimitsAssumption
  <2>8. QED
    BY <2>5, <2>6, <2>7
<1>2. QED
  BY <1>1, Invariance, PTL DEF Spec, NothingAskedTwice

=============================================================================
