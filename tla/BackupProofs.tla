---------------------------- MODULE BackupProofs ----------------------------
(***************************************************************************)
(* Nothing a record of the backup says is mirrored is missing, and what is *)
(* mirrored is in order, once each and of one version of a file, whatever  *)
(* fails or is cut short, for any sessions, files and sizes.               *)
(***************************************************************************)
EXTENDS Backup, SequenceTheorems, TLAPS

\* No connection is taken for the end of a file, and no dashboard is closed
\* between a pairing that moved and the index.
Guarded == Faults = {}

-----------------------------------------------------------------------------
(* The invariant *)

Paired  == {"opening", "resuming", "downloading", "appending", "appending messages",
            "replacing", "replacing messages"}
Growing == {"appending", "appending messages"}
Whole   == {"replacing", "replacing messages"}

\* What a pass has in hand at each of its stages.
HoldingInv ==
    pass # None =>
        /\ pass.at # "done" => pass.session # None
        /\ pass.at \in Paired => pass.record.file # None
        /\ pass.at \in Growing \union Whole => pass.data # None /\ pass.data.to \in Nat

TypeInv == TypeOK /\ HoldingInv

\* What a record claims of its two copies, given the files as they are.
Good(r, t, m, files) ==
    /\ r.file = None => r.synced = 0 /\ r.digest = None
    /\ r.digest # None =>
          /\ r.digest.of = r.file /\ r.synced > 0
          /\ r.digest.version <= files[r.file].version
    /\ r.synced > 0 => \A i \in DOMAIN t : t[i].of = r.file
    /\ r.digest # None /\ r.digest.version = files[r.file].version =>
          /\ r.synced <= files[r.file].lines
          /\ \A n \in 1 .. r.synced :
                /\ Holds(t, r.file, r.digest.version, n)
                /\ Holds(m, r.file, r.digest.version, n)

\* Unless a pairing has moved the index on disk is good as it is.
DiskInv ==
    pass = None \/ ~pass.moved =>
        \A s \in Sessions : Good(index[s], transcript[s], messages[s], file)

\* So are the records of the pass, which the index is to become.
PassInv ==
    pass # None =>
        /\ pass.session \notin pass.left
        /\ \A s \in Sessions :
              s # pass.session => Good(pass.index[s], transcript[s], messages[s], file)
        /\ \A s \in pass.left : pass.index[s] = index[s]
        /\ pass.session # None =>
              Good(pass.record, transcript[pass.session], messages[pass.session], file)

\* The record in hand and the one on disk part only as the copies are finished.
LinkInv ==
    pass # None /\ pass.session # None /\ ~pass.moved =>
        /\ index[pass.session].file \in {None, pass.record.file}
        /\ pass.at # "done" =>
              /\ index[pass.session].synced = pass.record.synced
              /\ index[pass.session].digest = pass.record.digest

\* What was read is of the file in hand, as it is or was since the record.
Fits(data, r, files) ==
    /\ data # None /\ data.of = r.file
    /\ data.version <= files[r.file].version
    /\ data.version = files[r.file].version => data.to <= files[r.file].lines
    /\ data.to \in Nat
    /\ r.digest # None =>
          /\ r.digest.version <= data.version
          /\ r.digest.version = data.version => r.synced <= data.to

Copied(blob, data) ==
    /\ \A n \in data.from + 1 .. data.to : Holds(blob, data.of, data.version, n)
    /\ \A i \in DOMAIN blob : blob[i].of = data.of

StageInv ==
    pass # None =>
        /\ pass.at \in Growing \union {"resuming"} => pass.record.digest # None
        /\ pass.at \in Growing \union Whole => Fits(pass.data, pass.record, file)
        /\ pass.at \in Growing => pass.data.from = pass.record.synced
                                  /\ pass.data.from <= pass.data.to
        /\ pass.at \in Whole => pass.data.from = 0
        /\ pass.at \in {"appending messages", "replacing messages"} =>
              Copied(transcript[pass.session], pass.data)

IInv == TypeInv /\ DiskInv /\ PassInv /\ LinkInv /\ StageInv

-----------------------------------------------------------------------------
(* Copies *)

\* A chunk that is appended takes away nothing a copy holds.
LEMMA HoldsOn ==
    ASSUME NEW t \in Seq(Frame), NEW frame \in Frame, NEW f, NEW v, NEW n,
           Holds(t, f, v, n)
    PROVE  Holds(WithFrame(t, frame), f, v, n)
<1>1. CASE frame.from < frame.to
  <2>1. WithFrame(t, frame) = Append(t, frame)
    BY <1>1 DEF WithFrame
  <2>2. \A i \in DOMAIN t : i \in DOMAIN Append(t, frame) /\ Append(t, frame)[i] = t[i]
    OBVIOUS
  <2> QED BY <2>1, <2>2 DEF Holds
<1>2. CASE ~(frame.from < frame.to)
  BY <1>2 DEF WithFrame
<1> QED BY <1>1, <1>2

\* It holds the lines of the chunk.
LEMMA HoldsChunk ==
    ASSUME NEW t \in Seq(Frame), NEW frame \in Frame, NEW n \in Int,
           frame.from < n, n <= frame.to
    PROVE  Holds(WithFrame(t, frame), frame.of, frame.version, n)
<1>1. frame.from < frame.to
  BY DEF Frame
<1>2. WithFrame(t, frame) = Append(t, frame)
  BY <1>1 DEF WithFrame
<1>3. Len(t) + 1 \in DOMAIN Append(t, frame) /\ Append(t, frame)[Len(t) + 1] = frame
  OBVIOUS
<1> QED BY <1>2, <1>3 DEF Holds

\* And it is of nothing else.
LEMMA SameSource ==
    ASSUME NEW t \in Seq(Frame), NEW frame \in Frame, NEW f, frame.of = f,
           \A i \in DOMAIN t : t[i].of = f
    PROVE  \A i \in DOMAIN WithFrame(t, frame) : WithFrame(t, frame)[i].of = f
<1>1. CASE frame.from < frame.to
  BY <1>1 DEF WithFrame
<1>2. CASE ~(frame.from < frame.to)
  BY <1>2 DEF WithFrame
<1> QED BY <1>1, <1>2

LEMMA Single ==
    ASSUME NEW frame \in Frame
    PROVE  /\ \A n \in frame.from + 1 .. frame.to :
                 Holds(<<frame>>, frame.of, frame.version, n)
           /\ \A i \in DOMAIN <<frame>> : <<frame>>[i].of = frame.of
BY DEF Holds, Frame

\* A blob with a chunk more is a blob.
LEMMA BlobType ==
    ASSUME NEW t \in Seq(Frame), NEW frame \in Frame
    PROVE  WithFrame(t, frame) \in Seq(Frame) /\ <<frame>> \in Seq(Frame)
BY DEF WithFrame

-----------------------------------------------------------------------------
(* Records *)

\* A file that grows, or is another under the same name, breaks no promise.
LEMMA GoodAsFilesChange ==
    ASSUME NEW r \in Record, NEW t, NEW m,
           NEW files \in [Files -> File], NEW then \in [Files -> File],
           \A f \in Files :
              \/ then[f].version > files[f].version
              \/ then[f].version = files[f].version /\ then[f].lines >= files[f].lines,
           Good(r, t, m, files)
    PROVE  Good(r, t, m, then)
<1>1. CASE r.digest = None
  BY <1>1 DEF Good
<1>2. CASE r.digest # None
  <2>1. r.digest \in Digest /\ r.digest.of = r.file /\ r.file \in Files /\ r.synced \in Nat
    BY <1>2 DEF Good, Record, Digest
  <2>2. /\ files[r.file].version \in Nat /\ then[r.file].version \in Nat
        /\ files[r.file].lines \in Nat /\ then[r.file].lines \in Nat
        /\ r.digest.version \in Nat
    BY <2>1 DEF File, Digest
  <2>3. r.digest.version <= files[r.file].version
    BY <1>2 DEF Good
  <2>4. r.digest.version <= then[r.file].version
    BY <2>1, <2>2, <2>3
  <2>5. r.digest.version = then[r.file].version =>
           /\ r.digest.version = files[r.file].version
           /\ then[r.file].lines >= files[r.file].lines
    BY <2>1, <2>2, <2>3
  <2> QED BY <1>2, <2>1, <2>2, <2>4, <2>5 DEF Good
<1> QED BY <1>1, <1>2

\* Nor does a chunk appended to either copy.
LEMMA GoodAsTranscriptGrows ==
    ASSUME NEW r \in Record, NEW t \in Seq(Frame), NEW m, NEW files,
           NEW frame \in Frame, r.file \in {None, frame.of}, Good(r, t, m, files)
    PROVE  Good(r, WithFrame(t, frame), m, files)
<1>1. r.synced > 0 => \A i \in DOMAIN WithFrame(t, frame) : WithFrame(t, frame)[i].of = r.file
  BY SameSource DEF Good
<1> QED BY <1>1, HoldsOn DEF Good

LEMMA GoodAsMessagesGrow ==
    ASSUME NEW r \in Record, NEW t, NEW m \in Seq(Frame), NEW files,
           NEW frame \in Frame, Good(r, t, m, files)
    PROVE  Good(r, t, WithFrame(m, frame), files)
BY HoldsOn DEF Good

\* Nor does the file taken whole, in either copy, as it has all that was there.
LEMMA GoodAsTranscriptIsReplaced ==
    ASSUME NEW r \in Record, NEW t, NEW m, NEW files \in [Files -> File],
           NEW frame \in Frame, frame.of \in Files, frame.from = 0,
           r.file \in {None, frame.of},
           r.digest # None => Fits(frame, r, files), Good(r, t, m, files)
    PROVE  Good(r, <<frame>>, m, files)
<1>1. CASE r.file = None
  BY <1>1 DEF Good, Record
<1>2. CASE r.file = frame.of
  <2>1. \A i \in DOMAIN <<frame>> : <<frame>>[i].of = r.file
    BY <1>2
  <2>2. ASSUME r.digest # None, r.digest.version = files[r.file].version
        PROVE  \A n \in 1 .. r.synced : Holds(<<frame>>, r.file, r.digest.version, n)
    <3>1. r.digest.version <= frame.version /\ frame.version <= files[r.file].version
      BY <2>2 DEF Fits
    <3>2. frame.version \in Nat /\ files[r.file].version \in Nat /\ r.synced \in Nat
      BY <1>2 DEF Frame, File, Record
    <3>3. r.digest.version = frame.version
      BY <2>2, <3>1, <3>2
    <3>4. r.synced <= frame.to /\ frame.to \in Nat
      BY <2>2, <3>3 DEF Fits
    <3>5. \A n \in 1 .. r.synced : n \in frame.from + 1 .. frame.to
      BY <3>2, <3>4
    <3> QED BY <1>2, <3>3, <3>5, Single
  <2> QED BY <1>2, <2>1, <2>2 DEF Good
<1> QED BY <1>1, <1>2

LEMMA GoodAsMessagesAreReplaced ==
    ASSUME NEW r \in Record, NEW t, NEW m, NEW files \in [Files -> File],
           NEW frame \in Frame, frame.of \in Files, frame.from = 0,
           r.file \in {None, frame.of},
           r.digest # None => Fits(frame, r, files), Good(r, t, m, files)
    PROVE  Good(r, t, <<frame>>, files)
<1>1. CASE r.file = None
  BY <1>1 DEF Good, Record
<1>2. CASE r.file = frame.of
  <2>1. ASSUME r.digest # None, r.digest.version = files[r.file].version
        PROVE  \A n \in 1 .. r.synced : Holds(<<frame>>, r.file, r.digest.version, n)
    <3>1. r.digest.version <= frame.version /\ frame.version <= files[r.file].version
      BY <2>1 DEF Fits
    <3>2. frame.version \in Nat /\ files[r.file].version \in Nat /\ r.synced \in Nat
      BY <1>2 DEF Frame, File, Record
    <3>3. r.digest.version = frame.version
      BY <2>1, <3>1, <3>2
    <3>4. r.synced <= frame.to /\ frame.to \in Nat
      BY <2>1, <3>3 DEF Fits
    <3>5. \A n \in 1 .. r.synced : n \in frame.from + 1 .. frame.to
      BY <3>2, <3>4
    <3> QED BY <1>2, <3>3, <3>5, Single
  <2> QED BY <1>2, <2>1 DEF Good
<1> QED BY <1>1, <1>2

\* The cursor may move once both copies have the chunk.
LEMMA GoodOnceAppended ==
    ASSUME NEW r \in Record, NEW t, NEW m \in Seq(Frame), NEW files \in [Files -> File],
           NEW frame \in Frame, frame.of \in Files, NEW mark,
           r.digest # None, frame.from = r.synced, frame.from <= frame.to,
           Fits(frame, r, files), Good(r, t, m, files), Copied(t, frame)
    PROVE  Good([r EXCEPT !.synced = frame.to, !.mark = mark], t, WithFrame(m, frame), files)
<1> DEFINE then == [r EXCEPT !.synced = frame.to, !.mark = mark]
<1>1. then.file = r.file /\ then.synced = frame.to /\ then.digest = r.digest
  BY DEF Record
<1>2. /\ r.file = frame.of /\ r.synced \in Nat /\ r.synced > 0 /\ frame.to \in Nat
      /\ r.digest.of = r.file /\ r.digest.version <= files[r.file].version
  BY DEF Fits, Good, Record
<1>3. then.synced > 0 /\ r.file # None
  BY <1>1, <1>2, NoneAssumption
<1>4. \A i \in DOMAIN t : t[i].of = r.file
  BY <1>2 DEF Copied
<1>5. ASSUME r.digest.version = files[r.file].version
      PROVE  /\ frame.to <= files[r.file].lines
             /\ \A n \in 1 .. frame.to :
                   /\ Holds(t, r.file, r.digest.version, n)
                   /\ Holds(WithFrame(m, frame), r.file, r.digest.version, n)
  <2>1. frame.version = r.digest.version
    <3>1. frame.version \in Nat /\ files[r.file].version \in Nat
      BY <1>2 DEF Frame, File
    <3>2. r.digest.version <= frame.version /\ frame.version <= files[r.file].version
      BY DEF Fits
    <3> QED BY <1>5, <3>1, <3>2
  <2>2. frame.to <= files[r.file].lines
    BY <1>5, <2>1 DEF Fits
  <2>3. ASSUME NEW n \in 1 .. frame.to, n <= r.synced
        PROVE  /\ Holds(t, r.file, r.digest.version, n)
               /\ Holds(WithFrame(m, frame), r.file, r.digest.version, n)
    <3>1. n \in 1 .. r.synced
      BY <1>2, <2>3
    <3>2. Holds(t, r.file, r.digest.version, n) /\ Holds(m, r.file, r.digest.version, n)
      BY <1>5, <3>1 DEF Good
    <3> QED BY <3>2, HoldsOn
  <2>4. ASSUME NEW n \in 1 .. frame.to, ~(n <= r.synced)
        PROVE  /\ Holds(t, r.file, r.digest.version, n)
               /\ Holds(WithFrame(m, frame), r.file, r.digest.version, n)
    <3>1. n \in frame.from + 1 .. frame.to /\ frame.from < n /\ n <= frame.to /\ n \in Int
      BY <1>2, <2>4
    <3>2. Holds(t, r.file, r.digest.version, n)
      BY <1>2, <2>1, <3>1 DEF Copied
    <3>3. Holds(WithFrame(m, frame), r.file, r.digest.version, n)
      BY <1>2, <2>1, <3>1, HoldsChunk
    <3> QED BY <3>2, <3>3
  <2> QED BY <2>2, <2>3, <2>4
<1> HIDE DEF then
<1>6. Good(then, t, WithFrame(m, frame), files)
  BY <1>1, <1>2, <1>3, <1>4, <1>5 DEF Good
<1> QED BY <1>6 DEF then

\* And so may a record of a file taken whole.
LEMMA GoodOnceReplaced ==
    ASSUME NEW r \in Record, NEW t, NEW files \in [Files -> File],
           NEW frame \in Frame, frame.of \in Files, NEW mark, frame.from = 0,
           Fits(frame, r, files), Copied(t, frame)
    PROVE  Good([r EXCEPT !.synced = frame.to,
                          !.digest = HeadDigest(r.file, frame.version, frame.to),
                          !.mark = mark], t, <<frame>>, files)
<1> DEFINE digest == HeadDigest(r.file, frame.version, frame.to)
           then == [r EXCEPT !.synced = frame.to, !.digest = digest, !.mark = mark]
<1>1. then.file = r.file /\ then.synced = frame.to /\ then.digest = digest
  BY DEF Record
<1>2. /\ r.file = frame.of /\ frame.to \in Nat /\ r.file # None
      /\ frame.version <= files[r.file].version
      /\ frame.version = files[r.file].version => frame.to <= files[r.file].lines
  BY NoneAssumption DEF Fits
<1>3. digest # None => /\ digest = [of |-> r.file, version |-> frame.version]
                       /\ frame.to > 0
  BY <1>2, SizesAssumption DEF HeadDigest
<1>4. \A n \in 1 .. frame.to : /\ Holds(t, r.file, frame.version, n)
                               /\ Holds(<<frame>>, r.file, frame.version, n)
  BY <1>2, Single DEF Copied
<1>5. \A i \in DOMAIN t : t[i].of = r.file
  BY <1>2 DEF Copied
<1> HIDE DEF then, digest
<1>6. Good(then, t, <<frame>>, files)
  BY <1>1, <1>2, <1>3, <1>4, <1>5 DEF Good
<1> QED BY <1>6 DEF then, digest

-----------------------------------------------------------------------------
(* Types *)

\* A pass in hand, and the one in it.
LEMMA InHand ==
    ASSUME TypeOK, pass # None
    PROVE  /\ pass \in Pass /\ pass.at \in Stage /\ pass.record \in Record
           /\ pass.record.synced \in Nat /\ pass.record.lines \in Nat
           /\ pass.index \in [Sessions -> Record] /\ pass.left \subseteq Sessions
           /\ pass.session \in Sessions \union {None} /\ pass.total \in Nat
           /\ pass.data \in Frame \union {None} /\ pass.touched \subseteq Sessions
           /\ pass.listed \in [Sessions -> Files \union {None}]
           /\ pass.spoken \in [Files -> Sessions \union {None}]
           /\ pass.mark \in File \union {None} /\ pass.moved \in BOOLEAN
           /\ pass.record.file \in Files \union {None}
           /\ pass.record.digest \in Digest \union {None}
           /\ pass.record.mark \in File \union {None}
BY DEF TypeOK, Pass, Record

LEMMA AtIsInHand ==
    ASSUME NEW stage, At(stage)
    PROVE  pass # None /\ pass.at = stage
BY DEF At

LEMMA GoToType ==
    ASSUME TypeOK, pass # None, NEW stage \in Stage, GoTo(stage)
    PROVE  pass' \in Pass
BY InHand DEF GoTo, Pass

LEMMA UpsertedType ==
    ASSUME TypeOK, pass # None
    PROVE  Upserted \in [Sessions -> Record]
BY InHand DEF Upserted

LEMMA InitType == Init => TypeInv
<1> SUFFICES ASSUME Init PROVE TypeInv
  OBVIOUS
<1>1. NoRecord \in Record
  BY DEF NoRecord, Record
<1>2. file \in [Files -> File]
  BY BoundsAssumption DEF Init, File
<1>3. present \subseteq Sessions
  BY SetsAssumption DEF Init
<1>4. moves \in 0 .. MaxMoves /\ troubles \in 0 .. MaxTroubles
  BY BoundsAssumption DEF Init
<1> QED BY <1>1, <1>2, <1>3, <1>4 DEF Init, TypeInv, TypeOK, HoldingInv

-----------------------------------------------------------------------------
(* What each action does to the pass *)

\* A step within a session's turn.
SameTurn ==
    /\ pass # None /\ pass' # None /\ pass' \in Pass
    /\ pass'.index = pass.index /\ pass'.left = pass.left
    /\ pass'.session = pass.session

SameClaims(r, q) == r.file = q.file /\ r.synced = q.synced /\ r.digest = q.digest

LEMMA InTurn ==
    ASSUME TypeInv, pass # None, pass.at # "done"
    PROVE  pass.session \in Sessions
BY InHand DEF TypeInv, HoldingInv

LEMMA InPair ==
    ASSUME TypeInv, pass # None, pass.at \in Paired
    PROVE  pass.record.file \in Files /\ file[pass.record.file] \in File
BY InHand DEF TypeInv, HoldingInv, TypeOK

LEMMA InCopy ==
    ASSUME TypeInv, pass # None, pass.at \in Growing \union Whole
    PROVE  pass.data \in Frame /\ pass.data.to \in Nat
BY InHand DEF TypeInv, HoldingInv

LEMMA GoToFacts ==
    ASSUME TypeInv, pass # None, NEW stage \in Stage, GoTo(stage)
    PROVE  /\ SameTurn /\ pass'.at = stage
           /\ pass'.record = pass.record /\ pass'.data = pass.data
           /\ pass'.mark = pass.mark /\ pass'.moved = pass.moved
           /\ pass'.touched = pass.touched
<1>1. pass \in Pass
  BY InHand DEF TypeInv
<1>2. pass' = [pass EXCEPT !.at = stage]
  BY DEF GoTo
<1>3. pass' \in Pass
  BY <1>1, <1>2 DEF Pass
<1>4. pass' # None
  BY <1>3, NoneAssumption
<1> QED BY <1>1, <1>2, <1>3, <1>4 DEF Pass, SameTurn

LEMMA BeginFacts ==
    ASSUME TypeInv, Begin
    PROVE  /\ pass = None /\ pass' # None /\ pass' \in Pass
           /\ pass'.at = "done" /\ pass'.index = index /\ pass'.left = present
           /\ pass'.session = None /\ pass'.moved = FALSE /\ pass'.touched = {}
<1>1. PICK spoken \in [Files -> Sessions \union {None}] :
         pass' = [at |-> "done", index |-> index, listed |-> thread,
                  spoken |-> spoken, left |-> present, session |-> None,
                  record |-> NoRecord, total |-> 0, mark |-> None,
                  data |-> None, touched |-> {}, moved |-> FALSE]
  BY DEF Begin
<1>2. NoRecord \in Record
  BY DEF NoRecord, Record
<1>3. pass' \in Pass
  BY <1>1, <1>2 DEF TypeInv, TypeOK, Pass, Stage
<1>4. pass' # None
  BY <1>3, NoneAssumption
<1> QED BY <1>1, <1>3, <1>4 DEF Begin

LEMMA TakeUpFacts ==
    ASSUME TypeInv, NEW s \in Sessions, TakeUp(s)
    PROVE  /\ pass # None /\ pass.at = "done" /\ s \in pass.left
           /\ pass' # None /\ pass' \in Pass
           /\ pass'.at \in {"counting", "scanning", "done"}
           /\ pass'.index = Upserted /\ pass'.left = pass.left \ {s}
           /\ pass'.session = s /\ pass'.record = pass.index[s]
           /\ pass'.moved = pass.moved /\ pass'.touched = pass.touched
<1> DEFINE stage == IF IncludeAnsi THEN "counting"
                    ELSE IF s \in Agents THEN "scanning" ELSE "done"
<1>1. pass # None /\ pass.at = "done" /\ s \in pass.left
  BY DEF TakeUp, At
<1>2. /\ pass \in Pass /\ Upserted \in [Sessions -> Record]
      /\ pass.index[s] \in Record /\ pass.left \subseteq Sessions
  BY <1>1, InHand, UpsertedType DEF TypeInv
<1>3. stage \in {"counting", "scanning", "done"} /\ stage \in Stage
  BY DEF Stage
<1>4. pass' = [pass EXCEPT !.at = stage,
                           !.index = Upserted, !.left = @ \ {s}, !.session = s,
                           !.record = pass.index[s],
                           !.total = 0, !.mark = None, !.data = None]
  BY DEF TakeUp
<1> HIDE DEF stage
<1>5. pass' \in Pass
  BY <1>2, <1>3, <1>4 DEF Pass
<1>6. pass' # None
  BY <1>5, NoneAssumption
<1>7. /\ pass'.at = stage /\ pass'.index = Upserted /\ pass'.left = pass.left \ {s}
      /\ pass'.session = s /\ pass'.record = pass.index[s]
      /\ pass'.moved = pass.moved /\ pass'.touched = pass.touched
  BY <1>2, <1>4 DEF Pass
<1> QED BY <1>1, <1>3, <1>5, <1>6, <1>7

LEMMA CountFacts ==
    ASSUME TypeInv, Count
    PROVE  /\ SameTurn /\ pass.at = "counting" /\ pass'.at = "paging"
           /\ SameClaims(pass'.record, pass.record) /\ pass'.moved = pass.moved
           /\ pass'.touched = pass.touched
           /\ pass.record.lines > 0 => pass'.record.lines = pass.record.lines
<1>1. pass # None /\ pass.at = "counting"
  BY DEF Count, At
<1>2. pass \in Pass /\ pass.session \in Sessions /\ pass.record \in Record
  BY <1>1, InHand, InTurn DEF TypeInv
<1> DEFINE total == printed[pass.session]
           lines == IF pass.record.lines > 0 THEN pass.record.lines
                    ELSE IF total > Window THEN total - Window ELSE 0
<1>3. total \in Nat
  BY <1>2 DEF TypeInv, TypeOK
<1>4. lines \in Nat
  BY <1>2, <1>3, SizesAssumption DEF Record
<1>5. pass' = [pass EXCEPT !.at = "paging", !.total = total, !.record.lines = lines]
  BY <1>2 DEF Count, Pass
<1> HIDE DEF total, lines
<1>6. pass' \in Pass
  BY <1>2, <1>3, <1>4, <1>5 DEF Pass, Record, Stage
<1>7. pass' # None
  BY <1>6, NoneAssumption
<1>8. pass'.record.lines = lines /\ pass'.touched = pass.touched
  BY <1>2, <1>5 DEF Pass, Record
<1>9. pass.record.lines > 0 => pass'.record.lines = pass.record.lines
  BY <1>8 DEF lines
<1> QED BY <1>1, <1>2, <1>5, <1>6, <1>7, <1>8, <1>9 DEF Pass, Record, SameTurn, SameClaims

LEMMA PageFacts ==
    ASSUME TypeInv, Page
    PROVE  /\ SameTurn /\ pass.at = "paging" /\ pass'.at = "paging"
           /\ SameClaims(pass'.record, pass.record) /\ pass'.moved = pass.moved
           /\ capture' \in [Sessions -> Seq(Frame)]
           /\ pass'.touched = pass.touched \union {pass.session} /\ slid \subseteq slid'
           /\ pass.session \notin slid' =>
                 \E frame \in Frame :
                    /\ frame.from = pass.record.lines /\ frame.from < frame.to
                    /\ frame.to = pass'.record.lines
                    /\ capture' = [capture EXCEPT ![pass.session] = WithFrame(@, frame)]
<1>1. pass # None /\ pass.at = "paging"
  BY DEF Page, At
<1>2. /\ pass \in Pass /\ pass.session \in Sessions /\ pass.record \in Record
      /\ pass.record.lines \in Nat /\ pass.total \in Nat /\ pass.touched \subseteq Sessions
  BY <1>1, InHand, InTurn DEF TypeInv
<1> DEFINE s == pass.session
           missing == pass.total - pass.record.lines
           window == IF missing < Window THEN missing ELSE Window
           offset == missing - window
           end == printed[s] - offset
           frame == [of |-> s, version |-> 0, from |-> end - window, to |-> end]
           lines == pass.record.lines + window
<1>3. printed[s] \in Nat
  BY <1>2 DEF TypeInv, TypeOK
<1>4. window \in Nat /\ frame \in Frame /\ lines \in Nat
  BY <1>2, <1>3, SizesAssumption DEF Frame, Page
<1>5. pass' = [pass EXCEPT !.record.lines = lines, !.touched = @ \union {s}]
  BY <1>2 DEF Page, Pass, Record
<1>6. capture' = [capture EXCEPT ![s] = WithFrame(@, frame)]
  BY DEF Page
<1>10. slid \subseteq slid' /\ (s \notin slid' => printed[s] = pass.total)
  BY DEF Page
<1>11. printed[s] = pass.total => frame.from = pass.record.lines /\ frame.to = lines
                                  /\ frame.from < frame.to
  BY <1>2, <1>3, SizesAssumption DEF Page
<1> HIDE DEF s, lines, frame
<1>7. pass' \in Pass
  BY <1>2, <1>4, <1>5 DEF Pass, Record, s
<1>8. pass' # None
  BY <1>7, NoneAssumption
<1>9. capture' \in [Sessions -> Seq(Frame)]
  BY <1>2, <1>4, <1>6, BlobType DEF TypeInv, TypeOK, s
<1>12. pass'.record.lines = lines /\ pass'.touched = pass.touched \union {s}
  BY <1>2, <1>5 DEF Pass, Record
<1>13. /\ SameTurn /\ pass'.at = "paging" /\ SameClaims(pass'.record, pass.record)
       /\ pass'.moved = pass.moved
  BY <1>1, <1>2, <1>5, <1>7, <1>8 DEF Pass, Record, SameTurn, SameClaims
<1> QED BY <1>1, <1>4, <1>6, <1>9, <1>10, <1>11, <1>12, <1>13 DEF s

LEMMA EndCaptureFacts ==
    ASSUME TypeInv, EndCapture
    PROVE  /\ SameTurn /\ pass.at = "paging" /\ pass'.at \in {"scanning", "done"}
           /\ pass'.record = pass.record /\ pass'.moved = pass.moved
           /\ capture' \in [Sessions -> Seq(Frame)] /\ pass'.touched = pass.touched
<1>1. pass # None /\ pass.at = "paging"
  BY DEF EndCapture, At
<1>2. AfterCapture \in {"scanning", "done"} /\ AfterCapture \in Stage
  BY DEF AfterCapture, Stage
<1>3. GoTo(AfterCapture)
  BY DEF EndCapture
<1>4. pass.session \in Sessions
  BY <1>1, InTurn
<1>5. ASSUME NEW blob \in Seq(Frame) PROVE Retained(blob) \in Seq(Frame)
  <2>1. CASE Len(blob) > Keep
    <3>1. Keep \in Nat /\ Len(blob) \in Nat
      BY SizesAssumption
    <3>2. Len(blob) - Keep + 1 \in 1 .. Len(blob) + 1
      BY <2>1, <3>1, SizesAssumption
    <3>3. SubSeq(blob, Len(blob) - Keep + 1, Len(blob)) \in Seq(Frame)
      BY <3>1, <3>2, SubSeqProperties
    <3> QED BY <2>1, <3>3 DEF Retained
  <2>2. CASE ~(Len(blob) > Keep)
    BY <2>2 DEF Retained
  <2> QED BY <2>1, <2>2
<1>6. capture' = [capture EXCEPT ![pass.session] = Retained(@)]
  BY DEF EndCapture
<1>7. capture' \in [Sessions -> Seq(Frame)]
  BY <1>4, <1>5, <1>6 DEF TypeInv, TypeOK
<1>8. /\ SameTurn /\ pass'.at = AfterCapture
      /\ pass'.record = pass.record /\ pass'.moved = pass.moved
      /\ pass'.touched = pass.touched
  BY <1>1, <1>2, <1>3, GoToFacts
<1> QED BY <1>1, <1>2, <1>7, <1>8

LEMMA CaptureFailsFacts ==
    ASSUME TypeInv, CaptureFails
    PROVE  /\ SameTurn /\ pass.at \in {"counting", "paging"}
           /\ pass'.at \in {"scanning", "done"}
           /\ pass'.record = pass.record /\ pass'.moved = pass.moved
           /\ pass'.touched = pass.touched
<1>1. pass # None /\ pass.at \in {"counting", "paging"}
  BY DEF CaptureFails, At
<1>2. AfterCapture \in {"scanning", "done"} /\ AfterCapture \in Stage
  BY DEF AfterCapture, Stage
<1>3. GoTo(AfterCapture)
  BY DEF CaptureFails
<1>4. /\ SameTurn /\ pass'.at = AfterCapture
      /\ pass'.record = pass.record /\ pass'.moved = pass.moved
      /\ pass'.touched = pass.touched
  BY <1>1, <1>2, <1>3, GoToFacts
<1> QED BY <1>1, <1>2, <1>4

\* A scan that finds no file for the session.
ScansNone == At("scanning") /\ GoTo("done") /\ UNCHANGED <<transcript, messages>>

\* And one that pairs it with a file.
ScansFile(f) ==
    /\ SameTurn /\ pass.at = "scanning" /\ f \in Files
    /\ pass'.at \in {"done", "opening"}
    /\ pass'.record = PairedWith(f, pass.record) /\ pass'.touched = pass.touched
    /\ pass'.moved = (pass.moved \/ pass.record.file \notin {None, f})
    /\ IF pass.record.file \notin {None, f}
       THEN /\ transcript' = [transcript EXCEPT ![pass.session] = <<>>]
            /\ messages' = [messages EXCEPT ![pass.session] = <<>>]
       ELSE UNCHANGED <<transcript, messages>>

LEMMA PairedWithFacts ==
    ASSUME NEW f \in Files, NEW r \in Record
    PROVE  /\ PairedWith(f, r) \in Record /\ PairedWith(f, r).file = f
           /\ PairedWith(f, r).lines = r.lines
           /\ IF r.file \in {None, f}
              THEN /\ PairedWith(f, r).synced = r.synced
                   /\ PairedWith(f, r).digest = r.digest
              ELSE /\ PairedWith(f, r).synced = 0
                   /\ PairedWith(f, r).digest = None
<1>1. CASE r.file \in {None, f}
  BY <1>1 DEF PairedWith, Record
<1>2. CASE r.file \notin {None, f}
  BY <1>2 DEF PairedWith, Record
<1> QED BY <1>1, <1>2

LEMMA ScanFacts ==
    ASSUME TypeInv, Scan
    PROVE  ScansNone \/ \E f \in Files : ScansFile(f)
<1>1. pass # None /\ pass.at = "scanning" /\ At("scanning")
  BY DEF Scan, At
<1>2. /\ pass \in Pass /\ pass.session \in Sessions /\ pass.record \in Record
      /\ pass.spoken \in [Files -> Sessions \union {None}] /\ pass.moved \in BOOLEAN
      /\ pass.record.file \in Files \union {None}
  BY <1>1, InHand, InTurn DEF TypeInv
<1>3. PICK f \in Candidates :
        IF f = None
        THEN GoTo("done") /\ UNCHANGED <<transcript, messages>>
        ELSE LET s      == pass.session
                 record == PairedWith(f, pass.record)
                 moved  == pass.record.file \notin {None, f}
             IN  /\ pass' = [pass EXCEPT
                        !.at = IF Current(f, record) THEN "done" ELSE "opening",
                        !.record = record, !.mark = file[f],
                        !.spoken[f] = s, !.moved = @ \/ moved]
                 /\ transcript' = IF moved THEN [transcript EXCEPT ![s] = <<>>] ELSE transcript
                 /\ messages' = IF moved THEN [messages EXCEPT ![s] = <<>>] ELSE messages
  BY DEF Scan
<1>4. CASE f = None
  BY <1>1, <1>3, <1>4 DEF ScansNone
<1>5. CASE f # None
  <2>1. f \in Files
    BY <1>5 DEF Candidates, Mine
  <2> DEFINE record == PairedWith(f, pass.record)
             stage == IF Current(f, record) THEN "done" ELSE "opening"
             moved == pass.moved \/ pass.record.file \notin {None, f}
             spoken == [pass.spoken EXCEPT ![f] = pass.session]
             mark == file[f]
  <2>2. record \in Record
    BY <1>2, <2>1, PairedWithFacts
  <2>3. stage \in {"done", "opening"} /\ stage \in Stage
    BY DEF Stage
  <2>4. spoken \in [Files -> Sessions \union {None}] /\ mark \in File /\ moved \in BOOLEAN
    BY <1>2, <2>1 DEF TypeInv, TypeOK
  <2>5. pass' = [pass EXCEPT !.at = stage, !.record = record, !.mark = mark,
                             !.spoken = spoken, !.moved = moved]
    BY <1>2, <1>3, <1>5 DEF Pass
  <2>6. IF pass.record.file \notin {None, f}
        THEN /\ transcript' = [transcript EXCEPT ![pass.session] = <<>>]
             /\ messages' = [messages EXCEPT ![pass.session] = <<>>]
        ELSE UNCHANGED <<transcript, messages>>
    BY <1>3, <1>5
  <2> HIDE DEF record, stage, moved, spoken, mark
  <2>7. pass' \in Pass
    BY <1>2, <2>2, <2>3, <2>4, <2>5 DEF Pass
  <2>8. pass' # None
    BY <2>7, NoneAssumption
  <2>9. /\ pass'.index = pass.index /\ pass'.left = pass.left
        /\ pass'.session = pass.session /\ pass'.at = stage
        /\ pass'.record = record /\ pass'.moved = moved
        /\ pass'.touched = pass.touched
    BY <1>2, <2>5 DEF Pass
  <2>10. SameTurn
    BY <1>1, <2>7, <2>8, <2>9 DEF SameTurn
  <2>11. pass'.moved = (pass.moved \/ pass.record.file \notin {None, f})
    BY <2>9 DEF moved
  <2>12. pass'.record = PairedWith(f, pass.record)
    BY <2>9 DEF record
  <2>13. ScansFile(f)
    BY <1>1, <2>1, <2>3, <2>6, <2>9, <2>10, <2>11, <2>12 DEF ScansFile
  <2> QED BY <2>1, <2>13
<1> QED BY <1>4, <1>5

LEMMA CheckOpeningFacts ==
    ASSUME TypeInv, CheckOpening
    PROVE  /\ SameTurn /\ pass.at = "opening"
           /\ pass'.at \in {"downloading", "resuming", "done"}
           /\ pass'.at = "resuming" => pass.record.digest # None
           /\ pass'.record = pass.record /\ pass'.moved = pass.moved
           /\ pass'.touched = pass.touched
<1>1. pass # None /\ pass.at = "opening"
  BY DEF CheckOpening, At
<1>2. PICK stage \in {"downloading", "resuming", "done"} :
        GoTo(stage) /\ (stage = "resuming" => pass.record.digest # None)
  BY DEF CheckOpening
<1>3. stage \in Stage
  BY DEF Stage
<1> QED BY <1>1, <1>2, <1>3, GoToFacts

\* What a read brings is the file in hand beyond the cursor; all of it, unless
\* a lost connection is taken for its end.
LEMMA AddedFacts ==
    ASSUME TypeInv, pass # None, pass.at \in Paired,
           NEW from \in Nat, NEW data \in Added(from)
    PROVE  /\ data \in Frame /\ data # None /\ data.of = pass.record.file
           /\ data.version = file[pass.record.file].version
           /\ data.from = from /\ data.to \in Nat /\ from <= data.to
           /\ data.to <= file[pass.record.file].lines
           /\ Guarded => data.to = file[pass.record.file].lines
<1>1. /\ pass.record.file \in Files
      /\ file[pass.record.file].version \in Nat /\ file[pass.record.file].lines \in Nat
  BY InPair DEF File
<1>2. PICK n \in from .. file[pass.record.file].lines :
        /\ data = [of |-> pass.record.file, version |-> file[pass.record.file].version,
                   from |-> from, to |-> n]
        /\ n = file[pass.record.file].lines \/ "cut" \in Faults
  BY DEF Added, Source
<1>3. data \in Frame
  BY <1>1, <1>2 DEF Frame
<1>4. data # None
  BY <1>3, NoneAssumption
<1> QED BY <1>1, <1>2, <1>3, <1>4 DEF Guarded

LEMMA ResumeFacts ==
    ASSUME TypeInv, Resume
    PROVE  /\ SameTurn /\ pass.at = "resuming"
           /\ pass'.record = pass.record /\ pass'.moved = pass.moved
           /\ pass'.touched = pass.touched
           /\ \/ pass'.at = "downloading"
              \/ pass'.at = "appending" /\ pass'.data \in Added(pass.record.synced)
<1>1. pass # None /\ pass.at = "resuming"
  BY DEF Resume, At
<1>2. pass \in Pass /\ pass.record.synced \in Nat
  BY <1>1, InHand DEF TypeInv
<1>3. CASE file[Source].there /\ pass.record.synced <= file[Source].lines
  <2>1. PICK data \in Added(pass.record.synced) :
           pass' = [pass EXCEPT !.at = "appending", !.data = data]
    BY <1>3 DEF Resume
  <2>2. data \in Frame
    BY <1>1, <1>2, <2>1, AddedFacts DEF Paired
  <2>3. pass' \in Pass
    BY <1>2, <2>1, <2>2 DEF Pass, Stage
  <2>4. pass' # None
    BY <2>3, NoneAssumption
  <2> QED BY <1>1, <1>2, <2>1, <2>3, <2>4 DEF Pass, SameTurn
<1>4. CASE ~(file[Source].there /\ pass.record.synced <= file[Source].lines)
  <2>1. GoTo("downloading") /\ "downloading" \in Stage
    BY <1>4 DEF Resume, Stage
  <2> QED BY <1>1, <2>1, GoToFacts
<1> QED BY <1>3, <1>4

LEMMA DownloadFacts ==
    ASSUME TypeInv, Download
    PROVE  /\ SameTurn /\ pass.at = "downloading"
           /\ pass'.record = pass.record /\ pass'.moved = pass.moved
           /\ pass'.touched = pass.touched
           /\ \/ pass'.at = "done"
              \/ pass'.at = "replacing" /\ pass'.data \in Added(0)
<1>1. pass # None /\ pass.at = "downloading"
  BY DEF Download, At
<1>2. pass \in Pass
  BY <1>1, InHand DEF TypeInv
<1>3. CASE file[Source].there
  <2>1. PICK data \in Added(0) :
           pass' = [pass EXCEPT !.at = "replacing", !.data = data]
    BY <1>3 DEF Download
  <2>2. data \in Frame
    BY <1>1, <2>1, AddedFacts DEF Paired
  <2>3. pass' \in Pass
    BY <1>2, <2>1, <2>2 DEF Pass, Stage
  <2>4. pass' # None
    BY <2>3, NoneAssumption
  <2> QED BY <1>1, <1>2, <2>1, <2>3, <2>4 DEF Pass, SameTurn
<1>4. CASE ~file[Source].there
  <2>1. GoTo("done") /\ "done" \in Stage
    BY <1>4 DEF Download, Stage
  <2> QED BY <1>1, <2>1, GoToFacts
<1> QED BY <1>3, <1>4

LEMMA ReadFailsFacts ==
    ASSUME TypeInv, ReadFails
    PROVE  /\ SameTurn /\ pass.at # "done"
           /\ pass'.at \in {"downloading", "done"}
           /\ pass'.at = "downloading" => pass.at = "resuming"
           /\ pass'.record = pass.record /\ pass'.moved = pass.moved
           /\ pass'.touched = pass.touched
<1>1. pass # None /\ pass.at \in {"scanning", "opening", "resuming", "downloading"}
  BY DEF ReadFails, At
<1>2. PICK stage \in {"downloading", "done"} :
        GoTo(stage) /\ (stage = "downloading" => pass.at = "resuming")
  BY DEF ReadFails, At
<1>3. stage \in Stage
  BY DEF Stage
<1> QED BY <1>1, <1>2, <1>3, GoToFacts

LEMMA AppendTranscriptFacts ==
    ASSUME TypeInv, AppendTranscript
    PROVE  /\ SameTurn /\ pass.at = "appending" /\ pass'.at = "appending messages"
           /\ pass'.record = pass.record /\ pass'.moved = pass.moved
           /\ pass'.data = pass.data /\ pass'.touched = pass.touched \union {pass.session}
           /\ transcript' = [transcript EXCEPT ![pass.session] = WithFrame(@, pass.data)]
<1>1. pass # None /\ pass.at = "appending"
  BY DEF AppendTranscript, At
<1>2. pass \in Pass /\ pass.session \in Sessions /\ pass.touched \subseteq Sessions
  BY <1>1, InHand, InTurn DEF TypeInv
<1>3. pass' = [pass EXCEPT !.at = "appending messages",
                           !.touched = @ \union {pass.session}]
  BY DEF AppendTranscript
<1>4. pass' \in Pass
  BY <1>2, <1>3 DEF Pass, Stage
<1>5. pass' # None
  BY <1>4, NoneAssumption
<1> QED BY <1>1, <1>2, <1>3, <1>4, <1>5 DEF Pass, SameTurn, AppendTranscript

LEMMA ReplaceTranscriptFacts ==
    ASSUME TypeInv, ReplaceTranscript
    PROVE  /\ SameTurn /\ pass.at = "replacing" /\ pass'.at = "replacing messages"
           /\ pass'.record = pass.record /\ pass'.moved = pass.moved
           /\ pass'.data = pass.data /\ pass'.touched = pass.touched \union {pass.session}
           /\ transcript' = [transcript EXCEPT ![pass.session] = <<pass.data>>]
<1>1. pass # None /\ pass.at = "replacing"
  BY DEF ReplaceTranscript, At
<1>2. pass \in Pass /\ pass.session \in Sessions /\ pass.touched \subseteq Sessions
  BY <1>1, InHand, InTurn DEF TypeInv
<1>3. pass' = [pass EXCEPT !.at = "replacing messages",
                           !.touched = @ \union {pass.session}]
  BY DEF ReplaceTranscript
<1>4. pass' \in Pass
  BY <1>2, <1>3 DEF Pass, Stage
<1>5. pass' # None
  BY <1>4, NoneAssumption
<1> QED BY <1>1, <1>2, <1>3, <1>4, <1>5 DEF Pass, SameTurn, ReplaceTranscript

LEMMA AppendMessagesFacts ==
    ASSUME TypeInv, AppendMessages
    PROVE  /\ SameTurn /\ pass.at = "appending messages" /\ pass'.at = "done"
           /\ pass'.record = [pass.record EXCEPT !.synced = pass.data.to,
                                                 !.mark = pass.mark]
           /\ pass'.moved = pass.moved /\ pass'.touched = pass.touched
           /\ messages' = [messages EXCEPT ![pass.session] = WithFrame(@, pass.data)]
<1>1. pass # None /\ pass.at = "appending messages"
  BY DEF AppendMessages, At
<1>2. /\ pass \in Pass /\ pass.record \in Record /\ pass.mark \in File \union {None}
      /\ pass.data.to \in Nat
  BY <1>1, InHand, InCopy DEF TypeInv, Growing
<1> DEFINE record == [pass.record EXCEPT !.synced = pass.data.to, !.mark = pass.mark]
<1>3. record \in Record
  BY <1>2 DEF Record
<1>4. pass' = [pass EXCEPT !.at = "done", !.record = record]
  BY <1>2 DEF AppendMessages, Pass, Record
<1> HIDE DEF record
<1>5. pass' \in Pass
  BY <1>2, <1>3, <1>4 DEF Pass, Stage
<1>6. pass' # None
  BY <1>5, NoneAssumption
<1>7. /\ pass'.record = record /\ SameTurn /\ pass'.at = "done" /\ pass'.moved = pass.moved
      /\ pass'.touched = pass.touched
  BY <1>1, <1>2, <1>4, <1>5, <1>6 DEF Pass, SameTurn
<1> QED BY <1>1, <1>7 DEF AppendMessages, record

LEMMA HeadDigestType ==
    ASSUME NEW f \in Files, NEW version \in Nat, NEW lines
    PROVE  HeadDigest(f, version, lines) \in Digest \union {None}
BY DEF HeadDigest, Digest

LEMMA ReplaceMessagesFacts ==
    ASSUME TypeInv, ReplaceMessages
    PROVE  /\ SameTurn /\ pass.at = "replacing messages" /\ pass'.at = "done"
           /\ pass'.record =
                 [pass.record EXCEPT !.synced = pass.data.to,
                     !.digest = HeadDigest(pass.record.file, pass.data.version, pass.data.to),
                     !.mark = pass.mark]
           /\ pass'.moved = pass.moved /\ pass'.touched = pass.touched
           /\ messages' = [messages EXCEPT ![pass.session] = <<pass.data>>]
<1>1. pass # None /\ pass.at = "replacing messages"
  BY DEF ReplaceMessages, At
<1>2. /\ pass \in Pass /\ pass.record \in Record /\ pass.mark \in File \union {None}
      /\ pass.data.to \in Nat /\ pass.data.version \in Nat /\ pass.record.file \in Files
  BY <1>1, InHand, InCopy, InPair DEF TypeInv, Whole, Paired, Frame
<1> DEFINE digest == HeadDigest(pass.record.file, pass.data.version, pass.data.to)
<1>3. digest \in Digest \union {None}
  BY <1>2, HeadDigestType
<1> HIDE DEF digest
<1> DEFINE record == [pass.record EXCEPT !.synced = pass.data.to, !.digest = digest,
                                         !.mark = pass.mark]
<1>4. record \in Record
  BY <1>2, <1>3 DEF Record
<1>5. pass' = [pass EXCEPT !.at = "done", !.record = record]
  BY <1>2 DEF ReplaceMessages, Source, Pass, Record, digest
<1> HIDE DEF record
<1>6. pass' \in Pass
  BY <1>2, <1>4, <1>5 DEF Pass, Stage
<1>7. pass' # None
  BY <1>6, NoneAssumption
<1>8. /\ pass'.record = record /\ SameTurn /\ pass'.at = "done" /\ pass'.moved = pass.moved
      /\ pass'.touched = pass.touched
  BY <1>1, <1>2, <1>5, <1>6, <1>7 DEF Pass, SameTurn
<1> QED BY <1>1, <1>8 DEF ReplaceMessages, record, digest

LEMMA WriteFailsFacts ==
    ASSUME TypeInv, WriteFails
    PROVE  /\ SameTurn /\ pass.at # "done" /\ pass'.at = "done"
           /\ pass'.record = pass.record /\ pass'.moved = pass.moved
           /\ pass'.touched = pass.touched
           /\ spoilt' = spoilt \union {pass.session} /\ spoilt' \subseteq Sessions
<1>1. pass # None /\ pass.at # "done" /\ GoTo("done") /\ "done" \in Stage
  BY DEF WriteFails, At, Stage
<1>2. pass.session \in Sessions
  BY <1>1, InTurn
<1>3. spoilt' \subseteq Sessions
  BY <1>2 DEF WriteFails, TypeInv, TypeOK
<1>4. spoilt' = spoilt \union {pass.session}
  BY DEF WriteFails
<1> QED BY <1>1, <1>3, <1>4, GoToFacts

-----------------------------------------------------------------------------
(* Types, and what is in hand, are kept by every step, whatever the faults *)

LEMMA TypeStep == TypeInv /\ [Next]_vars => TypeInv'
<1> SUFFICES ASSUME TypeInv, [Next]_vars PROVE TypeInv'
  OBVIOUS
<1> USE DEF store, machine
<1>t. TypeOK /\ HoldingInv
  BY DEF TypeInv
<1>1. CASE Begin
  <2>1. pass' \in Pass /\ pass'.at = "done"
    BY <1>1, BeginFacts
  <2>2. TypeOK'
    BY <1>1, <1>t, <2>1 DEF Begin, TypeOK
  <2>3. HoldingInv'
    BY <2>1 DEF HoldingInv, Paired, Growing, Whole
  <2> QED BY <2>2, <2>3 DEF TypeInv
<1>2. ASSUME NEW s \in Sessions, TakeUp(s) PROVE TypeInv'
  <2>1. /\ pass' \in Pass /\ pass'.session = s
        /\ pass'.at \in {"counting", "scanning", "done"}
    BY <1>2, TakeUpFacts
  <2>2. TypeOK'
    BY <1>2, <1>t, <2>1 DEF TakeUp, TypeOK
  <2>3. HoldingInv'
    BY <2>1, NoneAssumption DEF HoldingInv, Paired, Growing, Whole
  <2> QED BY <2>2, <2>3 DEF TypeInv
<1>3. ASSUME SameTurn, pass.at # "done",
             pass'.at \in {"counting", "paging", "scanning", "done"}
      PROVE  HoldingInv'
  BY <1>3, InTurn, NoneAssumption DEF SameTurn, HoldingInv, Paired, Growing, Whole
<1>4. CASE Count
  <2>1. TypeOK'
    BY <1>4, <1>t, CountFacts DEF Count, SameTurn, TypeOK
  <2>2. HoldingInv'
    BY <1>3, <1>4, CountFacts
  <2> QED BY <2>1, <2>2 DEF TypeInv
<1>5. CASE Page
  <2>1. pass.session \in Sessions
    BY <1>5, PageFacts, InTurn DEF SameTurn
  <2>2. slid' \subseteq Sessions
    BY <1>5, <1>t, <2>1 DEF Page, TypeOK
  <2>3. TypeOK'
    BY <1>5, <1>t, <2>2, PageFacts DEF Page, SameTurn, TypeOK
  <2>4. HoldingInv'
    BY <1>3, <1>5, PageFacts
  <2> QED BY <2>3, <2>4 DEF TypeInv
<1>6. CASE EndCapture
  <2>1. TypeOK'
    BY <1>6, <1>t, EndCaptureFacts DEF EndCapture, SameTurn, TypeOK
  <2>2. HoldingInv'
    BY <1>3, <1>6, EndCaptureFacts
  <2> QED BY <2>1, <2>2 DEF TypeInv
<1>7. CASE CaptureFails
  <2>1. troubles' \in 0 .. MaxTroubles
    BY <1>7, <1>t, BoundsAssumption DEF CaptureFails, TypeOK
  <2>2. TypeOK'
    BY <1>7, <1>t, <2>1, CaptureFailsFacts DEF CaptureFails, SameTurn, TypeOK
  <2>3. HoldingInv'
    BY <1>3, <1>7, CaptureFailsFacts
  <2> QED BY <2>2, <2>3 DEF TypeInv
<1>8. CASE Scan
  <2>1. CASE ScansNone
    <3>1. pass # None /\ pass.at = "scanning" /\ GoTo("done") /\ "done" \in Stage
      BY <2>1 DEF ScansNone, At, Stage
    <3>2. SameTurn /\ pass'.at = "done"
      BY <3>1, GoToFacts
    <3>3. TypeOK'
      BY <1>8, <1>t, <2>1, <3>2 DEF Scan, ScansNone, SameTurn, TypeOK
    <3>4. HoldingInv'
      BY <1>3, <3>1, <3>2
    <3> QED BY <3>3, <3>4 DEF TypeInv
  <2>2. ASSUME NEW f \in Files, ScansFile(f) PROVE TypeInv'
    <3>1. SameTurn /\ pass # None /\ pass.at = "scanning"
      BY <2>2 DEF ScansFile, SameTurn
    <3>2. pass.session \in Sessions /\ pass.record \in Record
      BY <3>1, InTurn, InHand DEF TypeInv
    <3>3. /\ transcript' \in [Sessions -> Seq(Frame)]
          /\ messages' \in [Sessions -> Seq(Frame)]
      <4>1. <<>> \in Seq(Frame)
        OBVIOUS
      <4>2. transcript \in [Sessions -> Seq(Frame)] /\ messages \in [Sessions -> Seq(Frame)]
        BY <1>t DEF TypeOK
      <4>3. CASE pass.record.file \notin {None, f}
        BY <2>2, <3>2, <4>1, <4>2, <4>3 DEF ScansFile
      <4>4. CASE pass.record.file \in {None, f}
        BY <2>2, <4>2, <4>4 DEF ScansFile
      <4> QED BY <4>3, <4>4
    <3>4. TypeOK'
      BY <1>8, <1>t, <3>1, <3>3 DEF Scan, SameTurn, TypeOK
    <3>5. pass'.record.file = f /\ f # None /\ pass'.at \in {"done", "opening"}
      BY <2>2, <3>2, PairedWithFacts, NoneAssumption DEF ScansFile
    <3>6. HoldingInv'
      BY <3>1, <3>2, <3>5, NoneAssumption DEF HoldingInv, SameTurn, Growing, Whole
    <3> QED BY <3>4, <3>6 DEF TypeInv
  <2> QED BY <1>8, <2>1, <2>2, ScanFacts
\* Steps between a pairing and its copies, which keep the file in hand.
<1>9. ASSUME SameTurn, pass.at \in Paired, pass'.record.file = pass.record.file,
             pass'.at \in Growing \union Whole =>
                pass'.data # None /\ pass'.data.to \in Nat
      PROVE  HoldingInv'
  <2>1. pass.session # None /\ pass.record.file # None
    BY <1>9, <1>t DEF HoldingInv, SameTurn, Paired
  <2> QED BY <1>9, <2>1 DEF HoldingInv, SameTurn
<1>10. CASE CheckOpening
  <2>1. TypeOK'
    BY <1>10, <1>t, CheckOpeningFacts DEF CheckOpening, SameTurn, TypeOK
  <2>2. HoldingInv'
    BY <1>9, <1>10, CheckOpeningFacts DEF Paired, Growing, Whole
  <2> QED BY <2>1, <2>2 DEF TypeInv
<1>11. CASE Resume
  <2>1. pass # None /\ pass.at \in Paired /\ pass.record.synced \in Nat
    BY <1>11, ResumeFacts, InHand DEF SameTurn, Paired, TypeInv
  <2>2. TypeOK'
    BY <1>11, <1>t, ResumeFacts DEF Resume, SameTurn, TypeOK
  <2>3. pass'.at \in Growing \union Whole => pass'.data # None /\ pass'.data.to \in Nat
    BY <1>11, <2>1, ResumeFacts, AddedFacts DEF Growing, Whole
  <2>4. HoldingInv'
    BY <1>9, <1>11, <2>1, <2>3, ResumeFacts
  <2> QED BY <2>2, <2>4 DEF TypeInv
<1>12. CASE Download
  <2>1. pass # None /\ pass.at \in Paired
    BY <1>12, DownloadFacts DEF SameTurn, Paired
  <2>2. TypeOK'
    BY <1>12, <1>t, DownloadFacts DEF Download, SameTurn, TypeOK
  <2>3. pass'.at \in Growing \union Whole => pass'.data # None /\ pass'.data.to \in Nat
    BY <1>12, <2>1, DownloadFacts, AddedFacts DEF Growing, Whole
  <2>4. HoldingInv'
    BY <1>9, <1>12, <2>1, <2>3, DownloadFacts
  <2> QED BY <2>2, <2>4 DEF TypeInv
<1>13. CASE ReadFails
  <2>1. troubles' \in 0 .. MaxTroubles
    BY <1>13, <1>t, BoundsAssumption DEF ReadFails, TypeOK
  <2>2. TypeOK'
    BY <1>13, <1>t, <2>1, ReadFailsFacts DEF ReadFails, SameTurn, TypeOK
  <2>3. CASE pass'.at = "done"
    BY <1>3, <1>13, <2>2, <2>3, ReadFailsFacts DEF TypeInv
  <2>4. CASE pass'.at = "downloading"
    <3>1. HoldingInv'
      BY <1>9, <1>13, <2>4, ReadFailsFacts DEF Paired, Growing, Whole
    <3> QED BY <2>2, <3>1 DEF TypeInv
  <2> QED BY <1>13, <2>3, <2>4, ReadFailsFacts
<1>14. CASE AppendTranscript
  <2>1. pass # None /\ pass.at = "appending"
    BY <1>14, AppendTranscriptFacts DEF SameTurn
  <2>2. pass.session \in Sessions /\ pass.data \in Frame /\ pass.data.to \in Nat /\ pass.data # None
    BY <1>t, <2>1, InTurn, InCopy DEF HoldingInv, Growing
  <2>3. transcript' \in [Sessions -> Seq(Frame)]
    <3>1. transcript \in [Sessions -> Seq(Frame)]
      BY <1>t DEF TypeOK
    <3>2. WithFrame(transcript[pass.session], pass.data) \in Seq(Frame)
      BY <2>2, <3>1, BlobType
    <3> QED BY <1>14, <2>2, <3>1, <3>2, AppendTranscriptFacts
  <2>4. TypeOK'
    BY <1>14, <1>t, <2>3, AppendTranscriptFacts DEF AppendTranscript, SameTurn, TypeOK
  <2>5. HoldingInv'
    BY <1>9, <1>14, <2>2, AppendTranscriptFacts DEF Paired
  <2> QED BY <2>4, <2>5 DEF TypeInv
<1>15. CASE ReplaceTranscript
  <2>1. pass # None /\ pass.at = "replacing"
    BY <1>15, ReplaceTranscriptFacts DEF SameTurn
  <2>2. pass.session \in Sessions /\ pass.data \in Frame /\ pass.data.to \in Nat /\ pass.data # None
    BY <1>t, <2>1, InTurn, InCopy DEF HoldingInv, Whole
  <2>3. transcript' \in [Sessions -> Seq(Frame)]
    BY <1>15, <1>t, <2>2, ReplaceTranscriptFacts, BlobType DEF TypeOK
  <2>4. TypeOK'
    BY <1>15, <1>t, <2>3, ReplaceTranscriptFacts DEF ReplaceTranscript, SameTurn, TypeOK
  <2>5. HoldingInv'
    BY <1>9, <1>15, <2>2, ReplaceTranscriptFacts DEF Paired
  <2> QED BY <2>4, <2>5 DEF TypeInv
<1>16. CASE AppendMessages
  <2>1. pass # None /\ pass.at = "appending messages"
    BY <1>16, AppendMessagesFacts DEF SameTurn
  <2>2. pass.session \in Sessions /\ pass.data \in Frame
    BY <2>1, InTurn, InCopy DEF Growing
  <2>3. messages' \in [Sessions -> Seq(Frame)]
    <3>1. messages \in [Sessions -> Seq(Frame)]
      BY <1>t DEF TypeOK
    <3>2. WithFrame(messages[pass.session], pass.data) \in Seq(Frame)
      BY <2>2, <3>1, BlobType
    <3> QED BY <1>16, <2>2, <3>1, <3>2, AppendMessagesFacts
  <2>4. TypeOK'
    BY <1>16, <1>t, <2>3, AppendMessagesFacts DEF AppendMessages, SameTurn, TypeOK
  <2>5. HoldingInv'
    BY <1>3, <1>16, AppendMessagesFacts
  <2> QED BY <2>4, <2>5 DEF TypeInv
<1>17. CASE ReplaceMessages
  <2>1. pass # None /\ pass.at = "replacing messages"
    BY <1>17, ReplaceMessagesFacts DEF SameTurn
  <2>2. pass.session \in Sessions /\ pass.data \in Frame
    BY <2>1, InTurn, InCopy DEF Whole
  <2>3. messages' \in [Sessions -> Seq(Frame)]
    BY <1>17, <1>t, <2>2, ReplaceMessagesFacts, BlobType DEF TypeOK
  <2>4. spoilt' \subseteq Sessions
    BY <1>17, <1>t DEF ReplaceMessages, TypeOK
  <2>5. TypeOK'
    BY <1>17, <1>t, <2>3, <2>4, ReplaceMessagesFacts DEF ReplaceMessages, SameTurn, TypeOK
  <2>6. HoldingInv'
    BY <1>3, <1>17, ReplaceMessagesFacts
  <2> QED BY <2>5, <2>6 DEF TypeInv
<1>18. CASE WriteFails
  <2>1. troubles' \in 0 .. MaxTroubles
    <3>1. troubles < MaxTroubles /\ troubles' = troubles + 1
      BY <1>18 DEF WriteFails
    <3>2. troubles \in 0 .. MaxTroubles
      BY <1>t DEF TypeOK
    <3> QED BY <3>1, <3>2, BoundsAssumption
  <2>2. TypeOK'
    BY <1>18, <1>t, <2>1, WriteFailsFacts DEF WriteFails, SameTurn, TypeOK
  <2>3. HoldingInv'
    BY <1>3, <1>18, WriteFailsFacts
  <2> QED BY <2>2, <2>3 DEF TypeInv
<1>19. CASE Save
  <2>1. Upserted \in [Sessions -> Record]
    BY <1>19, <1>t, UpsertedType DEF Save, At
  <2> QED BY <1>19, <1>t, <2>1 DEF Save, TypeInv, TypeOK, HoldingInv
<1>20. CASE Quit
  <2>1. pass.touched \subseteq Sessions
    BY <1>20, <1>t, InHand DEF Quit
  <2>2. troubles' \in 0 .. MaxTroubles
    <3>1. troubles < MaxTroubles /\ troubles' = troubles + 1
      BY <1>20 DEF Quit
    <3>2. troubles \in 0 .. MaxTroubles
      BY <1>t DEF TypeOK
    <3> QED BY <3>1, <3>2, BoundsAssumption
  <2> QED BY <1>20, <1>t, <2>1, <2>2 DEF Quit, TypeInv, TypeOK, HoldingInv
<1>21. ASSUME NEW f \in Files, BeginLine(f) \/ EndLine(f) \/ Rewrite(f) \/ Vanish(f)
       PROVE  TypeInv'
  <2>1. file' \in [Files -> File]
    <3>1. file \in [Files -> File]
      BY <1>t DEF TypeOK
    <3>2. CASE BeginLine(f)
      BY <3>1, <3>2 DEF BeginLine, File
    <3>3. CASE EndLine(f)
      BY <3>1, <3>3 DEF EndLine, File
    <3>4. CASE Rewrite(f)
      <4>1. file[f] \in File /\ file[f].version + 1 \in Nat
        BY <3>1 DEF File
      <4>2. /\ \A g \in Files \ {f} : file'[g] = file[g]
            /\ file'[f] = [there |-> file[f].there, version |-> file[f].version + 1,
                           lines |-> 0, half |-> FALSE]
            /\ file' = [g \in Files |-> file'[g]]
        BY <3>1, <3>4, <4>1 DEF Rewrite, File
      <4>3. file'[f] \in File
        BY <4>1, <4>2 DEF File
      <4> QED BY <3>1, <4>2, <4>3
    <3>5. CASE Vanish(f)
      BY <3>1, <3>5 DEF Vanish, File
    <3> QED BY <1>21, <3>2, <3>3, <3>4, <3>5
  <2>2. moves' \in 0 .. MaxMoves
    BY <1>21, <1>t, BoundsAssumption DEF BeginLine, EndLine, Rewrite, Vanish, TypeOK
  <2>3. UNCHANGED <<present, printed, thread, index, capture, transcript, messages, pass,
                    troubles, slid, spoilt>>
    BY <1>21 DEF BeginLine, EndLine, Rewrite, Vanish
  <2> QED BY <1>t, <2>1, <2>2, <2>3 DEF TypeInv, TypeOK, HoldingInv
<1>22. ASSUME NEW s \in Sessions, PrintLine(s) PROVE TypeInv'
  <2>1. printed' \in [Sessions -> Nat]
    BY <1>22, <1>t DEF PrintLine, TypeOK
  <2> QED BY <1>22, <1>t, <2>1 DEF PrintLine, TypeInv, TypeOK, HoldingInv
<1>23. ASSUME NEW s \in Sessions, NEW f \in Files \union {None}, Match(s, f) PROVE TypeInv'
  <2>1. thread' \in [Sessions -> Files \union {None}] /\ moves' \in 0 .. MaxMoves
    BY <1>23, <1>t, BoundsAssumption DEF Match, TypeOK
  <2> QED BY <1>23, <1>t, <2>1 DEF Match, TypeInv, TypeOK, HoldingInv
<1>24. CASE UNCHANGED vars
  BY <1>24, <1>t DEF vars, TypeInv, TypeOK, HoldingInv
<1> QED
  BY <1>1, <1>2, <1>4, <1>5, <1>6, <1>7, <1>8, <1>10, <1>11, <1>12, <1>13, <1>14, <1>15,
     <1>16, <1>17, <1>18, <1>19, <1>20, <1>21, <1>22, <1>23, <1>24
  DEF Next, Step, Trouble, Change

\* Every variable keeps its type, whatever fails.
THEOREM TypeCorrect == Spec => []TypeOK
<1>1. Init => TypeInv
  BY InitType
<1>2. TypeInv /\ [Next]_vars => TypeInv'
  BY TypeStep
<1>3. TypeInv => TypeOK
  BY DEF TypeInv
<1> QED BY <1>1, <1>2, <1>3, PTL DEF Spec

-----------------------------------------------------------------------------
(* What records claim *)

\* Its claims are all that matters of a record.
LEMMA GoodOfSameClaims ==
    ASSUME NEW r, NEW q, SameClaims(r, q), NEW t, NEW m, NEW files, Good(q, t, m, files)
    PROVE  Good(r, t, m, files)
BY DEF SameClaims, Good

\* A record that claims nothing is good whatever there is.
LEMMA GoodOfNothing ==
    ASSUME NEW r, r.synced = 0, r.digest = None, NEW t, NEW m, NEW files
    PROVE  Good(r, t, m, files)
BY DEF Good

Records == DiskInv /\ PassInv /\ LinkInv

\* Steps in a turn that touch neither files nor copies nor claims.
LEMMA QuietStep ==
    ASSUME TypeInv, Records, SameTurn, pass.at # "done",
           SameClaims(pass'.record, pass.record), pass'.moved = pass.moved,
           UNCHANGED <<file, index, transcript, messages>>
    PROVE  Records'
<1>1. DiskInv'
  BY DEF Records, SameTurn, DiskInv
<1>2. PassInv'
  <2>1. ASSUME Good(pass.record, transcript[pass.session], messages[pass.session], file)
        PROVE  Good(pass'.record, transcript[pass.session], messages[pass.session], file)
    BY <2>1, GoodOfSameClaims
  <2> QED BY <2>1 DEF Records, SameTurn, PassInv
<1>3. LinkInv'
  BY DEF Records, SameTurn, SameClaims, LinkInv
<1> QED BY <1>1, <1>2, <1>3 DEF Records

LEMMA InitRecords == Init => Records /\ StageInv
<1> SUFFICES ASSUME Init PROVE Records /\ StageInv
  OBVIOUS
<1>1. \A s \in Sessions : index[s].synced = 0 /\ index[s].digest = None
  BY DEF Init, NoRecord
<1>2. DiskInv
  BY <1>1, GoodOfNothing DEF DiskInv
<1> QED BY <1>2 DEF Init, Records, PassInv, LinkInv, StageInv

\* What index.json will hold is good as the records of the pass are.
LEMMA UpsertedGood ==
    ASSUME TypeInv, PassInv, pass # None
    PROVE  \A s \in Sessions : Good(Upserted[s], transcript[s], messages[s], file)
<1>1. /\ pass.index \in [Sessions -> Record]
      /\ pass.session \in Sessions \union {None}
  BY InHand DEF TypeInv
<1>2. CASE pass.session = None
  BY <1>1, <1>2, NoneAssumption DEF Upserted, PassInv
<1>3. CASE pass.session # None
  BY <1>1, <1>3 DEF Upserted, PassInv
<1> QED BY <1>2, <1>3

LEMMA BeginRecords ==
    ASSUME TypeInv, Records, Begin PROVE Records' /\ StageInv'
<1>1. \A s \in Sessions : Good(index[s], transcript[s], messages[s], file)
  BY BeginFacts DEF Records, DiskInv
<1>2. UNCHANGED <<file, index, transcript, messages>> /\ present \subseteq Sessions
  BY DEF Begin, machine, store, TypeInv, TypeOK
<1>3. DiskInv' /\ PassInv' /\ LinkInv'
  BY <1>1, <1>2, BeginFacts, NoneAssumption DEF DiskInv, PassInv, LinkInv
<1>4. StageInv'
  BY BeginFacts DEF StageInv, Growing, Whole
<1> QED BY <1>3, <1>4 DEF Records

LEMMA TakeUpRecords ==
    ASSUME TypeInv, Records, NEW s \in Sessions, TakeUp(s) PROVE Records' /\ StageInv'
<1>1. /\ pass # None /\ s \in pass.left /\ s # pass.session /\ pass.index[s] = index[s]
      /\ pass.index \in [Sessions -> Record] /\ pass.left \subseteq Sessions
      /\ pass.session \in Sessions \union {None}
  BY TakeUpFacts, InHand DEF Records, PassInv, TypeInv
<1>2. UNCHANGED <<file, index, transcript, messages>>
  BY DEF TakeUp, machine, store
<1>3. \A q \in Sessions : Good(Upserted[q], transcript[q], messages[q], file)
  BY <1>1, UpsertedGood DEF Records
<1>4. Upserted[s] = index[s] /\ \A q \in pass.left \ {s} : Upserted[q] = index[q]
  BY <1>1 DEF Upserted, Records, PassInv
<1>5. DiskInv'
  BY <1>1, <1>2, TakeUpFacts DEF Records, DiskInv
<1>6. PassInv'
  <2>1. Good(index[s], transcript[s], messages[s], file)
    BY <1>3, <1>4
  <2>2. pass'.record = index[s]
    BY <1>1, TakeUpFacts
  <2> QED BY <1>2, <1>3, <1>4, <2>1, <2>2, TakeUpFacts DEF PassInv
<1>7. LinkInv'
  BY <1>1, <1>2, TakeUpFacts DEF LinkInv
<1>8. StageInv'
  BY TakeUpFacts DEF StageInv, Growing, Whole
<1> QED BY <1>5, <1>6, <1>7, <1>8 DEF Records

LEMMA SaveRecords ==
    ASSUME TypeInv, Records, Save PROVE Records' /\ StageInv'
<1>1. pass # None /\ index' = Upserted /\ pass' = None
      /\ UNCHANGED <<file, transcript, messages>>
  BY DEF Save, At, machine
<1>2. \A q \in Sessions : Good(Upserted[q], transcript[q], messages[q], file)
  BY <1>1, UpsertedGood DEF Records
<1> QED BY <1>1, <1>2 DEF Records, DiskInv, PassInv, LinkInv, StageInv

LEMMA QuitRecords ==
    ASSUME Guarded, TypeInv, Records, Quit PROVE Records' /\ StageInv'
<1>1. /\ ~pass.moved /\ pass' = None
      /\ UNCHANGED <<file, index, transcript, messages>>
  BY DEF Guarded, Quit, machine, store
<1> QED BY <1>1 DEF Records, DiskInv, PassInv, LinkInv, StageInv

\* At these stages nothing is asked of what was read.
LEMMA NothingRead ==
    ASSUME pass' # None => pass'.at \in {"counting", "paging", "scanning", "opening",
                                         "downloading", "done"}
    PROVE  StageInv'
BY DEF StageInv, Growing, Whole

LEMMA CaptureRecords ==
    ASSUME TypeInv, Records, Count \/ Page \/ EndCapture \/ CaptureFails
    PROVE  Records' /\ StageInv'
<1>1. UNCHANGED <<file, index, transcript, messages>>
  BY DEF Count, Page, EndCapture, CaptureFails, machine, store
<1>2. /\ SameTurn /\ pass.at # "done" /\ pass'.moved = pass.moved
      /\ SameClaims(pass'.record, pass.record)
      /\ pass'.at \in {"paging", "scanning", "done"}
  BY CountFacts, PageFacts, EndCaptureFacts, CaptureFailsFacts DEF SameClaims
<1>3. Records'
  BY <1>1, <1>2, QuietStep
<1>4. StageInv'
  BY <1>2, NothingRead
<1> QED BY <1>3, <1>4

LEMMA FailureRecords ==
    ASSUME TypeInv, Records, ReadFails \/ WriteFails
    PROVE  Records' /\ StageInv'
<1>1. UNCHANGED <<file, index, transcript, messages>>
  BY DEF ReadFails, WriteFails, machine, store
<1>2. /\ SameTurn /\ pass.at # "done" /\ pass'.moved = pass.moved
      /\ SameClaims(pass'.record, pass.record)
      /\ pass'.at \in {"downloading", "done"}
  BY ReadFailsFacts, WriteFailsFacts DEF SameClaims
<1>3. Records'
  BY <1>1, <1>2, QuietStep
<1>4. StageInv'
  BY <1>2, NothingRead
<1> QED BY <1>3, <1>4

LEMMA ScanRecords ==
    ASSUME TypeInv, Records, Scan PROVE Records' /\ StageInv'
<1>1. UNCHANGED <<file, index>>
  BY DEF Scan, machine
<1>2. CASE ScansNone
  <2>1. pass # None /\ pass.at = "scanning" /\ GoTo("done") /\ "done" \in Stage
        /\ UNCHANGED <<transcript, messages>>
    BY <1>2 DEF ScansNone, At, Stage
  <2>2. SameTurn /\ pass'.at = "done" /\ pass'.moved = pass.moved
        /\ SameClaims(pass'.record, pass.record)
    BY <2>1, GoToFacts DEF SameClaims
  <2>3. Records'
    BY <1>1, <2>1, <2>2, QuietStep
  <2> QED BY <2>2, <2>3, NothingRead
<1>3. ASSUME NEW f \in Files, ScansFile(f) PROVE Records' /\ StageInv'
  <2>1. SameTurn /\ pass # None /\ pass.at = "scanning" /\ pass'.at \in {"done", "opening"}
    BY <1>3 DEF ScansFile, SameTurn
  <2>2. /\ pass.session \in Sessions /\ pass.record \in Record
        /\ pass.session \notin pass.left
        /\ Good(pass.record, transcript[pass.session], messages[pass.session], file)
    BY <2>1, InTurn, InHand, NoneAssumption DEF TypeInv, Records, PassInv
  <2>3. StageInv'
    BY <2>1, NothingRead
  <2>4. CASE pass.record.file \notin {None, f}
    <3>0. pass'.moved
      BY <1>3, <2>4, Zenon DEF ScansFile
    <3>1. /\ pass'.record.synced = 0 /\ pass'.record.digest = None
          /\ transcript' = [transcript EXCEPT ![pass.session] = <<>>]
          /\ messages' = [messages EXCEPT ![pass.session] = <<>>]
      BY <1>3, <2>2, <2>4, PairedWithFacts DEF ScansFile
    <3>2. Good(pass'.record, transcript'[pass.session], messages'[pass.session], file)
      BY <3>1, GoodOfNothing
    <3>3. \A s \in Sessions : s # pass.session =>
             transcript'[s] = transcript[s] /\ messages'[s] = messages[s]
      BY <3>1 DEF TypeInv, TypeOK
    <3>4. PassInv'
      BY <1>1, <2>1, <3>2, <3>3 DEF Records, SameTurn, PassInv
    <3>5. DiskInv' /\ LinkInv'
      BY <2>1, <3>0 DEF SameTurn, DiskInv, LinkInv
    <3> QED BY <2>3, <3>4, <3>5 DEF Records
  <2>5. CASE pass.record.file \in {None, f}
    <3>1. /\ pass'.moved = pass.moved /\ pass'.record.file = f
          /\ pass'.record.synced = pass.record.synced
          /\ pass'.record.digest = pass.record.digest
          /\ UNCHANGED <<transcript, messages>>
      BY <1>3, <2>1, <2>2, <2>5, PairedWithFacts, InHand DEF ScansFile, TypeInv
    <3>2. Good(pass'.record, transcript[pass.session], messages[pass.session], file)
      <4>1. CASE pass.record.file = None
        BY <2>2, <3>1, <4>1, GoodOfNothing DEF Good
      <4>2. CASE pass.record.file = f
        BY <2>2, <3>1, <4>2, GoodOfSameClaims DEF SameClaims
      <4> QED BY <2>5, <4>1, <4>2
    <3>3. PassInv'
      BY <1>1, <2>1, <3>1, <3>2 DEF Records, SameTurn, PassInv
    <3>4. DiskInv'
      BY <1>1, <2>1, <3>1 DEF Records, SameTurn, DiskInv
    <3>5. LinkInv'
      BY <1>1, <2>1, <2>5, <3>1 DEF Records, SameTurn, LinkInv
    <3> QED BY <2>3, <3>3, <3>4, <3>5 DEF Records
  <2> QED BY <2>4, <2>5
<1> QED BY <1>2, <1>3, ScanFacts

LEMMA ReadRecords ==
    ASSUME Guarded, TypeInv, Records, StageInv, CheckOpening \/ Resume \/ Download
    PROVE  Records' /\ StageInv'
<1>1. UNCHANGED <<file, index, transcript, messages>>
  BY DEF CheckOpening, Resume, Download, machine, store
<1>2. /\ SameTurn /\ pass.at \in {"opening", "resuming", "downloading"}
      /\ pass'.moved = pass.moved /\ pass'.record = pass.record
  BY CheckOpeningFacts, ResumeFacts, DownloadFacts
<1>3. Records'
  BY <1>1, <1>2, QuietStep DEF SameClaims
<1>4. /\ pass # None /\ pass.session \in Sessions /\ pass.record.synced \in Nat
      /\ Good(pass.record, transcript[pass.session], messages[pass.session], file)
  BY <1>2, InTurn, InHand, NoneAssumption DEF SameTurn, TypeInv, Records, PassInv
<1>5. /\ pass.record.file \in Files /\ file[pass.record.file].version \in Nat
      /\ file[pass.record.file].lines \in Nat
  BY <1>2, <1>4, InPair DEF Paired, File
<1>6. CASE CheckOpening
  BY <1>3, <1>6, CheckOpeningFacts DEF StageInv, Growing, Whole
<1>7. CASE Resume
  <2>1. pass.at = "resuming" /\ pass.record.digest # None
    BY <1>4, <1>7, ResumeFacts DEF StageInv
  <2>2. CASE pass'.at = "downloading"
    BY <1>3, <2>2, NothingRead
  <2>3. CASE pass'.at = "appending" /\ pass'.data \in Added(pass.record.synced)
    <3>1. /\ pass'.data # None /\ pass'.data.of = pass.record.file
          /\ pass'.data.version = file[pass.record.file].version
          /\ pass'.data.from = pass.record.synced /\ pass'.data.to \in Nat
          /\ pass'.data.from <= pass'.data.to
          /\ pass'.data.to <= file[pass.record.file].lines
      BY <1>4, <2>1, <2>3, AddedFacts DEF Paired
    <3>2. pass.record.digest.version <= file[pass.record.file].version
      BY <1>4, <2>1 DEF Good
    <3>3. Fits(pass'.data, pass.record, file)
      BY <1>4, <1>5, <3>1, <3>2 DEF Fits
    <3>4. StageInv'
      BY <1>1, <1>2, <2>1, <2>3, <3>1, <3>3 DEF StageInv, Growing, Whole
    <3> QED BY <1>3, <3>4
  <2> QED BY <1>7, <2>2, <2>3, ResumeFacts
<1>8. CASE Download
  <2>1. pass.at = "downloading"
    BY <1>8, DownloadFacts
  <2>2. CASE pass'.at = "done"
    BY <1>3, <2>2, NothingRead
  <2>3. CASE pass'.at = "replacing" /\ pass'.data \in Added(0)
    <3>1. /\ pass'.data # None /\ pass'.data.of = pass.record.file
          /\ pass'.data.version = file[pass.record.file].version
          /\ pass'.data.from = 0 /\ pass'.data.to \in Nat
          /\ pass'.data.to = file[pass.record.file].lines
      BY <1>4, <2>1, <2>3, AddedFacts DEF Paired
    <3>2. pass.record.digest # None =>
             /\ pass.record.digest.version <= file[pass.record.file].version
             /\ pass.record.digest.version = file[pass.record.file].version =>
                   pass.record.synced <= file[pass.record.file].lines
      BY <1>4 DEF Good
    <3>3. Fits(pass'.data, pass.record, file)
      BY <1>5, <3>1, <3>2 DEF Fits
    <3>4. StageInv'
      BY <1>1, <1>2, <2>3, <3>1, <3>3 DEF StageInv, Growing, Whole
    <3> QED BY <1>3, <3>4
  <2> QED BY <1>8, <2>2, <2>3, DownloadFacts
<1> QED BY <1>6, <1>7, <1>8

-----------------------------------------------------------------------------
(* The copies are written *)

\* What is at hand where a copy is about to be written.
LEMMA Writing ==
    ASSUME TypeInv, Records, StageInv, pass # None, pass.at \in Growing \union Whole
    PROVE  /\ pass.session \in Sessions /\ pass.session \notin pass.left
           /\ pass.record \in Record /\ index[pass.session] \in Record
           /\ pass.data \in Frame /\ pass.data.of = pass.record.file
           /\ pass.data.of \in Files
           /\ Fits(pass.data, pass.record, file)
           /\ Good(pass.record, transcript[pass.session], messages[pass.session], file)
           /\ transcript[pass.session] \in Seq(Frame)
           /\ messages[pass.session] \in Seq(Frame)
<1>1. pass.session \in Sessions /\ pass.record \in Record /\ pass.data \in Frame
  BY InTurn, InHand, InCopy DEF TypeInv, Growing, Whole
<1>2. pass.record.file \in Files
  BY InPair DEF Growing, Whole, Paired
<1>3. Fits(pass.data, pass.record, file)
  BY DEF StageInv
<1>4. pass.data.of = pass.record.file
  BY <1>3 DEF Fits
<1> QED BY <1>1, <1>2, <1>3, <1>4, NoneAssumption DEF TypeInv, TypeOK, Records, PassInv

\* While the pairing has not moved, the record on disk claims no more.
LEMMA OnDisk ==
    ASSUME TypeInv, Records, StageInv, pass # None, pass.at \in Growing \union Whole,
           ~pass.moved
    PROVE  /\ Good(index[pass.session], transcript[pass.session],
                   messages[pass.session], file)
           /\ index[pass.session].file \in {None, pass.data.of}
           /\ index[pass.session].digest # None =>
                 Fits(pass.data, index[pass.session], file)
<1>1. /\ Good(index[pass.session], transcript[pass.session], messages[pass.session], file)
      /\ index[pass.session].file \in {None, pass.data.of}
      /\ index[pass.session].synced = pass.record.synced
      /\ index[pass.session].digest = pass.record.digest
      /\ Fits(pass.data, pass.record, file) /\ pass.data.of = pass.record.file
  BY Writing, NoneAssumption DEF Records, DiskInv, LinkInv, Growing, Whole
<1>2. index[pass.session].digest # None => index[pass.session].file = pass.record.file
  BY <1>1 DEF Good
<1> QED BY <1>1, <1>2 DEF Fits

LEMMA AppendTranscriptRecords ==
    ASSUME TypeInv, Records, StageInv, AppendTranscript PROVE Records' /\ StageInv'
<1> DEFINE s == pass.session
           data == pass.data
           then == WithFrame(transcript[s], data)
<1>1. /\ SameTurn /\ pass # None /\ pass.at = "appending"
      /\ pass'.at = "appending messages" /\ pass'.record = pass.record
      /\ pass'.moved = pass.moved /\ pass'.data = data
      /\ UNCHANGED <<file, index, messages>>
  BY AppendTranscriptFacts DEF SameTurn, AppendTranscript, machine
<1>2. pass.at \in Growing \union Whole
  BY <1>1 DEF Growing
<1>3. /\ transcript'[s] = then
      /\ \A q \in Sessions : q # s => transcript'[q] = transcript[q]
  BY <1>1, <1>2, Writing, AppendTranscriptFacts DEF TypeInv, TypeOK
<1>4. Good(pass.record, then, messages[s], file)
  BY <1>1, <1>2, Writing, GoodAsTranscriptGrows
<1>5. ~pass.moved => Good(index[s], then, messages[s], file)
  BY <1>1, <1>2, Writing, OnDisk, GoodAsTranscriptGrows
<1>6. /\ pass.record.digest # None /\ Fits(data, pass.record, file)
      /\ data.from = pass.record.synced /\ data.from <= data.to
  BY <1>1 DEF StageInv, Growing
<1>7. Copied(then, data)
  <2>1. \A i \in DOMAIN transcript[s] : transcript[s][i].of = data.of
    BY <1>1, <1>2, <1>6, Writing DEF Good
  <2>2. \A i \in DOMAIN then : then[i].of = data.of
    BY <1>1, <1>2, <2>1, Writing, SameSource
  <2>3. ASSUME NEW n \in data.from + 1 .. data.to
        PROVE  Holds(then, data.of, data.version, n)
    <3>1. data \in Frame /\ transcript[s] \in Seq(Frame)
      BY <1>1, <1>2, Writing
    <3>2. n \in Int /\ data.from < n /\ n <= data.to
      BY <2>3, <3>1 DEF Frame
    <3> QED BY <3>1, <3>2, HoldsChunk
  <2> QED BY <2>2, <2>3 DEF Copied
<1> HIDE DEF then, data
<1>8. DiskInv'
  BY <1>1, <1>3, <1>5 DEF Records, SameTurn, DiskInv
<1>9. PassInv'
  BY <1>1, <1>3, <1>4 DEF Records, SameTurn, PassInv
<1>10. LinkInv'
  BY <1>1 DEF Records, SameTurn, LinkInv
<1>11. StageInv'
  BY <1>1, <1>3, <1>6, <1>7 DEF SameTurn, StageInv, Growing, Whole
<1> QED BY <1>8, <1>9, <1>10, <1>11 DEF Records

LEMMA ReplaceTranscriptRecords ==
    ASSUME TypeInv, Records, StageInv, ReplaceTranscript PROVE Records' /\ StageInv'
<1> DEFINE s == pass.session
           data == pass.data
           then == <<data>>
<1>1. /\ SameTurn /\ pass # None /\ pass.at = "replacing"
      /\ pass'.at = "replacing messages" /\ pass'.record = pass.record
      /\ pass'.moved = pass.moved /\ pass'.data = data
      /\ UNCHANGED <<file, index, messages>>
  BY ReplaceTranscriptFacts DEF SameTurn, ReplaceTranscript, machine
<1>2. pass.at \in Growing \union Whole
  BY <1>1 DEF Whole
<1>3. /\ transcript'[s] = then
      /\ \A q \in Sessions : q # s => transcript'[q] = transcript[q]
  BY <1>1, <1>2, Writing, ReplaceTranscriptFacts DEF TypeInv, TypeOK
<1>4. Fits(data, pass.record, file) /\ data.from = 0
  BY <1>1 DEF StageInv, Whole
<1>5. file \in [Files -> File]
  BY DEF TypeInv, TypeOK
<1>6. Good(pass.record, then, messages[s], file)
  BY <1>1, <1>2, <1>4, <1>5, Writing, GoodAsTranscriptIsReplaced
<1>7. ~pass.moved => Good(index[s], then, messages[s], file)
  BY <1>1, <1>2, <1>4, <1>5, Writing, OnDisk, GoodAsTranscriptIsReplaced
<1>8. Copied(then, data)
  BY <1>1, <1>2, Writing, Single DEF Copied
<1> HIDE DEF then, data
<1>9. DiskInv'
  BY <1>1, <1>3, <1>7 DEF Records, SameTurn, DiskInv
<1>10. PassInv'
  BY <1>1, <1>3, <1>6 DEF Records, SameTurn, PassInv
<1>11. LinkInv'
  BY <1>1 DEF Records, SameTurn, LinkInv
<1>12. StageInv'
  BY <1>1, <1>3, <1>4, <1>8 DEF SameTurn, StageInv, Growing, Whole
<1> QED BY <1>9, <1>10, <1>11, <1>12 DEF Records

LEMMA AppendMessagesRecords ==
    ASSUME TypeInv, Records, StageInv, AppendMessages PROVE Records' /\ StageInv'
<1> DEFINE s == pass.session
           data == pass.data
           then == WithFrame(messages[s], data)
           record == [pass.record EXCEPT !.synced = data.to, !.mark = pass.mark]
<1>1. /\ SameTurn /\ pass # None /\ pass.at = "appending messages"
      /\ pass'.at = "done" /\ pass'.record = record
      /\ pass'.moved = pass.moved
      /\ UNCHANGED <<file, index, transcript>>
  BY AppendMessagesFacts DEF SameTurn, AppendMessages, machine
<1>2. pass.at \in Growing \union Whole
  BY <1>1 DEF Growing
<1>3. /\ messages'[s] = then
      /\ \A q \in Sessions : q # s => messages'[q] = messages[q]
  BY <1>1, <1>2, Writing, AppendMessagesFacts DEF TypeInv, TypeOK
<1>4. /\ pass.record.digest # None /\ Fits(data, pass.record, file)
      /\ data.from = pass.record.synced /\ data.from <= data.to
      /\ Copied(transcript[s], data)
  BY <1>1 DEF StageInv, Growing
<1>5. file \in [Files -> File]
  BY DEF TypeInv, TypeOK
<1>6. Good(record, transcript[s], then, file)
  BY <1>1, <1>2, <1>4, <1>5, Writing, GoodOnceAppended
<1>7. ~pass.moved => Good(index[s], transcript[s], then, file)
  BY <1>1, <1>2, Writing, OnDisk, GoodAsMessagesGrow
<1>8. record.file = pass.record.file
  BY <1>1, <1>2, Writing DEF Record
<1> HIDE DEF then, data, record
<1>9. DiskInv'
  BY <1>1, <1>3, <1>7 DEF Records, SameTurn, DiskInv
<1>10. PassInv'
  BY <1>1, <1>3, <1>6 DEF Records, SameTurn, PassInv
<1>11. LinkInv'
  BY <1>1, <1>8 DEF Records, SameTurn, LinkInv
<1>12. StageInv'
  BY <1>1, NothingRead
<1> QED BY <1>9, <1>10, <1>11, <1>12 DEF Records

LEMMA ReplaceMessagesRecords ==
    ASSUME TypeInv, Records, StageInv, ReplaceMessages PROVE Records' /\ StageInv'
<1> DEFINE s == pass.session
           data == pass.data
           then == <<data>>
           record == [pass.record EXCEPT !.synced = data.to,
                         !.digest = HeadDigest(pass.record.file, data.version, data.to),
                         !.mark = pass.mark]
<1>1. /\ SameTurn /\ pass # None /\ pass.at = "replacing messages"
      /\ pass'.at = "done" /\ pass'.record = record
      /\ pass'.moved = pass.moved
      /\ UNCHANGED <<file, index, transcript>>
  BY ReplaceMessagesFacts DEF SameTurn, ReplaceMessages, machine
<1>2. pass.at \in Growing \union Whole
  BY <1>1 DEF Whole
<1>3. /\ messages'[s] = then
      /\ \A q \in Sessions : q # s => messages'[q] = messages[q]
  BY <1>1, <1>2, Writing, ReplaceMessagesFacts DEF TypeInv, TypeOK
<1>4. Fits(data, pass.record, file) /\ data.from = 0 /\ Copied(transcript[s], data)
  BY <1>1 DEF StageInv, Whole
<1>5. file \in [Files -> File]
  BY DEF TypeInv, TypeOK
<1>6. Good(record, transcript[s], then, file)
  BY <1>1, <1>2, <1>4, <1>5, Writing, GoodOnceReplaced
<1>7. ~pass.moved => Good(index[s], transcript[s], then, file)
  BY <1>1, <1>2, <1>4, <1>5, Writing, OnDisk, GoodAsMessagesAreReplaced
<1>8. record.file = pass.record.file
  BY <1>1, <1>2, Writing DEF Record
<1> HIDE DEF then, data, record
<1>9. DiskInv'
  BY <1>1, <1>3, <1>7 DEF Records, SameTurn, DiskInv
<1>10. PassInv'
  BY <1>1, <1>3, <1>6 DEF Records, SameTurn, PassInv
<1>11. LinkInv'
  BY <1>1, <1>8 DEF Records, SameTurn, LinkInv
<1>12. StageInv'
  BY <1>1, NothingRead
<1> QED BY <1>9, <1>10, <1>11, <1>12 DEF Records

-----------------------------------------------------------------------------
(* The machine goes on meanwhile *)

\* A file grows, or is another from then on.
Onward(files, then) ==
    \A f \in Files :
       \/ then[f].version > files[f].version
       \/ then[f].version = files[f].version /\ then[f].lines >= files[f].lines

LEMMA FileGoesOn ==
    ASSUME TypeInv, NEW f \in Files, BeginLine(f) \/ EndLine(f) \/ Rewrite(f) \/ Vanish(f)
    PROVE  Onward(file, file')
<1>1. file \in [Files -> File]
  BY DEF TypeInv, TypeOK
<1>2. \A g \in Files : file[g].version \in Nat /\ file[g].lines \in Nat
  BY <1>1 DEF File
<1>3. CASE BeginLine(f)
  BY <1>1, <1>2, <1>3 DEF BeginLine, Onward, File
<1>4. CASE EndLine(f)
  BY <1>1, <1>2, <1>4 DEF EndLine, Onward, File
<1>5. CASE Rewrite(f)
  <2>1. file'[f].version = file[f].version + 1
        /\ \A g \in Files : g # f => file'[g] = file[g]
    BY <1>1, <1>5 DEF Rewrite, File
  <2> QED BY <1>2, <2>1 DEF Onward
<1>6. CASE Vanish(f)
  BY <1>1, <1>2, <1>6 DEF Vanish, Onward, File
<1> QED BY <1>3, <1>4, <1>5, <1>6

LEMMA FileRecords ==
    ASSUME TypeInv, TypeInv', Records, StageInv,
           NEW f \in Files, BeginLine(f) \/ EndLine(f) \/ Rewrite(f) \/ Vanish(f)
    PROVE  Records' /\ StageInv'
<1>1. UNCHANGED <<index, transcript, messages, pass>>
  BY DEF BeginLine, EndLine, Rewrite, Vanish, store
<1>2. Onward(file, file') /\ file \in [Files -> File] /\ file' \in [Files -> File]
  BY FileGoesOn DEF TypeInv, TypeOK
<1>3. ASSUME NEW r \in Record, NEW t, NEW m, Good(r, t, m, file)
      PROVE  Good(r, t, m, file')
  BY <1>2, <1>3, GoodAsFilesChange DEF Onward
<1>4. index \in [Sessions -> Record]
  BY DEF TypeInv, TypeOK
<1>5. DiskInv'
  BY <1>1, <1>3, <1>4 DEF Records, DiskInv
<1>6. PassInv'
  BY <1>1, <1>3, InHand DEF Records, PassInv, TypeInv
<1>7. LinkInv'
  BY <1>1 DEF Records, LinkInv
<1>8. ASSUME pass # None, pass.at \in Growing \union Whole
      PROVE  Fits(pass.data, pass.record, file')
  <2>1. Fits(pass.data, pass.record, file) /\ pass.data \in Frame /\ pass.record.file \in Files
    BY <1>8, Writing
  <2>2. /\ file[pass.record.file].version \in Nat /\ file'[pass.record.file].version \in Nat
        /\ file[pass.record.file].lines \in Nat /\ file'[pass.record.file].lines \in Nat
        /\ pass.data.version \in Nat /\ pass.data.to \in Nat
    BY <1>2, <2>1 DEF File, Frame, Fits
  <2>3. \/ file'[pass.record.file].version > file[pass.record.file].version
        \/ /\ file'[pass.record.file].version = file[pass.record.file].version
           /\ file'[pass.record.file].lines >= file[pass.record.file].lines
    BY <1>2, <2>1 DEF Onward
  <2> QED BY <2>1, <2>2, <2>3 DEF Fits
<1>9. StageInv'
  BY <1>1, <1>8 DEF StageInv
<1> QED BY <1>5, <1>6, <1>7, <1>9 DEF Records

-----------------------------------------------------------------------------

LEMMA Inductive == Guarded /\ IInv /\ [Next]_vars => IInv'
<1> SUFFICES ASSUME Guarded, IInv, [Next]_vars PROVE IInv'
  OBVIOUS
<1>1. TypeInv /\ Records /\ StageInv
  BY DEF IInv, Records
<1>2. TypeInv'
  BY <1>1, TypeStep
<1>3. CASE Step
  <2> SUFFICES Records' /\ StageInv'
    BY <1>2 DEF IInv, Records
  <2>1. CASE Begin \/ (\E s \in Sessions : TakeUp(s)) \/ Save
    BY <1>1, <2>1, BeginRecords, TakeUpRecords, SaveRecords
  <2>2. CASE Count \/ Page \/ EndCapture
    BY <1>1, <2>2, CaptureRecords
  <2>3. CASE Scan
    BY <1>1, <2>3, ScanRecords
  <2>4. CASE CheckOpening \/ Resume \/ Download
    BY <1>1, <2>4, ReadRecords
  <2>5. CASE AppendTranscript \/ AppendMessages
    BY <1>1, <2>5, AppendTranscriptRecords, AppendMessagesRecords
  <2>6. CASE ReplaceTranscript \/ ReplaceMessages
    BY <1>1, <2>6, ReplaceTranscriptRecords, ReplaceMessagesRecords
  <2> QED BY <1>3, <2>1, <2>2, <2>3, <2>4, <2>5, <2>6 DEF Step
<1>4. CASE Trouble
  <2> SUFFICES Records' /\ StageInv'
    BY <1>2 DEF IInv, Records
  <2>1. CASE CaptureFails
    BY <1>1, <2>1, CaptureRecords
  <2>2. CASE ReadFails \/ WriteFails
    BY <1>1, <2>2, FailureRecords
  <2>3. CASE Quit
    BY <1>1, <2>3, QuitRecords
  <2> QED BY <1>4, <2>1, <2>2, <2>3 DEF Trouble
<1>5. ASSUME NEW f \in Files, BeginLine(f) \/ EndLine(f) \/ Rewrite(f) \/ Vanish(f)
      PROVE  IInv'
  <2>1. Records' /\ StageInv'
    BY <1>1, <1>2, <1>5, FileRecords
  <2> QED BY <1>2, <2>1 DEF IInv, Records
<1>6. ASSUME UNCHANGED <<file, index, transcript, messages, pass>>
      PROVE  IInv'
  <2>1. DiskInv' /\ PassInv' /\ LinkInv' /\ StageInv'
    BY <1>1, <1>6 DEF Records, DiskInv, PassInv, LinkInv, StageInv
  <2> QED BY <1>2, <2>1 DEF IInv
<1>7. ASSUME NEW s \in Sessions,
             PrintLine(s) \/ \E f \in Files \union {None} : Match(s, f)
      PROVE  IInv'
  BY <1>6, <1>7 DEF PrintLine, Match, store
<1>8. CASE UNCHANGED vars
  BY <1>6, <1>8 DEF vars, machine, store
<1> QED BY <1>3, <1>4, <1>5, <1>7, <1>8 DEF Next, Change

\* Every line up to a record's cursor is in both copies, of that file alone,
\* whichever read or write failed and wherever a pass was cut short, as long as
\* no lost connection is taken for the end of a file and no dashboard is closed
\* between a pairing that moves and the index that says so.
THEOREM NothingIsMissing == Guarded => (Spec => []NothingMissing)
<1> SUFFICES ASSUME Guarded PROVE Spec => []NothingMissing
  OBVIOUS
<1>1. Init => IInv
  BY InitType, InitRecords DEF IInv, Records
<1>2. IInv /\ [Next]_vars => IInv'
  BY Inductive
<1>3. IInv => NothingMissing
  <2> SUFFICES ASSUME IInv, pass = None, NEW s \in Sessions
               PROVE  /\ index[s].digest # None => index[s].digest.of = index[s].file
                      /\ index[s].synced > 0 =>
                            \A i \in DOMAIN transcript[s] : transcript[s][i].of = index[s].file
                      /\ Describes(index[s]) =>
                            \A n \in 1 .. index[s].synced :
                               /\ Holds(transcript[s], index[s].file, index[s].digest.version, n)
                               /\ Holds(messages[s], index[s].file, index[s].digest.version, n)
    BY DEF NothingMissing
  <2>1. Good(index[s], transcript[s], messages[s], file)
    BY DEF IInv, DiskInv
  <2>2. Describes(index[s]) =>
           index[s].digest # None /\ index[s].digest.version = file[index[s].file].version
    BY DEF Describes
  <2> QED BY <2>1, <2>2 DEF Good
<1> QED BY <1>1, <1>2, <1>3, PTL DEF Spec
-----------------------------------------------------------------------------
(* Copies without a gap *)

\* A copy that runs without a gap up to a cursor.
UpTo(blob, n) ==
    /\ blob # <<>> /\ InOrder(blob)
    /\ blob[Len(blob)].to = n

\* What a record's cursor says of a capture, if there is one.
Counted(blob, lines) == blob # <<>> => UpTo(blob, lines) /\ lines > 0

\* Of a file from its beginning, and of one version of it.
OneVersion(blob) ==
    /\ blob # <<>> => blob[1].from = 0
    /\ \A i \in DOMAIN blob : blob[i].version = blob[1].version

\* A record that has no digest, or whose file is still the one it was copied from.
Standing(r, files) ==
    r.synced > 0 /\ (r.digest # None => r.digest.version = files[r.file].version)

\* The messages are whole up to the record's cursor, the transcript up to n,
\* and it is of the version the digest names.
Copies(r, t, m, n, files) ==
    Standing(r, files) =>
        /\ UpTo(t, n) /\ UpTo(m, r.synced) /\ OneVersion(t)
        /\ r.digest # None => t[1].version = r.digest.version

Exact(r, t, m, files) == Copies(r, t, m, r.synced, files)

\* Whose copies the pass has not written to.
Untouched(s) == pass # None => s \notin pass.touched

\* A capture ends where the record on disk says, until the pass writes to it,
\* and where the records of the pass say.
CaptureInv ==
    /\ \A s \in Sessions : s \notin slid /\ Untouched(s) => Counted(capture[s], index[s].lines)
    /\ pass # None =>
        /\ \A s \in Sessions : s # pass.session /\ s \notin slid =>
               Counted(capture[s], pass.index[s].lines)
        /\ pass.session # None /\ pass.session \notin slid =>
               Counted(capture[pass.session], pass.record.lines)

Halfway == {"appending messages", "replacing messages"}

\* So do the copies of a transcript.
DiskExact ==
    pass = None \/ ~pass.moved =>
        \A s \in Sessions : s \notin spoilt /\ Untouched(s) =>
            Exact(index[s], transcript[s], messages[s], file)

\* In between the transcript is a chunk ahead, or taken whole on its own.
PassExact ==
    pass # None =>
        /\ \A s \in Sessions : s # pass.session /\ s \notin spoilt =>
               Exact(pass.index[s], transcript[s], messages[s], file)
        /\ pass.session # None /\ pass.session \notin spoilt /\ pass.at \notin Halfway =>
               Exact(pass.record, transcript[pass.session], messages[pass.session], file)
        /\ pass.session \notin spoilt /\ pass.at = "appending messages" =>
               Copies(pass.record, transcript[pass.session], messages[pass.session],
                      pass.data.to, file)
        /\ pass.at = "replacing messages" => transcript[pass.session] = <<pass.data>>
        /\ pass.at \in Halfway => pass.session \in pass.touched

ExactInv == DiskExact /\ PassExact

\* A chunk that begins where a copy ends leaves no gap.
LEMMA UpToGrows ==
    ASSUME NEW blob \in Seq(Frame), NEW frame \in Frame, UpTo(blob, frame.from),
           frame.from <= frame.to
    PROVE  UpTo(WithFrame(blob, frame), frame.to)
<1>1. frame.from \in Int /\ frame.to \in Int
  BY DEF Frame
<1>2. CASE frame.from = frame.to
  BY <1>1, <1>2 DEF WithFrame
<1>3. CASE frame.from < frame.to
  <2> DEFINE then == Append(blob, frame)
  <2>1. WithFrame(blob, frame) = then
    BY <1>3 DEF WithFrame
  <2>2. Len(blob) \in Nat /\ Len(blob) > 0
    BY DEF UpTo
  <2>3. Len(then) = Len(blob) + 1 /\ then[Len(then)] = frame /\ then # <<>>
    OBVIOUS
  <2>4. \A i \in 1 .. Len(blob) : then[i] = blob[i]
    OBVIOUS
  <2> HIDE DEF then
  <2>5. ASSUME NEW i \in 2 .. Len(then) PROVE then[i].from = then[i - 1].to
    <3>1. CASE i = Len(then)
      BY <2>2, <2>3, <2>4, <3>1 DEF UpTo
    <3>2. CASE i # Len(then)
      <4>1. i \in 2 .. Len(blob) /\ i - 1 \in 1 .. Len(blob) /\ i \in 1 .. Len(blob)
        BY <2>2, <2>3, <3>2
      <4> QED BY <2>4, <4>1 DEF UpTo, InOrder
    <3> QED BY <3>1, <3>2
  <2> QED BY <2>1, <2>3, <2>5 DEF UpTo, InOrder
<1> QED BY <1>1, <1>2, <1>3

\* A chunk of the version a copy is of keeps it of one version.
LEMMA OneVersionGrows ==
    ASSUME NEW blob \in Seq(Frame), blob # <<>>, NEW frame \in Frame, OneVersion(blob),
           frame.version = blob[1].version
    PROVE  /\ OneVersion(WithFrame(blob, frame))
           /\ WithFrame(blob, frame)[1].version = blob[1].version
<1>1. CASE frame.from < frame.to
  <2>1. WithFrame(blob, frame) = Append(blob, frame)
    BY <1>1 DEF WithFrame
  <2> DEFINE then == Append(blob, frame)
  <2>2. Len(blob) \in Nat /\ Len(blob) > 0 /\ DOMAIN blob = 1 .. Len(blob)
    OBVIOUS
  <2>3. /\ DOMAIN then = 1 .. Len(blob) + 1 /\ then[Len(blob) + 1] = frame
        /\ \A i \in 1 .. Len(blob) : then[i] = blob[i]
    OBVIOUS
  <2> HIDE DEF then
  <2>4. \A i \in DOMAIN then : i = Len(blob) + 1 \/ i \in 1 .. Len(blob)
    BY <2>2, <2>3
  <2>5. then[1] = blob[1]
    BY <2>2, <2>3
  <2>6. WithFrame(blob, frame) = then
    BY <2>1 DEF then
  <2> QED BY <2>2, <2>3, <2>4, <2>5, <2>6 DEF OneVersion
<1>2. CASE ~(frame.from < frame.to)
  BY <1>2 DEF WithFrame
<1> QED BY <1>1, <1>2

LEMMA SingleIsExact ==
    ASSUME NEW frame \in Frame, frame.from = 0
    PROVE  UpTo(<<frame>>, frame.to) /\ OneVersion(<<frame>>) /\ <<frame>>[1] = frame
BY DEF UpTo, InOrder, OneVersion

\* What is kept of a capture is its end.
LEMMA RetainedKeepsEnd ==
    ASSUME NEW blob \in Seq(Frame), NEW lines, Counted(blob, lines)
    PROVE  Counted(Retained(blob), lines)
<1>1. CASE ~(Len(blob) > Keep)
  BY <1>1 DEF Retained
<1>2. CASE Len(blob) > Keep
  <2>1. Keep \in Nat /\ Keep > 0 /\ Len(blob) \in Nat
    BY SizesAssumption
  <2> DEFINE first == Len(blob) - Keep + 1
             kept == SubSeq(blob, first, Len(blob))
  <2>2. first \in 1 .. Len(blob) /\ Len(blob) - first + 1 = Keep
    BY <1>2, <2>1
  <2>3. Retained(blob) = kept
    BY <1>2 DEF Retained
  <2>4. /\ Len(kept) = Keep
        /\ \A i \in 1 .. Keep : kept[i] = blob[first + i - 1]
    <3>1. \A i \in first .. Len(blob) : blob[i] \in Frame
      BY <2>2
    <3>2. first \in Int /\ Len(blob) \in Int /\ first <= Len(blob)
      BY <2>1, <2>2
    <3> HIDE DEF first
    <3> QED BY <2>2, <3>1, <3>2, SubSeqProperties
  <2> HIDE DEF kept
  <2>5. kept # <<>> /\ blob # <<>>
    <3>1. Len(<<>>) = 0
      OBVIOUS
    <3> QED BY <1>2, <2>1, <2>4, <3>1
  <2>6. kept[Len(kept)] = blob[Len(blob)]
    BY <2>1, <2>4
  <2>7. ASSUME NEW i \in 2 .. Len(kept) PROVE kept[i].from = kept[i - 1].to
    <3>1. /\ i \in 1 .. Keep /\ i - 1 \in 1 .. Keep
          /\ first + i - 1 \in 2 .. Len(blob) /\ first + (i - 1) - 1 = (first + i - 1) - 1
      BY <2>1, <2>2, <2>4
    <3> HIDE DEF first
    <3>2. kept[i] = blob[first + i - 1] /\ kept[i - 1] = blob[(first + i - 1) - 1]
      BY <2>4, <3>1
    <3>3. InOrder(blob)
      BY <2>5 DEF Counted, UpTo
    <3> QED BY <3>1, <3>2, <3>3 DEF InOrder
  <2> QED BY <2>3, <2>5, <2>6, <2>7 DEF Counted, UpTo, InOrder
<1> QED BY <1>1, <1>2

\* A record that claims nothing stands for nothing.
LEMMA ExactOfNothing ==
    ASSUME NEW r, r.synced = 0, NEW t, NEW m, NEW files
    PROVE  Exact(r, t, m, files)
BY DEF Exact, Copies, Standing

LEMMA ExactOfSameClaims ==
    ASSUME NEW r, NEW q, SameClaims(q, r), NEW t, NEW m, NEW n, NEW files
    PROVE  /\ Copies(r, t, m, n, files) => Copies(q, t, m, n, files)
           /\ Exact(r, t, m, files) => Exact(q, t, m, files)
BY DEF Exact, Copies, Standing, SameClaims

\* A file that goes on makes no record stand that did not.
LEMMA ExactAsFilesChange ==
    ASSUME NEW r \in Record, NEW t, NEW m, NEW n,
           NEW files \in [Files -> File], NEW then \in [Files -> File],
           Onward(files, then), Good(r, t, m, files), Copies(r, t, m, n, files)
    PROVE  Copies(r, t, m, n, then)
<1> SUFFICES ASSUME Standing(r, then) PROVE Standing(r, files)
  BY DEF Copies
<1>1. CASE r.digest = None
  BY <1>1 DEF Standing
<1>2. CASE r.digest # None
  <2>1. r.file \in Files /\ r.digest.version \in Nat
    BY <1>2 DEF Good, Record, Digest
  <2>2. files[r.file].version \in Nat /\ then[r.file].version \in Nat
    BY <2>1 DEF File
  <2>3. then[r.file].version >= files[r.file].version
    BY <2>1, <2>2 DEF Onward
  <2>4. r.digest.version <= files[r.file].version /\ r.digest.version = then[r.file].version
    BY <1>2 DEF Good, Standing
  <2> QED BY <1>2, <2>1, <2>2, <2>3, <2>4 DEF Standing
<1> QED BY <1>1, <1>2

-----------------------------------------------------------------------------
(* Captures *)

LEMMA CaptureInit == Init => CaptureInv /\ ExactInv
<1> SUFFICES ASSUME Init PROVE CaptureInv /\ ExactInv
  OBVIOUS
<1>1. /\ pass = None
      /\ \A s \in Sessions : capture[s] = <<>> /\ index[s].synced = 0
  BY DEF Init, NoRecord
<1> QED BY <1>1, ExactOfNothing DEF CaptureInv, Counted, ExactInv, DiskExact, PassExact

\* Steps in a turn that leave the captures and their cursors alone.
LEMMA CaptureQuiet ==
    ASSUME CaptureInv, SameTurn, UNCHANGED <<index, capture, slid>>,
           pass'.record.lines = pass.record.lines, pass.touched \subseteq pass'.touched
    PROVE  CaptureInv'
BY DEF CaptureInv, SameTurn, Untouched

\* What index.json will hold of them is what the records of the pass do.
LEMMA UpsertedCaptures ==
    ASSUME TypeInv, CaptureInv, pass # None, NEW s \in Sessions, s \notin slid
    PROVE  Counted(capture[s], Upserted[s].lines)
<1>1. CASE s = pass.session
  <2>1. Upserted[s] = pass.record
    BY <1>1, InHand, NoneAssumption DEF TypeInv, Upserted
  <2> QED BY <1>1, <2>1, NoneAssumption DEF CaptureInv
<1>2. CASE s # pass.session
  <2>1. Upserted[s] = pass.index[s]
    BY <1>2, InHand DEF TypeInv, Upserted
  <2> QED BY <1>2, <2>1 DEF CaptureInv
<1> QED BY <1>1, <1>2

LEMMA TurnCaptures ==
    ASSUME TypeInv, PassInv, CaptureInv,
           Begin \/ (\E s \in Sessions : TakeUp(s)) \/ Save \/ Quit
    PROVE  CaptureInv'
<1>1. CASE Begin
  <2>1. UNCHANGED <<index, capture, slid>>
    BY <1>1 DEF Begin, store
  <2> QED BY <1>1, <2>1, BeginFacts DEF CaptureInv, Untouched
<1>2. ASSUME NEW s \in Sessions, TakeUp(s) PROVE CaptureInv'
  <2>1. UNCHANGED <<index, capture, slid>>
    BY <1>2 DEF TakeUp, store
  <2>2. pass # None /\ s # pass.session /\ pass'.record = pass.index[s]
    BY <1>2, TakeUpFacts DEF PassInv
  <2>3. \A q \in Sessions : q \notin slid => Counted(capture[q], Upserted[q].lines)
    BY <2>2, UpsertedCaptures
  <2> QED BY <1>2, <2>1, <2>2, <2>3, TakeUpFacts DEF CaptureInv, Untouched
<1>3. CASE Save
  <2>1. pass # None /\ pass' = None /\ index' = Upserted /\ UNCHANGED <<capture, slid>>
    BY <1>3 DEF Save, At
  <2> QED BY <2>1, UpsertedCaptures DEF CaptureInv
<1>4. CASE Quit
  <2>1. /\ pass # None /\ pass' = None /\ slid' = slid \union pass.touched
        /\ UNCHANGED <<index, capture>>
    BY <1>4 DEF Quit, store
  <2> QED BY <2>1 DEF CaptureInv, Untouched
<1> QED BY <1>1, <1>2, <1>3, <1>4

LEMMA CountCaptures ==
    ASSUME TypeInv, CaptureInv, Count PROVE CaptureInv'
<1>1. UNCHANGED <<index, capture, slid>>
  BY DEF Count, store
<1>2. /\ SameTurn /\ pass'.touched = pass.touched
      /\ pass.record.lines > 0 => pass'.record.lines = pass.record.lines
  BY CountFacts
<1> QED BY <1>1, <1>2 DEF CaptureInv, SameTurn, Untouched, Counted

\* A page is the next one when the session has not printed since the count.
LEMMA PageCaptures ==
    ASSUME TypeInv, CaptureInv, Page PROVE CaptureInv'
<1> DEFINE s == pass.session
<1>1. index' = index /\ pass.at = "paging"
  BY PageFacts DEF Page
<1>2. /\ SameTurn /\ pass'.touched = pass.touched \union {s} /\ slid \subseteq slid'
      /\ s \in Sessions
  BY PageFacts, InTurn DEF SameTurn
<1>3. \A q \in Sessions : q # s => capture'[q] = capture[q]
  BY DEF Page, TypeInv, TypeOK
<1>4. ASSUME s \notin slid' PROVE Counted(capture'[s], pass'.record.lines)
  <2>1. PICK frame \in Frame :
           /\ frame.from = pass.record.lines /\ frame.from < frame.to
           /\ frame.to = pass'.record.lines
           /\ capture' = [capture EXCEPT ![pass.session] = WithFrame(@, frame)]
    BY <1>4, PageFacts
  <2>2. capture'[s] = WithFrame(capture[s], frame) /\ capture[s] \in Seq(Frame)
    BY <1>2, <2>1 DEF TypeInv, TypeOK
  <2>3. Counted(capture[s], frame.from) /\ pass.record.lines \in Nat
    BY <1>2, <1>4, <2>1, NoneAssumption, InHand DEF CaptureInv, TypeInv, SameTurn
  <2>4. frame.to > 0 /\ frame.from <= frame.to
    BY <2>1, <2>3 DEF Frame
  <2>5. CASE capture[s] = <<>>
    <3>1. WithFrame(<<>>, frame) = <<frame>>
      BY <2>1 DEF WithFrame
    <3>2. UpTo(<<frame>>, frame.to)
      BY DEF UpTo, InOrder
    <3> QED BY <2>1, <2>2, <2>4, <2>5, <3>1, <3>2 DEF Counted
  <2>6. CASE capture[s] # <<>>
    BY <2>1, <2>2, <2>3, <2>4, <2>6, UpToGrows DEF Counted
  <2> QED BY <2>5, <2>6
<1> HIDE DEF s
<1>5. \A q \in Sessions : q \notin slid' /\ (pass' # None => q \notin pass'.touched) =>
         q # s /\ q \notin slid /\ (pass # None => q \notin pass.touched)
  BY <1>2 DEF SameTurn
<1>6. pass'.session = s /\ pass.session = s /\ pass'.index = pass.index /\ pass # None
  BY <1>2 DEF SameTurn, s
<1> QED BY <1>1, <1>2, <1>3, <1>4, <1>5, <1>6 DEF CaptureInv, Untouched

LEMMA EndCaptures ==
    ASSUME TypeInv, CaptureInv, EndCapture PROVE CaptureInv'
<1> DEFINE s == pass.session
<1>1. UNCHANGED <<index, slid>> /\ capture' = [capture EXCEPT ![s] = Retained(@)]
  BY DEF EndCapture
<1>2. /\ SameTurn /\ pass'.touched = pass.touched /\ pass'.record = pass.record
      /\ s \in Sessions
  BY EndCaptureFacts, InTurn DEF SameTurn
<1>3. ASSUME NEW q \in Sessions, NEW lines, Counted(capture[q], lines)
      PROVE  Counted(capture'[q], lines)
  <2>1. capture[q] \in Seq(Frame)
        /\ capture'[q] \in {capture[q], Retained(capture[q])}
    BY <1>1, <1>2 DEF TypeInv, TypeOK
  <2> QED BY <1>3, <2>1, RetainedKeepsEnd
<1> HIDE DEF s
<1> QED BY <1>1, <1>2, <1>3, NoneAssumption DEF CaptureInv, SameTurn, Untouched, s

\* The rest of a turn does not touch them.
LEMMA RestOfCaptures ==
    ASSUME TypeInv, CaptureInv,
           \/ CaptureFails \/ ReadFails \/ WriteFails \/ Scan \/ CheckOpening
           \/ Resume \/ Download \/ AppendTranscript \/ AppendMessages
           \/ ReplaceTranscript \/ ReplaceMessages
    PROVE  CaptureInv'
<1>1. UNCHANGED <<index, capture, slid>>
  BY DEF CaptureFails, ReadFails, WriteFails, Scan, CheckOpening, Resume, Download,
     AppendTranscript, AppendMessages, ReplaceTranscript, ReplaceMessages, store
<1> SUFFICES /\ SameTurn /\ pass'.record.lines = pass.record.lines
             /\ pass.touched \subseteq pass'.touched
  BY <1>1, CaptureQuiet
<1>2. CASE CaptureFails \/ ReadFails \/ WriteFails
  BY <1>2, CaptureFailsFacts, ReadFailsFacts, WriteFailsFacts
<1>3. CASE Scan
  <2>1. CASE ScansNone
    <3>1. pass # None /\ GoTo("done") /\ "done" \in Stage
      BY <2>1 DEF ScansNone, At, Stage
    <3> QED BY <3>1, GoToFacts
  <2>2. ASSUME NEW f \in Files, ScansFile(f)
        PROVE  /\ SameTurn /\ pass'.record.lines = pass.record.lines
               /\ pass.touched \subseteq pass'.touched
    <3>1. pass.record \in Record
      BY <2>2, InHand DEF ScansFile, SameTurn, TypeInv
    <3> QED BY <2>2, <3>1, PairedWithFacts DEF ScansFile
  <2> QED BY <1>3, <2>1, <2>2, ScanFacts
<1>4. CASE CheckOpening \/ Resume \/ Download
  BY <1>4, CheckOpeningFacts, ResumeFacts, DownloadFacts
<1>5. CASE AppendTranscript \/ ReplaceTranscript
  BY <1>5, AppendTranscriptFacts, ReplaceTranscriptFacts
<1>6. CASE AppendMessages
  <2>1. pass.record \in Record
    BY <1>6, AppendMessagesFacts, InHand DEF SameTurn, TypeInv
  <2> QED BY <1>6, <2>1, AppendMessagesFacts DEF Record
<1>7. CASE ReplaceMessages
  <2>1. pass.record \in Record
    BY <1>7, ReplaceMessagesFacts, InHand DEF SameTurn, TypeInv
  <2> QED BY <1>7, <2>1, ReplaceMessagesFacts DEF Record
<1> QED BY <1>2, <1>3, <1>4, <1>5, <1>6, <1>7

LEMMA CaptureStep ==
    ASSUME TypeInv, PassInv, CaptureInv, [Next]_vars PROVE CaptureInv'
<1>1. CASE Step
  BY <1>1, TurnCaptures, CountCaptures, PageCaptures, EndCaptures, RestOfCaptures DEF Step
<1>2. CASE Trouble
  BY <1>2, TurnCaptures, RestOfCaptures DEF Trouble
<1>3. CASE Change \/ UNCHANGED vars
  <2>1. UNCHANGED <<index, capture, slid, pass>>
    BY <1>3 DEF Change, BeginLine, EndLine, Rewrite, Vanish, PrintLine, Match, vars, store
  <2> QED BY <2>1 DEF CaptureInv, Untouched
<1> QED BY <1>1, <1>2, <1>3 DEF Next

-----------------------------------------------------------------------------
(* Transcripts and their messages *)

\* Steps that leave the copies and what records claim of them alone, between
\* two stages at which the copies are level.
LEMMA ExactQuiet ==
    ASSUME ExactInv, SameTurn, SameClaims(pass'.record, pass.record),
           pass'.moved = pass.moved, pass.touched \subseteq pass'.touched,
           UNCHANGED <<file, index, transcript, messages>>, spoilt \subseteq spoilt',
           pass.at \notin Halfway \/ pass.session \in spoilt', pass'.at \notin Halfway
    PROVE  ExactInv'
<1>1. DiskExact'
  BY DEF ExactInv, DiskExact, SameTurn, Untouched
<1>2. ASSUME pass.session # None, pass.session \notin spoilt'
      PROVE  Exact(pass'.record, transcript[pass.session], messages[pass.session], file)
  BY <1>2, ExactOfSameClaims DEF ExactInv, PassExact, SameTurn
<1>3. PassExact'
  BY <1>2 DEF ExactInv, PassExact, SameTurn, Halfway
<1> QED BY <1>1, <1>3 DEF ExactInv

LEMMA UpsertedExact ==
    ASSUME TypeInv, ExactInv, At("done"), NEW s \in Sessions, s \notin spoilt
    PROVE  Exact(Upserted[s], transcript[s], messages[s], file)
<1>1. pass # None /\ pass.at \notin Halfway
  BY DEF At, Halfway
<1>2. CASE s = pass.session
  <2>1. Upserted[s] = pass.record
    BY <1>1, <1>2, InHand, NoneAssumption DEF TypeInv, Upserted
  <2> QED BY <1>1, <1>2, <2>1, NoneAssumption DEF ExactInv, PassExact
<1>3. CASE s # pass.session
  <2>1. Upserted[s] = pass.index[s]
    BY <1>1, <1>3, InHand DEF TypeInv, Upserted
  <2> QED BY <1>1, <1>3, <2>1 DEF ExactInv, PassExact
<1> QED BY <1>2, <1>3

LEMMA TurnExact ==
    ASSUME Guarded, TypeInv, PassInv, ExactInv,
           Begin \/ (\E s \in Sessions : TakeUp(s)) \/ Save \/ Quit
    PROVE  ExactInv'
<1>1. CASE Begin
  <2>1. UNCHANGED <<file, index, transcript, messages, spoilt>>
    BY <1>1 DEF Begin, machine, store
  <2> QED BY <1>1, <2>1, BeginFacts DEF ExactInv, DiskExact, PassExact, Untouched, Halfway
<1>2. ASSUME NEW s \in Sessions, TakeUp(s) PROVE ExactInv'
  <2>1. UNCHANGED <<file, index, transcript, messages, spoilt>> /\ At("done")
    BY <1>2 DEF TakeUp, machine, store
  <2>2. pass # None /\ s # pass.session /\ pass'.record = pass.index[s]
    BY <1>2, TakeUpFacts DEF PassInv
  <2>3. \A q \in Sessions : q \notin spoilt =>
           Exact(Upserted[q], transcript[q], messages[q], file)
    BY <2>1, UpsertedExact
  <2>4. DiskExact'
    BY <1>2, <2>1, <2>2, TakeUpFacts DEF ExactInv, DiskExact, Untouched
  <2>5. s \notin spoilt => Exact(pass'.record, transcript[s], messages[s], file)
    BY <2>2 DEF ExactInv, PassExact
  <2>6. PassExact'
    BY <1>2, <2>1, <2>3, <2>5, TakeUpFacts DEF PassExact, Halfway
  <2> QED BY <2>4, <2>6 DEF ExactInv
<1>3. CASE Save
  <2>1. /\ At("done") /\ pass' = None /\ index' = Upserted
        /\ UNCHANGED <<file, transcript, messages, spoilt>>
    BY <1>3 DEF Save, machine
  <2> QED BY <2>1, UpsertedExact DEF ExactInv, DiskExact, PassExact
<1>4. CASE Quit
  <2>1. /\ pass # None /\ ~pass.moved /\ pass' = None
        /\ spoilt' = spoilt \union pass.touched
        /\ UNCHANGED <<file, index, transcript, messages>>
    BY <1>4 DEF Quit, Guarded, machine, store
  <2> QED BY <2>1 DEF ExactInv, DiskExact, PassExact, Untouched
<1> QED BY <1>1, <1>2, <1>3, <1>4

LEMMA QuietExact ==
    ASSUME TypeInv, ExactInv,
           \/ Count \/ Page \/ EndCapture \/ CaptureFails
           \/ CheckOpening \/ Resume \/ Download \/ ReadFails \/ WriteFails
    PROVE  ExactInv'
<1>1. ASSUME NEW r PROVE SameClaims(r, r)
  BY DEF SameClaims
<1>2. CASE Count \/ Page \/ EndCapture \/ CaptureFails
  <2>1. UNCHANGED <<file, index, transcript, messages, spoilt>>
    BY <1>2 DEF Count, Page, EndCapture, CaptureFails, machine, store
  <2>2. /\ SameTurn /\ SameClaims(pass'.record, pass.record) /\ pass'.moved = pass.moved
        /\ pass.touched \subseteq pass'.touched
        /\ pass.at \in {"counting", "paging"} /\ pass'.at \in {"paging", "scanning", "done"}
    BY <1>1, <1>2, CountFacts, PageFacts, EndCaptureFacts, CaptureFailsFacts
  <2> QED BY <2>1, <2>2, ExactQuiet DEF Halfway
<1>3. CASE CheckOpening \/ Resume \/ Download
  <2>1. UNCHANGED <<file, index, transcript, messages, spoilt>>
    BY <1>3 DEF CheckOpening, Resume, Download, machine, store
  <2>2. /\ SameTurn /\ SameClaims(pass'.record, pass.record) /\ pass'.moved = pass.moved
        /\ pass.touched \subseteq pass'.touched
        /\ pass.at \in {"opening", "resuming", "downloading"}
        /\ pass'.at \in {"resuming", "downloading", "appending", "replacing", "done"}
    BY <1>1, <1>3, CheckOpeningFacts, ResumeFacts, DownloadFacts
  <2> QED BY <2>1, <2>2, ExactQuiet DEF Halfway
<1>4. CASE ReadFails
  <2>1. /\ UNCHANGED <<file, index, transcript, messages, spoilt>>
        /\ pass.at \in {"scanning", "opening", "resuming", "downloading"}
    BY <1>4 DEF ReadFails, At, machine, store
  <2> QED BY <1>1, <1>4, <2>1, ReadFailsFacts, ExactQuiet DEF Halfway
<1>5. CASE WriteFails
  <2>1. UNCHANGED <<file, index, transcript, messages>>
    BY <1>5 DEF WriteFails, machine, store
  <2> QED BY <1>1, <1>5, <2>1, WriteFailsFacts, ExactQuiet DEF Halfway
<1> QED BY <1>2, <1>3, <1>4, <1>5

LEMMA ScanExact ==
    ASSUME TypeInv, PassInv, ExactInv, Scan PROVE ExactInv'
<1>1. UNCHANGED <<file, index, spoilt>>
  BY DEF Scan, machine
<1>2. CASE ScansNone
  <2>1. pass # None /\ pass.at = "scanning" /\ GoTo("done") /\ "done" \in Stage
        /\ UNCHANGED <<transcript, messages>>
    BY <1>2 DEF ScansNone, At, Stage
  <2> QED BY <1>1, <2>1, GoToFacts, ExactQuiet DEF SameClaims, Halfway
<1>3. ASSUME NEW f \in Files, ScansFile(f) PROVE ExactInv'
  <2> DEFINE s == pass.session
  <2>1. /\ SameTurn /\ pass # None /\ pass.at = "scanning" /\ s \in Sessions
        /\ pass'.at \in {"done", "opening"} /\ pass'.touched = pass.touched
        /\ pass'.record = PairedWith(f, pass.record)
        /\ pass'.moved = (pass.moved \/ pass.record.file \notin {None, f})
    BY <1>3, InTurn DEF ScansFile, SameTurn
  <2>2. pass.record \in Record /\ Good(pass.record, transcript[s], messages[s], file)
    BY <2>1, InHand, NoneAssumption DEF TypeInv, PassInv
  <2>3. CASE pass.record.file \notin {None, f}
    <3>1. pass'.record.synced = 0 /\ pass'.moved
      <4>1. pass'.record.synced = 0
        BY <2>1, <2>2, <2>3, PairedWithFacts
      <4>2. pass'.moved
        BY <2>1, <2>3
      <4> QED BY <4>1, <4>2
    <3>2. \A q \in Sessions : q # s =>
             transcript'[q] = transcript[q] /\ messages'[q] = messages[q]
      BY <1>3, <2>3 DEF ScansFile, TypeInv, TypeOK
    <3>3. Exact(pass'.record, transcript'[s], messages'[s], file)
      BY <3>1, ExactOfNothing
    <3> QED BY <1>1, <2>1, <3>1, <3>2, <3>3
            DEF ExactInv, DiskExact, PassExact, SameTurn, Halfway
  <2>4. CASE pass.record.file \in {None, f}
    <3>1. /\ UNCHANGED <<transcript, messages>> /\ pass'.moved = pass.moved
          /\ pass'.record.synced = pass.record.synced
          /\ pass'.record.digest = pass.record.digest
          /\ pass'.record.file = f
      BY <1>3, <2>1, <2>2, <2>4, PairedWithFacts, InHand DEF ScansFile, TypeInv
    <3>2. CASE pass.record.file = f
      <4>1. SameClaims(pass'.record, pass.record)
        BY <3>1, <3>2 DEF SameClaims
      <4> QED BY <1>1, <2>1, <3>1, <4>1, ExactQuiet DEF Halfway
    <3>3. CASE pass.record.file = None
      <4>1. pass'.record.synced = 0
        BY <2>2, <3>1, <3>3 DEF Good
      <4>2. Exact(pass'.record, transcript[s], messages[s], file)
        BY <4>1, ExactOfNothing
      <4> QED BY <1>1, <2>1, <3>1, <4>2
              DEF ExactInv, DiskExact, PassExact, SameTurn, Halfway, Untouched
    <3> QED BY <2>4, <3>2, <3>3
  <2> QED BY <2>3, <2>4
<1> QED BY <1>2, <1>3, ScanFacts

LEMMA AppendTranscriptExact ==
    ASSUME TypeInv, Records, StageInv, ExactInv, AppendTranscript PROVE ExactInv'
<1> DEFINE s == pass.session
           data == pass.data
           then == WithFrame(transcript[s], data)
<1>1. /\ SameTurn /\ pass # None /\ pass.at = "appending"
      /\ pass'.at = "appending messages" /\ pass'.record = pass.record
      /\ pass'.moved = pass.moved /\ pass'.data = data
      /\ pass'.touched = pass.touched \union {s}
      /\ UNCHANGED <<file, index, messages, spoilt>>
  BY AppendTranscriptFacts DEF SameTurn, AppendTranscript, machine
<1>2. pass.at \in Growing \union Whole
  BY <1>1 DEF Growing
<1>3. /\ transcript'[s] = then /\ s \in Sessions
      /\ \A q \in Sessions : q # s => transcript'[q] = transcript[q]
  BY <1>1, <1>2, Writing, AppendTranscriptFacts DEF TypeInv, TypeOK
<1>4. ASSUME s \notin spoilt, Standing(pass.record, file)
      PROVE  /\ UpTo(then, data.to) /\ UpTo(messages[s], pass.record.synced)
             /\ OneVersion(then)
             /\ pass.record.digest # None => then[1].version = pass.record.digest.version
  <2>1. /\ UpTo(transcript[s], pass.record.synced) /\ UpTo(messages[s], pass.record.synced)
        /\ OneVersion(transcript[s])
        /\ pass.record.digest # None => transcript[s][1].version = pass.record.digest.version
    BY <1>1, <1>3, <1>4, NoneAssumption DEF ExactInv, PassExact, Exact, Copies, Halfway
  <2>2. /\ pass.record.digest # None /\ data.from = pass.record.synced
        /\ data.from <= data.to /\ Fits(data, pass.record, file)
    BY <1>1 DEF StageInv, Growing
  <2>3. /\ data \in Frame /\ transcript[s] \in Seq(Frame) /\ data.of = pass.record.file
        /\ data.of \in Files
    BY <1>1, <1>2, Writing
  <2>4. data.version = pass.record.digest.version
    <3>1. data.version \in Nat /\ file[pass.record.file].version \in Nat
      BY <2>3 DEF Frame, File, TypeInv, TypeOK
    <3>2. /\ data.version <= file[pass.record.file].version
          /\ pass.record.digest.version <= data.version
          /\ pass.record.digest.version = file[pass.record.file].version
      BY <1>4, <2>2 DEF Fits, Standing
    <3> QED BY <3>1, <3>2
  <2>5. UpTo(then, data.to)
    BY <2>1, <2>2, <2>3, UpToGrows
  <2>6. OneVersion(then) /\ then[1].version = transcript[s][1].version
    BY <2>1, <2>2, <2>3, <2>4, OneVersionGrows DEF UpTo
  <2> QED BY <2>1, <2>2, <2>5, <2>6
<1> HIDE DEF then, data
<1>5. DiskExact'
  BY <1>1, <1>3 DEF ExactInv, DiskExact, SameTurn, Untouched
<1>6. PassExact'
  BY <1>1, <1>3, <1>4 DEF ExactInv, PassExact, SameTurn, Halfway, Copies
<1> QED BY <1>5, <1>6 DEF ExactInv

LEMMA AppendMessagesExact ==
    ASSUME TypeInv, Records, StageInv, ExactInv, AppendMessages PROVE ExactInv'
<1> DEFINE s == pass.session
           data == pass.data
           then == WithFrame(messages[s], data)
           record == [pass.record EXCEPT !.synced = data.to, !.mark = pass.mark]
<1>1. /\ SameTurn /\ pass # None /\ pass.at = "appending messages"
      /\ pass'.at = "done" /\ pass'.record = record
      /\ pass'.moved = pass.moved /\ pass'.touched = pass.touched
      /\ UNCHANGED <<file, index, transcript, spoilt>>
  BY AppendMessagesFacts DEF SameTurn, AppendMessages, machine
<1>2. pass.at \in Growing \union Whole
  BY <1>1 DEF Growing
<1>3. /\ messages'[s] = then /\ s \in Sessions
      /\ \A q \in Sessions : q # s => messages'[q] = messages[q]
  BY <1>1, <1>2, Writing, AppendMessagesFacts DEF TypeInv, TypeOK
<1>4. record.file = pass.record.file /\ record.synced = data.to
      /\ record.digest = pass.record.digest
  BY <1>1, <1>2, Writing DEF Record
<1>5. s \in pass.touched
  BY <1>1 DEF ExactInv, PassExact, Halfway
<1>6. ASSUME s \notin spoilt
      PROVE  Exact(record, transcript[s], then, file)
  <2> SUFFICES ASSUME Standing(record, file)
               PROVE  /\ UpTo(transcript[s], record.synced) /\ UpTo(then, record.synced)
                      /\ OneVersion(transcript[s])
                      /\ record.digest # None =>
                            transcript[s][1].version = record.digest.version
    BY DEF Exact, Copies
  <2>1. /\ pass.record.digest # None /\ data.from = pass.record.synced
        /\ data.from <= data.to
    BY <1>1 DEF StageInv, Growing
  <2>2. data \in Frame /\ messages[s] \in Seq(Frame)
        /\ Good(pass.record, transcript[s], messages[s], file)
    BY <1>1, <1>2, Writing
  <2> HIDE DEF record
  <2>3. Standing(pass.record, file)
    BY <1>4, <2>1, <2>2 DEF Standing, Good
  <2>4. Copies(pass.record, transcript[s], messages[s], data.to, file)
    BY <1>1, <1>6 DEF ExactInv, PassExact
  <2>5. UpTo(then, data.to)
    BY <2>1, <2>2, <2>3, <2>4, UpToGrows DEF Copies
  <2> QED BY <1>4, <2>3, <2>4, <2>5 DEF Copies
<1> HIDE DEF then, data, record
<1>7. DiskExact'
  BY <1>1, <1>3, <1>5 DEF ExactInv, DiskExact, SameTurn, Untouched
<1>8. PassExact'
  BY <1>1, <1>3, <1>6 DEF ExactInv, PassExact, SameTurn, Halfway
<1> QED BY <1>7, <1>8 DEF ExactInv

LEMMA ReplaceTranscriptExact ==
    ASSUME TypeInv, Records, StageInv, ExactInv, ReplaceTranscript PROVE ExactInv'
<1> DEFINE s == pass.session
           data == pass.data
<1>1. /\ SameTurn /\ pass # None /\ pass.at = "replacing"
      /\ pass'.at = "replacing messages"
      /\ pass'.moved = pass.moved /\ pass'.data = data
      /\ pass'.touched = pass.touched \union {s}
      /\ UNCHANGED <<file, index, messages, spoilt>>
  BY ReplaceTranscriptFacts DEF SameTurn, ReplaceTranscript, machine
<1>2. pass.at \in Growing \union Whole
  BY <1>1 DEF Whole
<1>3. /\ transcript'[s] = <<data>>
      /\ \A q \in Sessions : q # s => transcript'[q] = transcript[q]
  BY <1>1, <1>2, Writing, ReplaceTranscriptFacts DEF TypeInv, TypeOK
<1> HIDE DEF data
<1>4. DiskExact'
  BY <1>1, <1>3 DEF ExactInv, DiskExact, SameTurn, Untouched
<1>5. PassExact'
  BY <1>1, <1>3 DEF ExactInv, PassExact, SameTurn, Halfway
<1> QED BY <1>4, <1>5 DEF ExactInv

\* A file taken whole makes both copies exact, whatever was spoilt before.
LEMMA ReplaceMessagesExact ==
    ASSUME TypeInv, Records, StageInv, ExactInv, ReplaceMessages PROVE ExactInv'
<1> DEFINE s == pass.session
           data == pass.data
           then == <<data>>
           digest == HeadDigest(pass.record.file, data.version, data.to)
           record == [pass.record EXCEPT !.synced = data.to, !.digest = digest,
                                         !.mark = pass.mark]
<1>1. /\ SameTurn /\ pass # None /\ pass.at = "replacing messages"
      /\ pass'.at = "done" /\ pass'.record = record
      /\ pass'.moved = pass.moved /\ pass'.touched = pass.touched
      /\ UNCHANGED <<file, index, transcript>> /\ spoilt' = spoilt \ {s}
  BY ReplaceMessagesFacts DEF SameTurn, ReplaceMessages, machine
<1>2. pass.at \in Growing \union Whole
  BY <1>1 DEF Whole
<1>3. /\ messages'[s] = then /\ s \in Sessions
      /\ \A q \in Sessions : q # s => messages'[q] = messages[q]
  BY <1>1, <1>2, Writing, ReplaceMessagesFacts DEF TypeInv, TypeOK
<1>4. record.synced = data.to /\ record.digest = digest
  BY <1>1, <1>2, Writing DEF Record
<1>5. s \in pass.touched /\ transcript[s] = then
  BY <1>1 DEF ExactInv, PassExact, Halfway
<1>6. data.from = 0 /\ data \in Frame
  BY <1>1, <1>2, Writing DEF StageInv, Whole
<1>7. digest # None => data.version = digest.version
  BY DEF HeadDigest
<1>8. Exact(record, then, then, file)
  BY <1>4, <1>6, <1>7, SingleIsExact DEF Exact, Copies
<1> HIDE DEF then, data, record, digest
<1>9. DiskExact'
  BY <1>1, <1>3, <1>5 DEF ExactInv, DiskExact, SameTurn, Untouched
<1>10. PassExact'
  BY <1>1, <1>3, <1>5, <1>8 DEF ExactInv, PassExact, SameTurn, Halfway
<1> QED BY <1>9, <1>10 DEF ExactInv

LEMMA FileExact ==
    ASSUME TypeInv, TypeInv', Records, ExactInv,
           NEW f \in Files, BeginLine(f) \/ EndLine(f) \/ Rewrite(f) \/ Vanish(f)
    PROVE  ExactInv'
<1>1. UNCHANGED <<index, transcript, messages, pass, spoilt>>
  BY DEF BeginLine, EndLine, Rewrite, Vanish, store
<1>2. Onward(file, file') /\ file \in [Files -> File] /\ file' \in [Files -> File]
  BY FileGoesOn DEF TypeInv, TypeOK
<1>3. ASSUME NEW r \in Record, NEW t, NEW m, NEW n, Good(r, t, m, file)
      PROVE  /\ Copies(r, t, m, n, file) => Copies(r, t, m, n, file')
             /\ Exact(r, t, m, file) => Exact(r, t, m, file')
  BY <1>2, <1>3, ExactAsFilesChange DEF Exact
<1>4. index \in [Sessions -> Record]
  BY DEF TypeInv, TypeOK
<1>5. DiskExact'
  BY <1>1, <1>3, <1>4 DEF Records, DiskInv, ExactInv, DiskExact, Untouched
<1>6. ASSUME pass # None PROVE PassExact'
  <2>1. pass.record \in Record /\ pass.index \in [Sessions -> Record]
    BY <1>6, InHand DEF TypeInv
  <2>2. pass.at \in Halfway => pass.session # None
    BY <1>6 DEF TypeInv, HoldingInv, Halfway
  <2>3. \A s \in Sessions : s # pass.session /\ s \notin spoilt =>
           Exact(pass.index[s], transcript[s], messages[s], file')
    BY <1>3, <1>6, <2>1 DEF Records, PassInv, ExactInv, PassExact
  <2>4. pass.session # None =>
           Good(pass.record, transcript[pass.session], messages[pass.session], file)
    BY <1>6 DEF Records, PassInv
  <2> QED BY <1>1, <1>3, <1>6, <2>1, <2>2, <2>3, <2>4 DEF ExactInv, PassExact, Halfway
<1>7. CASE pass = None
  BY <1>1, <1>5, <1>7 DEF ExactInv, PassExact
<1> QED BY <1>5, <1>6, <1>7 DEF ExactInv

LEMMA ExactStep ==
    ASSUME Guarded, IInv, TypeInv', ExactInv, [Next]_vars PROVE ExactInv'
<1>1. TypeInv /\ Records /\ PassInv /\ StageInv
  BY DEF IInv, Records
<1>2. CASE Step
  <2>1. CASE Begin \/ (\E s \in Sessions : TakeUp(s)) \/ Save
    BY <1>1, <2>1, TurnExact
  <2>2. CASE Count \/ Page \/ EndCapture \/ CheckOpening \/ Resume \/ Download
    BY <1>1, <2>2, QuietExact
  <2>3. CASE Scan
    BY <1>1, <2>3, ScanExact
  <2>4. CASE AppendTranscript \/ AppendMessages \/ ReplaceTranscript \/ ReplaceMessages
    BY <1>1, <2>4, AppendTranscriptExact, AppendMessagesExact, ReplaceTranscriptExact,
       ReplaceMessagesExact
  <2> QED BY <1>2, <2>1, <2>2, <2>3, <2>4 DEF Step
<1>3. CASE Trouble
  BY <1>1, <1>3, TurnExact, QuietExact DEF Trouble
<1>4. ASSUME NEW f \in Files, BeginLine(f) \/ EndLine(f) \/ Rewrite(f) \/ Vanish(f)
      PROVE  ExactInv'
  BY <1>1, <1>4, FileExact
<1>5. ASSUME UNCHANGED <<file, index, transcript, messages, pass, spoilt>> PROVE ExactInv'
  BY <1>5 DEF ExactInv, DiskExact, PassExact, Untouched
<1>6. ASSUME NEW s \in Sessions,
             PrintLine(s) \/ \E f \in Files \union {None} : Match(s, f)
      PROVE  ExactInv'
  BY <1>5, <1>6 DEF PrintLine, Match, store
<1>7. CASE UNCHANGED vars
  BY <1>5, <1>7 DEF vars, machine, store
<1> QED BY <1>2, <1>3, <1>4, <1>6, <1>7 DEF Next, Change

\* Every copy is its source line by line, none twice and none left out, up to
\* the cursor of its record: of a capture, unless the session printed while a
\* page of its log was read or a pass was cut short after one; of a transcript
\* and its messages, unless a write failed or a pass was cut short since the
\* file was last taken whole.  With the faults of NothingIsMissing set aside.
THEOREM CopiesStayExact == Guarded => (Spec => []CopiesAreExact)
<1> SUFFICES ASSUME Guarded PROVE Spec => []CopiesAreExact
  OBVIOUS
<1> DEFINE Inv == IInv /\ CaptureInv /\ ExactInv
<1>1. Init => Inv
  BY InitType, InitRecords, CaptureInit DEF IInv, Records
<1>2. Inv /\ [Next]_vars => Inv'
  <2> SUFFICES ASSUME Inv, [Next]_vars PROVE Inv'
    OBVIOUS
  <2>1. IInv'
    BY Inductive
  <2>2. CaptureInv'
    BY CaptureStep DEF IInv
  <2>3. ExactInv'
    BY <2>1, ExactStep DEF IInv
  <2> QED BY <2>1, <2>2, <2>3
<1>3. Inv => CopiesAreExact
  <2> SUFFICES ASSUME Inv, pass = None, NEW s \in Sessions
               PROVE  /\ s \notin slid => CaptureIsExact(s)
                      /\ s \notin spoilt => TranscriptIsExact(s)
    BY DEF CopiesAreExact
  <2>1. ASSUME s \notin slid PROVE CaptureIsExact(s)
    BY <2>1 DEF CaptureInv, Untouched, Counted, UpTo, CaptureIsExact
  <2>2. ASSUME s \notin spoilt, index[s].synced > 0,
               index[s].digest # None => Describes(index[s])
        PROVE  /\ InOrder(transcript[s]) /\ InOrder(messages[s])
               /\ transcript[s][1].from = 0
               /\ transcript[s][Len(transcript[s])].to = index[s].synced
               /\ \A i \in DOMAIN transcript[s] :
                     transcript[s][i].version = transcript[s][1].version
               /\ Describes(index[s]) => index[s].synced <= file[index[s].file].lines
    <3>1. Standing(index[s], file)
      BY <2>2 DEF Standing, Describes
    <3>2. /\ UpTo(transcript[s], index[s].synced) /\ UpTo(messages[s], index[s].synced)
          /\ OneVersion(transcript[s])
      BY <2>2, <3>1 DEF ExactInv, DiskExact, Untouched, Exact, Copies
    <3>3. Describes(index[s]) => index[s].synced <= file[index[s].file].lines
      BY DEF IInv, DiskInv, Good, Describes
    <3> QED BY <3>2, <3>3 DEF UpTo, OneVersion
  <2> QED BY <2>1, <2>2 DEF TranscriptIsExact
<1> QED BY <1>1, <1>2, <1>3, PTL DEF Spec

=============================================================================
