------------------------------- MODULE Backup -------------------------------
(***************************************************************************)
(* The backup of session history: a dashboard mirrors, pass by pass, what  *)
(* every session of a machine has printed (its capture) and the transcript *)
(* its agent keeps in a file of its own, into a store it can search and    *)
(* restore from.  A pass lists the sessions, and for each one copies what  *)
(* was added beyond the cursors of its record; the index of records is     *)
(* written when the pass is over, the copies as it goes along.             *)
(*                                                                         *)
(* Meanwhile agents write, files are rewritten and disappear, the daemon   *)
(* changes its mind about whose file is whose, reads and writes fail, and  *)
(* the dashboard is closed.                                                *)
(*                                                                         *)
(* Abstracted: a copy is a list of frames, each a run of lines of one      *)
(* version of one source; sizes are counted in lines, so that the half     *)
(* line at the end of a file is all that is left of bytes; a file's mark   *)
(* of its last change tells any two states of it apart; the messages       *)
(* extracted from lines stand for those lines; one machine, one folder,    *)
(* one dashboard; logs only grow; runtimes whose transcript is a file.     *)
(***************************************************************************)
EXTENDS Integers, Sequences

CONSTANTS
    Sessions,       \* the sessions there may be
    Listings,       \* which of them the machine may have
    Agents,         \* those whose runtime keeps a transcript
    Files,          \* transcripts in their folder
    IncludeAnsi,    \* config.backup.include_ansi
    Window,         \* CAPTURE_CHUNK_LINES, and CAPTURE_BACKFILL_LINES
    Keep,           \* frames of a capture that fit in ansi_max_bytes
    Opening,        \* lines that hold HEAD_DIGEST_BYTES
    FirstLines,     \* lines of each transcript when the backup begins
    MaxLines,       \* BOUND: lines of each transcript
    MaxPrinted,     \* BOUND: lines each session prints
    MaxMoves,       \* BOUND: files written anew, files gone, sessions matched
    MaxTroubles,    \* BOUND: reads and writes that fail, dashboards closed
    Faults,         \* what goes wrong besides: a subset of KnownFaults
    None            \* no file, no frame, no pass

KnownFaults == {"cut", "quit as a pairing moves"}

ASSUME SetsAssumption ==
    Agents \subseteq Sessions /\ Listings \subseteq SUBSET Sessions /\ IncludeAnsi \in BOOLEAN
ASSUME SizesAssumption == Window \in Nat \ {0} /\ Keep \in Nat \ {0} /\ Opening \in Nat \ {0}
ASSUME BoundsAssumption ==
    /\ FirstLines \in [Files -> Nat] /\ MaxLines \in [Files -> Nat]
    /\ MaxPrinted \in [Sessions -> Nat]
    /\ MaxMoves \in Nat /\ MaxTroubles \in Nat
ASSUME FaultsAssumption == Faults \subseteq KnownFaults

VARIABLES
    \* The machine:
    present,        \* its sessions
    file,           \* the transcripts
    printed,        \* lines in each session's log
    thread,         \* DaemonSession::thread: the file the daemon matched
    moves,          \* how often it was unsettled
    \* The store:
    index,          \* index.json
    capture,        \* the blobs of each session, as lists of frames
    transcript,
    messages,
    \* The dashboard:
    pass,           \* the pass that is under way
    troubles,
    \* Nobody's knowledge:
    slid,           \* captures that are no longer the log, line by line
    spoilt          \* transcripts a cut-short pass wrote to since taken whole

machine == <<present, file, printed, thread, moves>>
store   == <<index, capture, transcript, messages>>
vars    == <<machine, store, pass, troubles, slid, spoilt>>

File   == [there : BOOLEAN, version : Nat, lines : Nat, half : BOOLEAN]
Frame  == [of : Sessions \union Files, version : Nat, from : Int, to : Int]
Digest == [of : Files, version : Nat]
Record == [file   : Files \union {None},     \* native_id
           mark   : File \union {None},      \* native_updated_at
           synced : Nat,                     \* jsonl_bytes_synced
           digest : Digest \union {None},    \* jsonl_head_digest
           lines  : Nat]                     \* ansi_lines_synced
Stage  == {"counting", "paging", "scanning", "opening",
           "resuming", "downloading", "appending", "appending messages",
           "replacing", "replacing messages", "done"}
Pass   == [at      : Stage,
           index   : [Sessions -> Record],
           listed  : [Sessions -> Files \union {None}],
           spoken  : [Files -> Sessions \union {None}],   \* spoken_for
           left    : SUBSET Sessions,
           session : Sessions \union {None},
           record  : Record,
           total   : Nat,
           mark    : File \union {None},
           data    : Frame \union {None},
           touched : SUBSET Sessions,
           moved   : BOOLEAN]

ASSUME NoneAssumption ==
    /\ None \notin Files /\ None \notin Sessions /\ None \notin Pass
    /\ None \notin File /\ None \notin Frame /\ None \notin Digest

TypeOK ==
    /\ present \subseteq Sessions
    /\ file \in [Files -> File]
    /\ printed \in [Sessions -> Nat]
    /\ thread \in [Sessions -> Files \union {None}]
    /\ index \in [Sessions -> Record]
    /\ capture \in [Sessions -> Seq(Frame)]
    /\ transcript \in [Sessions -> Seq(Frame)]
    /\ messages \in [Sessions -> Seq(Frame)]
    /\ pass \in Pass \union {None}
    /\ moves \in 0 .. MaxMoves /\ troubles \in 0 .. MaxTroubles
    /\ slid \subseteq Sessions /\ spoilt \subseteq Sessions

NoRecord == [file |-> None, mark |-> None, synced |-> 0, digest |-> None, lines |-> 0]

Init ==
    /\ present \in Listings
    /\ file = [f \in Files |-> [there |-> TRUE, version |-> 0, lines |-> FirstLines[f], half |-> FALSE]]
    /\ printed = [s \in Sessions |-> 0]
    /\ thread = [s \in Sessions |-> None]
    /\ moves = 0
    /\ index = [s \in Sessions |-> NoRecord]
    /\ capture = [s \in Sessions |-> <<>>]
    /\ transcript = [s \in Sessions |-> <<>>]
    /\ messages = [s \in Sessions |-> <<>>]
    /\ pass = None
    /\ troubles = 0
    /\ slid = {} /\ spoilt = {}

-----------------------------------------------------------------------------
(* The store *)

\* append_frame: a chunk with nothing in it leaves no frame.
WithFrame(blob, frame) == IF frame.from < frame.to THEN Append(blob, frame) ELSE blob

\* retain_capture: the oldest frames go, the newest stays.
Retained(blob) ==
    IF Len(blob) > Keep THEN SubSeq(blob, Len(blob) - Keep + 1, Len(blob)) ELSE blob

\* head_digest of a file that has so many lines.
HeadDigest(f, version, lines) ==
    IF lines < Opening THEN None ELSE [of |-> f, version |-> version]

-----------------------------------------------------------------------------
(* A pass *)

At(stage) == pass # None /\ pass.at = stage

GoTo(stage) == pass' = [pass EXCEPT !.at = stage]

\* run_sync: the index is read, and the sessions are listed.  What the daemon
\* has matched is spoken for before anything is mirrored.
Begin ==
    /\ pass = None
    /\ \E spoken \in [Files -> Sessions \union {None}] :
          /\ \A f \in Files :
                IF \E s \in Sessions : thread[s] = f
                THEN spoken[f] # None /\ thread[spoken[f]] = f
                ELSE spoken[f] = None
          /\ pass' = [at |-> "done", index |-> index, listed |-> thread,
                      spoken |-> spoken, left |-> present, session |-> None,
                      record |-> NoRecord, total |-> 0, mark |-> None,
                      data |-> None, touched |-> {}, moved |-> FALSE]
    /\ UNCHANGED <<machine, store, troubles, slid, spoilt>>

\* BackupIndex::upsert, for the session that had its turn.
Upserted ==
    IF pass.session = None THEN pass.index
    ELSE [pass.index EXCEPT ![pass.session] = pass.record]

TakeUp(s) ==
    /\ At("done") /\ s \in pass.left
    /\ pass' = [pass EXCEPT !.at = IF IncludeAnsi THEN "counting"
                                   ELSE IF s \in Agents THEN "scanning" ELSE "done",
                            !.index = Upserted, !.left = @ \ {s}, !.session = s,
                            !.record = pass.index[s],
                            !.total = 0, !.mark = None, !.data = None]
    /\ UNCHANGED <<machine, store, troubles, slid, spoilt>>

AfterCapture == IF pass.session \in Agents THEN "scanning" ELSE "done"

\* sync_capture: how long the log is, and where a first copy begins.
Count ==
    /\ At("counting")
    /\ LET total == printed[pass.session]
       IN  pass' = [pass EXCEPT !.at = "paging", !.total = total,
                       !.record.lines =
                           IF @ > 0 THEN @
                           ELSE IF total > Window THEN total - Window ELSE 0]
    /\ UNCHANGED <<machine, store, troubles, slid, spoilt>>

\* The page is asked for by its distance from the log's end, as that was when
\* it was counted, and served from where the end is now.
Page ==
    /\ At("paging") /\ pass.record.lines < pass.total
    /\ LET s      == pass.session
           missing == pass.total - pass.record.lines
           window == IF missing < Window THEN missing ELSE Window
           offset == missing - window
           end    == printed[s] - offset
       IN  /\ capture' = [capture EXCEPT ![s] =
                  WithFrame(@, [of |-> s, version |-> 0,
                                from |-> end - window, to |-> end])]
           /\ pass' = [pass EXCEPT !.record.lines = @ + window,
                                   !.touched = @ \union {s}]
           /\ slid' = IF printed[s] = pass.total THEN slid ELSE slid \union {s}
    /\ UNCHANGED <<machine, index, transcript, messages, troubles, spoilt>>

\* All of the log is there; what the capture is over its size goes.
EndCapture ==
    /\ At("paging") /\ pass.record.lines = pass.total
    /\ capture' = [capture EXCEPT ![pass.session] = Retained(@)]
    /\ GoTo(AfterCapture)
    /\ UNCHANGED <<machine, index, transcript, messages, troubles, slid, spoilt>>

\* A capture that fails keeps what it has, and the session's turn goes on.
CaptureFails ==
    /\ At("counting") \/ At("paging")
    /\ troubles < MaxTroubles
    /\ troubles' = troubles + 1
    /\ GoTo(AfterCapture)
    /\ UNCHANGED <<machine, store, slid, spoilt>>

\* pick_native_candidate: the daemon's match, then the file this record was
\* paired with before, then a guess, neither of the last two another session's.
Mine == {f \in Files : file[f].there /\ pass.spoken[f] \in {None, pass.session}}
Candidates ==
    LET named == {f \in Files : file[f].there /\ pass.listed[pass.session] = f}
        kept  == Mine \intersect {pass.record.file}
    IN  IF named # {} THEN named
        ELSE IF kept # {} THEN kept
        ELSE Mine \union {None}

\* mirror_is_current
Current(f, record) == record.mark = file[f] /\ record.synced > 0

\* What is left of a record that is paired with f from now on.
PairedWith(f, record) ==
    IF record.file \in {None, f}
    THEN [record EXCEPT !.file = f]
    ELSE [record EXCEPT !.file = f, !.mark = None, !.synced = 0, !.digest = None]

\* The opening of sync_transcript: a pairing that changes takes the copies of
\* the other conversation with it.
Scan ==
    /\ At("scanning")
    /\ \E f \in Candidates :
         IF f = None
         THEN GoTo("done") /\ UNCHANGED <<transcript, messages>>
         ELSE LET s      == pass.session
                  record == PairedWith(f, pass.record)
                  moved  == pass.record.file \notin {None, f}
              IN  /\ pass' = [pass EXCEPT
                         !.at = IF Current(f, record) THEN "done" ELSE "opening",
                         !.record = record, !.mark = file[f],
                         !.spoken[f] = s, !.moved = @ \/ moved]
                  /\ transcript' = IF moved THEN [transcript EXCEPT ![s] = <<>>] ELSE transcript
                  /\ messages' = IF moved THEN [messages EXCEPT ![s] = <<>>] ELSE messages
    /\ UNCHANGED <<machine, index, capture, troubles, slid, spoilt>>

\* The file in hand.
Source == pass.record.file

TrustsThePath ==
    /\ At("opening")
    /\ GoTo(IF pass.record.digest = None THEN "downloading" ELSE "resuming")
    /\ UNCHANGED <<machine, store, troubles, slid, spoilt>>

\* appended_transcript: is this still the file that was mirrored?
CheckOpening ==
    /\ At("opening")
    /\ LET f == Source
       IN  IF pass.record.digest = None THEN GoTo("downloading")
           ELSE IF ~file[f].there THEN GoTo("done")
           ELSE IF HeadDigest(f, file[f].version, file[f].lines) = pass.record.digest
                THEN GoTo("resuming")
           ELSE GoTo("downloading")
    /\ UNCHANGED <<machine, store, troubles, slid, spoilt>>

TakesHalfLines(from) ==
    LET f == Source
        n == IF file[f].half THEN file[f].lines + 1 ELSE file[f].lines
    IN  {[of |-> f, version |-> file[f].version, from |-> from, to |-> n]}

\* The whole lines of the file in hand beyond a cursor, or with the fault only
\* some of them: a connection that is lost ends a file.
Added(from) ==
    LET f == Source
    IN  {[of |-> f, version |-> file[f].version, from |-> from, to |-> n] :
            n \in {k \in from .. file[f].lines :
                      k = file[f].lines \/ "cut" \in Faults}}

Resume ==
    /\ At("resuming")
    /\ IF file[Source].there /\ pass.record.synced <= file[Source].lines
       THEN \E data \in Added(pass.record.synced) :
               pass' = [pass EXCEPT !.at = "appending", !.data = data]
       ELSE GoTo("downloading")
    /\ UNCHANGED <<machine, store, troubles, slid, spoilt>>

\* sync_transcript, where the file is taken whole.
Download ==
    /\ At("downloading")
    /\ IF file[Source].there
       THEN \E data \in Added(0) :
               pass' = [pass EXCEPT !.at = "replacing", !.data = data]
       ELSE GoTo("done")
    /\ UNCHANGED <<machine, store, troubles, slid, spoilt>>

\* Over the bridge, reading from the cursor that fails becomes reading the whole.
ReadFails ==
    /\ At("scanning") \/ At("opening") \/ At("resuming") \/ At("downloading")
    /\ troubles < MaxTroubles
    /\ troubles' = troubles + 1
    /\ \E next \in IF At("resuming") THEN {"downloading", "done"} ELSE {"done"} : GoTo(next)
    /\ UNCHANGED <<machine, store, slid, spoilt>>

AdvancesEarly ==
    /\ At("appending")
    /\ transcript' = [transcript EXCEPT ![pass.session] = WithFrame(@, pass.data)]
    /\ pass' = [pass EXCEPT !.at = "appending messages",
                            !.record.synced = pass.data.to, !.record.mark = pass.mark,
                            !.touched = @ \union {pass.session}]
    /\ UNCHANGED <<machine, index, capture, messages, troubles, slid, spoilt>>

AppendTranscript ==
    /\ At("appending")
    /\ transcript' = [transcript EXCEPT ![pass.session] = WithFrame(@, pass.data)]
    /\ pass' = [pass EXCEPT !.at = "appending messages",
                            !.touched = @ \union {pass.session}]
    /\ UNCHANGED <<machine, index, capture, messages, troubles, slid, spoilt>>

AppendMessages ==
    /\ At("appending messages")
    /\ messages' = [messages EXCEPT ![pass.session] = WithFrame(@, pass.data)]
    /\ pass' = [pass EXCEPT !.at = "done", !.record.synced = pass.data.to,
                            !.record.mark = pass.mark]
    /\ UNCHANGED <<machine, index, capture, transcript, troubles, slid, spoilt>>

ReplaceTranscript ==
    /\ At("replacing")
    /\ transcript' = [transcript EXCEPT ![pass.session] = <<pass.data>>]
    /\ pass' = [pass EXCEPT !.at = "replacing messages",
                            !.touched = @ \union {pass.session}]
    /\ UNCHANGED <<machine, index, capture, messages, troubles, slid, spoilt>>

ReplaceMessages ==
    /\ At("replacing messages")
    /\ messages' = [messages EXCEPT ![pass.session] = <<pass.data>>]
    /\ pass' = [pass EXCEPT !.at = "done", !.record.synced = pass.data.to,
                   !.record.digest = HeadDigest(Source, pass.data.version, pass.data.to),
                   !.record.mark = pass.mark]
    /\ spoilt' = spoilt \ {pass.session}
    /\ UNCHANGED <<machine, index, capture, transcript, troubles, slid>>

\* The record keeps its cursor, whichever of the two copies was written.
WriteFails ==
    /\ \/ At("appending") \/ At("appending messages")
       \/ At("replacing") \/ At("replacing messages")
    /\ troubles < MaxTroubles
    /\ troubles' = troubles + 1
    /\ spoilt' = spoilt \union {pass.session}
    /\ GoTo("done")
    /\ UNCHANGED <<machine, store, slid>>

\* save_index, once every session has had its turn.
Save ==
    /\ At("done") /\ pass.left = {}
    /\ index' = Upserted
    /\ pass' = None
    /\ UNCHANGED <<machine, capture, transcript, messages, troubles, slid, spoilt>>

\* The dashboard is closed, or the index cannot be written: the copies stay
\* as they are, the records of the pass are lost.
Quit ==
    /\ pass # None /\ troubles < MaxTroubles
    /\ pass.moved => "quit as a pairing moves" \in Faults
    /\ troubles' = troubles + 1
    /\ slid' = slid \union pass.touched
    /\ spoilt' = spoilt \union pass.touched
    /\ pass' = None
    /\ UNCHANGED <<machine, store>>

-----------------------------------------------------------------------------
(* The machine *)

\* An agent begins a line, and ends it.
BeginLine(f) ==
    /\ file[f].there /\ ~file[f].half /\ file[f].lines < MaxLines[f]
    /\ file' = [file EXCEPT ![f].half = TRUE]
    /\ UNCHANGED <<present, printed, thread, moves, store, pass, troubles, slid, spoilt>>

EndLine(f) ==
    /\ file[f].there /\ file[f].half
    /\ file' = [file EXCEPT ![f].half = FALSE, ![f].lines = @ + 1]
    /\ UNCHANGED <<present, printed, thread, moves, store, pass, troubles, slid, spoilt>>

\* Another conversation under the same name.
Rewrite(f) ==
    /\ file[f].there /\ moves < MaxMoves
    /\ moves' = moves + 1
    /\ file' = [file EXCEPT ![f].version = @ + 1, ![f].lines = 0, ![f].half = FALSE]
    /\ UNCHANGED <<present, printed, thread, store, pass, troubles, slid, spoilt>>

Vanish(f) ==
    /\ file[f].there /\ moves < MaxMoves
    /\ moves' = moves + 1
    /\ file' = [file EXCEPT ![f].there = FALSE]
    /\ UNCHANGED <<present, printed, thread, store, pass, troubles, slid, spoilt>>

PrintLine(s) ==
    /\ s \in present /\ printed[s] < MaxPrinted[s]
    /\ printed' = [printed EXCEPT ![s] = @ + 1]
    /\ UNCHANGED <<present, file, thread, moves, store, pass, troubles, slid, spoilt>>

\* The daemon's matching changes; a session and the one that resumed it may
\* be matched with one file.
Match(s, f) ==
    /\ moves < MaxMoves /\ s \in Agents \intersect present /\ thread[s] # f
    /\ thread' = [thread EXCEPT ![s] = f]
    /\ moves' = moves + 1
    /\ UNCHANGED <<present, file, printed, store, pass, troubles, slid, spoilt>>

-----------------------------------------------------------------------------

Step ==
    \/ Begin \/ (\E s \in Sessions : TakeUp(s))
    \/ Count \/ Page \/ EndCapture
    \/ Scan \/ CheckOpening \/ Resume \/ Download
    \/ AppendTranscript \/ AppendMessages \/ ReplaceTranscript \/ ReplaceMessages
    \/ Save

Trouble == CaptureFails \/ ReadFails \/ WriteFails \/ Quit

Change ==
    \/ \E f \in Files : BeginLine(f) \/ EndLine(f) \/ Rewrite(f) \/ Vanish(f)
    \/ \E s \in Sessions : PrintLine(s) \/ \E f \in Files \union {None} : Match(s, f)

Next == Step \/ Trouble \/ Change

Spec == Init /\ [][Next]_vars

\* A dashboard begins a pass when one is due, and a worker goes on with it.
FairSpec == Spec /\ WF_vars(Step)

-----------------------------------------------------------------------------
(* What the store promises *)

Holds(blob, f, version, n) ==
    \E i \in DOMAIN blob :
        /\ blob[i].of = f /\ blob[i].version = version
        /\ blob[i].from < n /\ n <= blob[i].to

\* Between two passes the file a record describes is still the one it was
\* copied from.
Describes(record) ==
    /\ record.digest # None
    /\ record.digest.version = file[record.file].version

\* Nothing a record says is mirrored is missing: every line up to its cursor
\* is in both copies, whatever failed or was cut short in between, as long as
\* the file is the one that was copied; and it is of no other conversation.
NothingMissing ==
    pass = None =>
        \A s \in Sessions :
            LET record == index[s]
            IN  /\ record.digest # None => record.digest.of = record.file
                /\ record.synced > 0 =>
                      \A i \in DOMAIN transcript[s] : transcript[s][i].of = record.file
                /\ Describes(record) =>
                      \A n \in 1 .. record.synced :
                          /\ Holds(transcript[s], record.file, record.digest.version, n)
                          /\ Holds(messages[s], record.file, record.digest.version, n)

\* A copy is the source line by line, with no line twice and none left out,
\* unless a pass that wrote to it was cut short or failed since it was last
\* taken whole, or the session printed while its log was read.
InOrder(blob) == \A i \in 2 .. Len(blob) : blob[i].from = blob[i - 1].to

CaptureIsExact(s) ==
    capture[s] # <<>> =>
        /\ InOrder(capture[s])
        /\ capture[s][Len(capture[s])].to = index[s].lines

TranscriptIsExact(s) ==
    LET blob == transcript[s]
    IN  index[s].synced > 0 /\ (index[s].digest # None => Describes(index[s])) =>
            /\ InOrder(blob) /\ InOrder(messages[s])
            /\ blob[1].from = 0 /\ blob[Len(blob)].to = index[s].synced
            /\ \A i \in DOMAIN blob : blob[i].version = blob[1].version
            /\ Describes(index[s]) => index[s].synced <= file[index[s].file].lines

CopiesAreExact ==
    pass = None =>
        \A s \in Sessions :
            /\ s \notin slid => CaptureIsExact(s)
            /\ s \notin spoilt => TranscriptIsExact(s)

\* Every whole line of the file a session is matched with comes to be in both
\* its copies, once machine and matching are quiet.
Mirrored ==
    \A s \in Agents :
        LET f == thread[s]
        IN  f # None /\ file[f].there =>
               \A n \in 1 .. file[f].lines :
                   /\ Holds(transcript[s], f, file[f].version, n)
                   /\ Holds(messages[s], f, file[f].version, n)
EveryLineIsMirrored == []<>Mirrored

=============================================================================
