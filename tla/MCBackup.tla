------------------------------ MODULE MCBackup ------------------------------
(***************************************************************************)
(* Instances of Backup: the sessions, what they print, what may go wrong.  *)
(***************************************************************************)
EXTENDS Backup

CONSTANTS shell, agent, other, old, new

OneAgent  == {agent}
WithShell == {shell, agent}
TwoAgents == {agent, other}
OneFile   == {new}
TwoFiles  == {old, new}
Prints    == [s \in Sessions |-> IF s = shell THEN 3 ELSE 0]
Begun     == [f \in Files |-> IF f = old THEN 1 ELSE 0]
Lengths   == [f \in Files |-> IF f = old THEN 1 ELSE 2]
BothAgents == {{agent, other}}
EitherOne == {{shell}, {agent}}
NoFault   == {}
Cut       == {"cut"}
WhenMoved == {"quit as a pairing moves"}

-----------------------------------------------------------------------------
(* What the code's comments say, and its steps do not keep. *)

\* backup.rs:855-857, the capture: "only the delta beyond `ansi_lines_synced`
\* is transferred", so what was copied is the log.
CaptureIsTheLog == pass = None => \A s \in Sessions : CaptureIsExact(s)

\* backup.rs:58, the transcript: "mirrored byte for byte".
TranscriptIsTheFile == pass = None => \A s \in Sessions : TranscriptIsExact(s)

\* backup.rs:1124: "transcript vanished; leave prior backup intact".
GoneIsKept ==
    [][\A s \in Sessions :
          index[s].file # None /\ ~file[index[s].file].there /\ transcript[s] # <<>>
          => transcript'[s] # <<>>]_transcript

\* backup.rs:1204-1207: two sessions that nobody could match with a file never
\* come to share one.
NoSharedHistory ==
    pass = None =>
        \A s, t \in Sessions :
            s # t /\ index[s].file # None => index[s].file # index[t].file

=============================================================================
