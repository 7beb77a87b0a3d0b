----------------------------- MODULE FileTransfer -----------------------------
(***************************************************************************)
(* What the transfer of a file promises, whatever becomes of connections:  *)
(* the stored file grows by the chunk that comes next and by nothing else, *)
(* it is handed over when it is complete, and the browser reports it as    *)
(* finished only when the app backend has accepted it.                     *)
(***************************************************************************)
EXTENDS Naturals, Sequences

CONSTANT Total  \* the number of chunks of the file

VARIABLES
  file,   \* the positions of the chunks that are stored
  phase,  \* "open", "handed", "accepted" or "failed"
  told    \* the browser has reported the upload as finished

fileVars == <<file, phase, told>>

FileInit == file = <<>> /\ phase = "open" /\ ~told

\* Chunks are counted from 0, so the next one is the number of those stored.
StoreNext == /\ phase = "open" /\ Len(file) < Total
             /\ file' = Append(file, Len(file))
             /\ UNCHANGED <<phase, told>>

HandFileOver == /\ phase = "open" /\ Len(file) = Total
                /\ phase' = "handed"
                /\ UNCHANGED <<file, told>>

AcceptFile == /\ phase = "handed"
              /\ phase' = "accepted"
              /\ UNCHANGED <<file, told>>

FailTransfer == /\ phase \in {"open", "handed"}
                /\ phase' = "failed"
                /\ UNCHANGED <<file, told>>

TellFinished == /\ phase = "accepted"
                /\ told' = TRUE
                /\ UNCHANGED <<file, phase>>

FileNext == StoreNext \/ HandFileOver \/ AcceptFile \/ FailTransfer \/ TellFinished

FileSpec == FileInit /\ [][FileNext]_fileVars

=============================================================================
