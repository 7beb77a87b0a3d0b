------------------------------ MODULE UploadLife ------------------------------
(***************************************************************************)
(* The life of one upload as its two ends see it: what is received only    *)
(* grows, up to the declared size; a file is handed over when all of it    *)
(* has been received and at no other time; an upload that was handed over  *)
(* or has failed receives nothing more; and "finished" is only said of a   *)
(* file that the app backend has accepted.  It says how much was received  *)
(* and not what (that is FileTransfer), so it also holds of connections    *)
(* that follow no protocol.  UploadServer implements it with all its       *)
(* threads, and Transfer with its sessions: the sessions there may do to   *)
(* an upload what the threads here do.                                     *)
(***************************************************************************)
EXTENDS Integers

VARIABLES
  size,      \* of the file, as the browser has declared it
  received,  \* how much of it is stored
  phase,     \* "open", "handed", "accepted" or "failed"
  told       \* the browser has been told that the upload is finished

lifeVars == <<size, received, phase, told>>

LifeInit == size \in Int /\ received = 0 /\ phase = "open" /\ ~told

Declare == /\ phase = "open" /\ received = 0
           /\ size' \in Int
           /\ UNCHANGED <<received, phase, told>>

Receive == /\ phase = "open"
           /\ received' \in received + 1..size
           /\ UNCHANGED <<size, phase, told>>

HandOver == /\ phase = "open" /\ received = size
            /\ phase' = "handed"
            /\ UNCHANGED <<size, received, told>>

BackendAccepts == /\ phase = "handed"
                  /\ phase' = "accepted"
                  /\ UNCHANGED <<size, received, told>>

Fail == /\ phase \in {"open", "handed"}
        /\ phase' = "failed"
        /\ UNCHANGED <<size, received, told>>

TellBrowser == /\ phase = "accepted"
               /\ told' = TRUE
               /\ UNCHANGED <<size, received, phase>>

LifeNext == \/ Declare \/ Receive \/ HandOver
            \/ BackendAccepts \/ Fail \/ TellBrowser

LifeSpec == LifeInit /\ [][LifeNext]_lifeVars

=============================================================================
