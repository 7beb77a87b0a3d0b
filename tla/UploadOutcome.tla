---------------------------- MODULE UploadOutcome ----------------------------
(***************************************************************************)
(* What one upload promises the app backend, whatever connections,         *)
(* requests and timeouts do in the meantime (upload/upload.go, Uploader):  *)
(* it ends once; the backend hears of it at most once, either of the file  *)
(* or of the cancellation; an upload whose file the backend has accepted   *)
(* is never cancelled; and it is cleaned up once, after it has ended.      *)
(***************************************************************************)

VARIABLES
  phase,     \* "open", "handing", "finished" or "cancelled"
  told,      \* what the app backend has been sent: "nothing", "file", "cancelled"
  accepted,  \* the app backend has said that it has the file
  gone       \* the upload has been cleaned up

outcomeVars == <<phase, told, accepted, gone>>

OutcomeInit == phase = "open" /\ told = "nothing" /\ ~accepted /\ ~gone

Ended == phase \in {"finished", "cancelled"}

StartHandover == /\ phase = "open"
                 /\ phase' = "handing"
                 /\ UNCHANGED <<told, accepted, gone>>

TellFile == /\ phase = "handing" /\ told = "nothing"
            /\ told' = "file"
            /\ UNCHANGED <<phase, accepted, gone>>

Accept == /\ phase = "handing" /\ told = "file"
          /\ accepted' = TRUE
          /\ UNCHANGED <<phase, told, gone>>

Finish == /\ phase = "handing" /\ accepted
          /\ phase' = "finished"
          /\ UNCHANGED <<told, accepted, gone>>

\* The backend refused the file, answered nothing useful, or not in time.
HandoverFails == /\ phase = "handing" /\ told = "file" /\ ~accepted
                 /\ phase' = "cancelled"
                 /\ UNCHANGED <<told, accepted, gone>>

CancelUpload == /\ phase = "open"
                /\ phase' = "cancelled"
                /\ UNCHANGED <<told, accepted, gone>>

\* May come after the clean-up: another thread may clean up first.
TellCancelled == /\ phase = "cancelled" /\ told = "nothing"
                 /\ told' = "cancelled"
                 /\ UNCHANGED <<phase, accepted, gone>>

Forget == /\ Ended /\ ~gone
          /\ gone' = TRUE
          /\ UNCHANGED <<phase, told, accepted>>

OutcomeNext == \/ StartHandover \/ TellFile \/ Accept \/ Finish \/ HandoverFails
               \/ CancelUpload \/ TellCancelled \/ Forget

OutcomeSpec == OutcomeInit /\ [][OutcomeNext]_outcomeVars

=============================================================================
