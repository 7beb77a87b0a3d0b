----------------------------- MODULE UploadClaims -----------------------------
(***************************************************************************)
(* What the documentation and the comments say of an upload and the code   *)
(* does not do.  Each claim has a configuration of its own, in which TLC   *)
(* finds a behaviour of UploadServer that contradicts it.                  *)
(***************************************************************************)
EXTENDS UploadServer

\* "Make sure [...] that calls to ResetTimeout return" (to_local_file.go:638).
\* Every resetTimeout returns.  It does not when the timer has fired and its
\* goroutine waits for u.lock, which the caller of resetTimeout holds.
ResetsReturn == \A t \in Threads : pc[t] = "reset" ~> pc[t] # "reset"

\* "How long can an upload be idle before it is automatically cancelled"
\* (incoming_cfg.yaml:23).  The timer fires only for an upload that has been
\* idle; it also fires on the old tick when a reset was taken after the expiry.
OnlyIdleUploadsExpire ==
  [][pc[Timer] = "select" /\ pc'[Timer] = "fired" => ~armed]_server

\* "How long [...] should Incoming!! assume the upload cancelled and delete the
\* file" (incoming_cfg.yaml:37).  When the handover has failed the file is gone;
\* the handover goroutine sets "cancelled" before it calls Cancel, which then
\* refuses and leaves the file.
FailedHandoverDeletesFile ==
  pc[Handover] = "ended" /\ HandoverFailed => disk \in {"none", "taken"}

\* "If handover is not successful, the returned error object is not nil, and
\* the upload's state is cancelled" (upload.go:100).  An answered handover ends;
\* a reply of fewer than four bytes takes the whole process down.
AnsweredHandoverEnds == pc[Handover] = "reply" ~> waitClosed

=============================================================================
