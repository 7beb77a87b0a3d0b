---------------------------- MODULE TransferClaims ----------------------------
(***************************************************************************)
(* What the documentation says of an upload as the browser sees it and the *)
(* code does not do.  Each claim has a configuration of its own, in which  *)
(* TLC finds a behaviour of Transfer that contradicts it.                  *)
(***************************************************************************)
EXTENDS Transfer

\* "It chops up a large file into little pieces, transfers those over to its own
\* server application, which puts them together [...] explicit pause / resume is
\* also supported" (README.md:4).  The stored chunks are those of the file, in order.
\* They are not when the user unpauses before the old socket has closed: the old
\* and the new connection share ws, bytes_tx and the file reader (jslib:100, 293).
StoredInOrder == \A i \in DOMAIN stored : stored[i] = i - 1

\* "finished - true if upload is finished, i.e., it has successfully been handed
\* over", "cancelled - true if the upload has been cancelled" (doc/api.md:71, 75): not
\* both.  start() allows a cancel that the server never hears of, and goes on.
FinishedOrCancelled == ~(js.finished /\ js.cancelled)

=============================================================================
