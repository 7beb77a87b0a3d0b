-------------------------- MODULE UploadPromiseProofs --------------------------
(***************************************************************************)
(* The server keeps the promise of UploadOutcome for every number of       *)
(* connections and requests.                                               *)
(*                                                                         *)
(* The argument: before a handover has started nothing has been sent; the  *)
(* state decides, under one lock, between one thread that cancels and the  *)
(* one that starts the handover goroutine; whoever may still send a        *)
(* request holds that decision, so it is alone; and the handover           *)
(* goroutine, which sets the end state without looking, is the only one    *)
(* that can leave the handing over state.                                  *)
(***************************************************************************)
EXTENDS UploadServerProofs

NothingSent == posts.handed = 0 /\ posts.cancelled = 0

\* Thread t has cancelled and will tell the app backend.
Telling(t) == pc[t] = "tell" \/ (pc[t] = "reset" /\ after[t] = "tell")

\* The handover goroutine is at a label, or in the reset before it.
HandoverAt(label) == \/ pc[Handover] = label
                     \/ pc[Handover] = "reset" /\ after[Handover] = label

StateInv == /\ state <= StateHandingOver <=> outcome = "open"
            /\ state < StateHandingOver => NothingSent /\ ~accepted
            /\ state = StateFinished => outcome = "finished"
            /\ posts.handed + posts.cancelled <= 1

AcceptInv == /\ outcome = "finished" => accepted
             /\ accepted => outcome # "cancelled"
             /\ allDone => outcome = "finished"

TellInv == /\ \A t \in Threads : Telling(t) => outcome = "cancelled" /\ NothingSent
           /\ \A s, t \in Threads : Telling(s) /\ Telling(t) => s = t

\* What the handover goroutine may rely on, by where it is.
ToAnnounce == state = StateHandingOver /\ NothingSent /\ ~accepted
Announced == state = StateHandingOver /\ posts.handed = 1 /\ posts.cancelled = 0

HandoverInv ==
  /\ \A l \in {"announce", "post"} : HandoverAt(l) => ToAnnounce
  /\ \A l \in {"posted", "await", "fail", "panic"} :
       HandoverAt(l) => Announced /\ ~accepted
  /\ \A l \in {"confirmed", "finish"} : HandoverAt(l) => Announced /\ accepted
  /\ HandoverAt("reply") =>
       /\ Announced
       /\ \/ after[Handover] = "finish" /\ accepted
          \/ after[Handover] \in {"await", "fail", "panic"} /\ ~accepted

PromiseInv == StateInv /\ AcceptInv /\ TellInv /\ HandoverInv

-----------------------------------------------------------------------------
(* What each step is shown to do.                                            *)

Promised == /\ PromiseInv'
            /\ [Outcome!OutcomeNext]_(Outcome!outcomeVars)
            /\ outcome # "open" => outcome' = outcome

\* Most steps are quiet: they move a thread that is not the handover goroutine,
\* tell nobody, and change the state at most within the states before handover.
NobodyStartsTelling == \A t \in Threads : Telling(t)' => Telling(t)

QuietControl == /\ pc'[Handover] = pc[Handover]
                /\ after'[Handover] = after[Handover]
                /\ NobodyStartsTelling

QuietData == /\ state' = state \/ (state < StateHandingOver /\ state' < StateHandingOver)
             /\ UNCHANGED <<posts, outcome, accepted>>
             /\ allDone' => allDone \/ state = StateFinished

LEMMA QuietDataPromised ==
  ASSUME TypeInv, TypeInv', PromiseInv, QuietData, NobodyStartsTelling, HandoverInv'
  PROVE  Promised
<1> USE DEF PromiseInv
<1>1. /\ state \in 0..6 /\ state' \in 0..6
      BY DEF TypeInv, NumbersOK, StateInit, StateCleanedUp
<1>2. StateInv'
      BY <1>1 DEF QuietData, StateInv, NothingSent, StateHandingOver, StateFinished
<1>3. AcceptInv'
      BY DEF QuietData, StateInv, AcceptInv
<1>4. TellInv'
      BY DEF QuietData, NobodyStartsTelling, TellInv, NothingSent
<1>5. UNCHANGED Outcome!outcomeVars
  <2>1. Phase' = Phase
        BY <1>1 DEF QuietData, Phase, StateInv, StateHandingOver
  <2>2. Told' = Told
        BY DEF QuietData, Told
  <2>3. (state = StateCleanedUp)' = (state = StateCleanedUp)
        BY <1>1 DEF QuietData, StateHandingOver, StateCleanedUp
  <2>4. QED
        BY <2>1, <2>2, <2>3 DEF QuietData, Outcome!outcomeVars
<1>6. QED
      BY <1>2, <1>3, <1>4, <1>5 DEF Promised, QuietData

LEMMA QuietPromised ==
  ASSUME TypeInv, TypeInv', PromiseInv, QuietControl, QuietData
  PROVE  Promised
<1>1. /\ state \in 0..6 /\ state' \in 0..6
      BY DEF TypeInv, NumbersOK, StateInit, StateCleanedUp
<1>2. state = StateHandingOver => state' = StateHandingOver
      BY <1>1 DEF QuietData, StateHandingOver
<1>3. \A l : HandoverAt(l)' <=> HandoverAt(l)
      BY DEF QuietControl, HandoverAt
<1>4. UNCHANGED <<posts, accepted, after[Handover]>>
      BY DEF QuietData, QuietControl
<1>5. HandoverInv'
      BY <1>2, <1>3, <1>4
      DEF PromiseInv, HandoverInv, ToAnnounce, Announced, NothingSent
<1>6. QED
      BY <1>5, QuietDataPromised DEF QuietControl

LEMMA GotoQuiet ==
  ASSUME ControlOK, NEW t \in Threads \ {Handover}, NEW label \in Labels \ {"tell", "reset"}
  PROVE  /\ Goto(t, label) => QuietControl
         /\ KeepLock(t, label) => QuietControl
<1>1. Handover \in Threads
      BY DEF Threads
<1>2. ASSUME Goto(t, label)
      PROVE  QuietControl
  <2>1. /\ pc'[Handover] = pc[Handover] /\ after' = after
        /\ \A s \in Threads \ {t} : pc'[s] = pc[s]
        /\ pc'[t] = label
        BY <1>1, <1>2 DEF ControlOK, Goto
  <2>2. QED
        BY <2>1 DEF QuietControl, NobodyStartsTelling, Telling
<1>3. ASSUME KeepLock(t, label)
      PROVE  QuietControl
  <2>1. /\ pc'[Handover] = pc[Handover] /\ after'[Handover] = after[Handover]
        /\ \A s \in Threads \ {t} : pc'[s] = pc[s] /\ after'[s] = after[s]
        /\ pc'[t] = "reset" /\ after'[t] = label
        BY <1>1, <1>3 DEF ControlOK, KeepLock
  <2>2. QED
        BY <2>1 DEF QuietControl, NobodyStartsTelling, Telling
<1>4. QED
      BY <1>2, <1>3

LEMMA ResetQuiet ==
  ASSUME ControlOK, NEW t \in Threads \ {Handover}, ResetTimeout(t)
  PROVE  QuietControl
<1>1. Handover \in Threads
      BY DEF Threads
<1>2. QED
      BY <1>1 DEF ControlOK, ResetTimeout, QuietControl, NobodyStartsTelling,
                  Telling

-----------------------------------------------------------------------------
(* The steps that are not quiet.                                             *)

LEMMA StateRange == TypeInv => state \in 0..6 /\ posts.handed \in Nat /\ posts.cancelled \in Nat
BY DEF TypeInv, NumbersOK, CountersOK, StateInit, StateCleanedUp

\* The labels at which the handover goroutine relies on the state.
Holding == {"announce", "post", "posted", "reply", "await", "fail", "panic",
            "confirmed", "finish"}

LEMMA NoHandoverElsewhere ==
  ASSUME HandoverInv, state # StateHandingOver
  PROVE  \A l \in Holding : ~HandoverAt(l)
BY DEF HandoverInv, ToAnnounce, Announced, Holding

LEMMA NoHandoverHolds ==
  ASSUME \A l \in Holding : ~HandoverAt(l)
  PROVE  HandoverInv
BY DEF HandoverInv, Holding

\* Whoever cancels does so before the handover, and alone.
LEMMA CancelPromised ==
  ASSUME TypeInv, TypeInv', PromiseInv, UNCHANGED allDone,
         NEW t \in Threads, NEW tellApp \in BOOLEAN, t = Handover => ~tellApp,
         NEW ok \in Labels \ ({"tell", "reset"} \cup Holding),
         NEW failed \in Labels \ ({"tell", "reset"} \cup Holding),
         Cancel(t, tellApp, ok, failed)
  PROVE  Promised
<1> USE DEF PromiseInv
<1>1. CASE ~MayCancel
  <2>1. Goto(t, failed) /\ UNCHANGED <<state, outcome, posts, accepted>>
        BY <1>1 DEF Cancel
  <2>2. CASE t # Handover
    <3>1. QuietControl
          BY <2>1, <2>2, GotoQuiet DEF TypeInv
    <3>2. QED
          BY <2>1, <3>1, QuietPromised DEF QuietData
  <2>3. CASE t = Handover
    <3>1. pc' = [pc EXCEPT ![Handover] = failed] /\ UNCHANGED after
          BY <2>1, <2>3 DEF Goto
    <3>2. pc'[Handover] = failed /\ \A s \in Threads \ {Handover} : pc'[s] = pc[s]
          BY <2>3, <3>1 DEF TypeInv, ControlOK
    <3>3. NobodyStartsTelling
          BY <3>1, <3>2 DEF NobodyStartsTelling, Telling
    <3>4. HandoverInv'
          BY <3>1, <3>2, NoHandoverHolds DEF HandoverInv, HandoverAt, Holding
    <3>5. QED
          BY <2>1, <3>3, <3>4, QuietDataPromised DEF QuietData
  <2>4. QED
        BY <2>2, <2>3
<1>2. CASE MayCancel
  <2> DEFINE next == IF tellApp /\ state # StateCancelled THEN "tell" ELSE ok
  <2>1. /\ state < StateHandingOver /\ state' = StateCancelled
        /\ outcome' = "cancelled" /\ UNCHANGED <<posts, accepted>>
        BY <1>2 DEF Cancel, MayCancel
  <2>2. pc'[t] = "reset" /\ after'[t] = next
        /\ \A s \in Threads \ {t} : pc'[s] = pc[s] /\ after'[s] = after[s]
        BY <1>2 DEF Cancel, KeepLock, TypeInv, ControlOK
  <2>3. NothingSent /\ ~accepted /\ outcome = "open"
        BY <2>1, StateRange DEF StateInv, StateHandingOver
  <2>4. \A s \in Threads : ~Telling(s)
        BY <2>3 DEF TellInv
  <2>5. \A s \in Threads : Telling(s)' => s = t
        BY <2>2, <2>4 DEF Telling
  <2>6. StateInv'
        BY <2>1, <2>3 DEF StateInv, NothingSent, StateHandingOver, StateCancelled,
                          StateFinished
  <2>7. AcceptInv'
        BY <2>1, <2>3 DEF AcceptInv
  <2>8. TellInv'
        BY <2>1, <2>3, <2>5 DEF TellInv, NothingSent
  <2>9. HandoverInv'
    <3>1. \A l \in Holding : ~HandoverAt(l)
          BY <2>1, NoHandoverElsewhere DEF StateHandingOver
    <3>2. \A l \in Holding : ~HandoverAt(l)'
      <4>1. CASE t = Handover
            BY <2>2, <4>1 DEF HandoverAt, Holding
      <4>2. CASE t # Handover
            BY <2>2, <3>1, <4>2 DEF HandoverAt, Threads
      <4>3. QED
            BY <4>1, <4>2
    <3>3. QED
          BY <3>2 DEF HandoverInv, Holding
  <2>10. Outcome!CancelUpload
        BY <2>1, <2>3, StateRange
        DEF Outcome!CancelUpload, Phase, Told, StateHandingOver, StateCancelled,
            StateCleanedUp
  <2>11. QED
        BY <2>3, <2>6, <2>7, <2>8, <2>9, <2>10 DEF Promised, Outcome!OutcomeNext
<1>3. QED
      BY <1>1, <1>2

\* The one thread that has cancelled tells the app backend.
LEMMA CancelTellPromised ==
  ASSUME TypeInv, TypeInv', PromiseInv, UNCHANGED allDone,
         NEW t \in Threads \ {Handover}, CancelTell(t)
  PROVE  Promised
<1> USE DEF PromiseInv
<1>1. Telling(t)
      BY DEF CancelTell, Telling
<1>2. outcome = "cancelled" /\ NothingSent
      BY <1>1 DEF TellInv
<1>3. /\ posts'.handed = 0 /\ posts'.cancelled = 1
      /\ UNCHANGED <<state, outcome, accepted>>
  <2>1. posts' = [posts EXCEPT !.cancelled = @ + 1]
        BY DEF CancelTell
  <2>2. posts'.handed = 0 /\ posts'.cancelled = 1
        BY <1>2, <2>1 DEF NothingSent, TypeInv, CountersOK
  <2>3. QED
        BY <2>2 DEF CancelTell, history
<1>4. /\ pc'[t] = "told" /\ after' = after
      /\ \A s \in Threads \ {t} : pc'[s] = pc[s]
      BY DEF CancelTell, Goto, TypeInv, ControlOK
<1>5. \A s \in Threads : ~Telling(s)'
      BY <1>1, <1>4 DEF TellInv, Telling
<1>6. state > StateHandingOver
      BY <1>2, StateRange DEF StateInv, StateHandingOver
<1>7. StateInv'
      BY <1>2, <1>3, <1>6, StateRange DEF StateInv, StateHandingOver
<1>8. AcceptInv' /\ TellInv'
      BY <1>3, <1>5 DEF AcceptInv, TellInv
<1>9. HandoverInv'
  <2>1. \A l \in Holding : ~HandoverAt(l)
        BY <1>6, NoHandoverElsewhere, StateRange DEF StateHandingOver
  <2>2. \A l \in Holding : ~HandoverAt(l)'
        BY <1>4, <2>1 DEF HandoverAt, Threads
  <2>3. QED
        BY <2>2 DEF HandoverInv, Holding
<1>10. Outcome!TellCancelled
      BY <1>2, <1>3, <1>6, StateRange
      DEF Outcome!TellCancelled, Phase, Told, NothingSent, StateHandingOver
<1>11. QED
      BY <1>3, <1>7, <1>8, <1>9, <1>10 DEF Promised, Outcome!OutcomeNext

\* Cleaning up comes after the end and changes nothing about it.
LEMMA CleanUpPromised ==
  ASSUME TypeInv, TypeInv', PromiseInv, UNCHANGED allDone,
         NEW t \in Threads \ {Handover}, NEW next \in Labels \ {"tell", "reset"},
         CleanUp(t, next)
  PROVE  Promised
<1> USE DEF PromiseInv
<1>1. QuietControl
      BY GotoQuiet DEF CleanUp, TypeInv
<1>2. UNCHANGED <<posts, outcome, accepted>>
      BY DEF CleanUp, history
<1>3. CASE ~MayCleanUp
  <2>1. QuietData
        BY <1>2, <1>3 DEF CleanUp, QuietData
  <2>2. QED
        BY <1>1, <2>1, QuietPromised
<1>4. CASE MayCleanUp
  <2>1. /\ state > StateHandingOver /\ state # StateCleanedUp
        /\ state' = StateCleanedUp
        BY <1>4 DEF CleanUp, MayCleanUp
  <2>2. StateInv'
        BY <1>2, <2>1, StateRange
        DEF StateInv, StateHandingOver, StateCleanedUp, StateFinished
  <2>3. AcceptInv' /\ TellInv'
        BY <1>1, <1>2 DEF AcceptInv, TellInv, NothingSent, QuietControl, NobodyStartsTelling
  <2>4. HandoverInv'
    <3>1. \A l \in Holding : ~HandoverAt(l)
          BY <2>1, NoHandoverElsewhere, StateRange DEF StateHandingOver
    <3>2. \A l \in Holding : ~HandoverAt(l)'
          BY <1>1, <3>1 DEF HandoverAt, QuietControl
    <3>3. QED
          BY <3>2 DEF HandoverInv, Holding
  <2>5. outcome \in {"finished", "cancelled"}
    <3>1. outcome # "open"
          BY <2>1, StateRange DEF StateInv, StateHandingOver
    <3>2. QED
          BY <3>1 DEF TypeInv, FlagsOK, NamesOK
  <2>6. Outcome!Forget
        BY <1>2, <2>1, <2>5, StateRange
        DEF Outcome!Forget, Outcome!Ended, Phase, Told, StateHandingOver, StateCleanedUp
  <2>7. QED
        BY <1>2, <2>2, <2>3, <2>4, <2>6 DEF Promised, Outcome!OutcomeNext
<1>5. QED
      BY <1>3, <1>4

\* The process ends: nobody is left to send anything.
LEMMA ProcessDiesPromised ==
  ASSUME TypeInv, TypeInv', PromiseInv, UNCHANGED allDone, ProcessDies
  PROVE  Promised
<1>1. \A t \in Threads : pc'[t] = "dead"
      BY DEF ProcessDies
<1>2. NobodyStartsTelling
      BY <1>1 DEF NobodyStartsTelling, Telling
<1>3. \A l \in Holding : ~HandoverAt(l)'
      BY <1>1 DEF HandoverAt, Holding, Threads
<1>4. HandoverInv'
      BY <1>3 DEF HandoverInv, Holding
<1>5. QuietData
      BY DEF ProcessDies, QuietData, history
<1>6. QED
      BY <1>2, <1>4, <1>5, QuietDataPromised

\* The decision to hand over, which no cancellation can follow.
LEMMA HandFileToAppPromised ==
  ASSUME TypeInv, TypeInv', PromiseInv, UNCHANGED allDone,
         NEW h \in Threads \ {Handover}, HandFileToApp(h)
  PROVE  Promised
<1> USE DEF PromiseInv
<1>1. UNCHANGED <<posts, outcome, accepted>>
      BY DEF HandFileToApp, history
<1>2. CASE pc[h] = "handover" \/ ~MayHandOver
  <2>1. QuietControl
    <3>1. {"start handover", "wait"} \subseteq Labels \ {"tell", "reset"}
          BY DEF Labels, SessionLabels
    <3>2. Goto(h, "start handover") \/ Goto(h, "wait")
          BY <1>2 DEF HandFileToApp
    <3>3. QED
          BY <3>1, <3>2, GotoQuiet DEF TypeInv
  <2>2. UNCHANGED state
        BY <1>2 DEF HandFileToApp
  <2>3. QED
        BY <1>1, <2>1, <2>2, QuietPromised DEF QuietData
<1>3. CASE pc[h] # "handover" /\ MayHandOver
  <2>1. state < StateHandingOver /\ state' = StateHandingOver
        BY <1>3 DEF HandFileToApp, MayHandOver
  <2>2. NothingSent /\ ~accepted /\ outcome = "open"
        BY <2>1, StateRange DEF StateInv, StateHandingOver
  <2>3. /\ pc'[Handover] = "announce" /\ pc'[h] = "wait" /\ after' = after
        /\ \A s \in Threads \ {h, Handover} : pc'[s] = pc[s]
        BY <1>3 DEF HandFileToApp, TypeInv, ControlOK, Threads
  <2>4. NobodyStartsTelling
        BY <2>3 DEF NobodyStartsTelling, Telling
  <2>5. StateInv'
        BY <1>1, <2>1, <2>2 DEF StateInv, NothingSent, StateHandingOver, StateFinished
  <2>6. AcceptInv' /\ TellInv'
        BY <1>1, <2>2, <2>4 DEF AcceptInv, TellInv, NothingSent, NobodyStartsTelling
  <2>7. HandoverInv'
    <3>1. ToAnnounce'
          BY <1>1, <2>1, <2>2 DEF ToAnnounce, NothingSent
    <3>2. \A l : HandoverAt(l)' => l = "announce"
          BY <2>3 DEF HandoverAt
    <3>3. QED
          BY <3>1, <3>2 DEF HandoverInv
  <2>8. Outcome!StartHandover
        BY <1>1, <2>1, <2>2, StateRange
        DEF Outcome!StartHandover, Phase, Told, StateHandingOver, StateCleanedUp
  <2>9. QED
        BY <1>1, <2>5, <2>6, <2>7, <2>8 DEF Promised, Outcome!OutcomeNext
<1>4. QED
      BY <1>2, <1>3

\* After the end the handover goroutine gives its result away and relies on
\* nothing.
LEMMA HandoverDeliversPromised ==
  ASSUME TypeInv, TypeInv', PromiseInv, UNCHANGED allDone,
         NEW h \in Threads \ {Handover}, NEW label,
         NEW next \in Labels \ {"tell", "reset"}, HandoverDelivers(h, label, next)
  PROVE  Promised
<1>1. /\ pc'[Handover] = "ended" /\ pc'[h] = next /\ after' = after
      /\ \A s \in Threads \ {h, Handover} : pc'[s] = pc[s]
      BY DEF HandoverDelivers, TypeInv, ControlOK, Threads
<1>2. NobodyStartsTelling
      BY <1>1 DEF NobodyStartsTelling, Telling
<1>3. HandoverInv'
  <2>1. \A l \in Holding : ~HandoverAt(l)'
        BY <1>1 DEF HandoverAt, Holding
  <2>2. QED
        BY <2>1 DEF HandoverInv, Holding
<1>4. QuietData
      BY DEF HandoverDelivers, QuietData, history
<1>5. QED
      BY <1>2, <1>3, <1>4, QuietDataPromised

\* The backend's finish_upload request meets the waiting handover goroutine.
LEMMA HandoverConfirmedPromised ==
  ASSUME TypeInv, TypeInv', PromiseInv, UNCHANGED allDone,
         NEW f \in Threads \ {Handover}, NEW ok \in Labels \ {"tell", "reset"},
         HandoverConfirmed(f, ok)
  PROVE  Promised
<1> USE DEF PromiseInv
<1>1. /\ pc'[Handover] = "confirmed" /\ pc'[f] = ok /\ after' = after
      /\ \A s \in Threads \ {f, Handover} : pc'[s] = pc[s]
      BY DEF HandoverConfirmed, TypeInv, ControlOK, Threads
<1>2. NobodyStartsTelling
      BY <1>1 DEF NobodyStartsTelling, Telling
<1>3. UNCHANGED <<state, posts, outcome>> /\ accepted'
      BY DEF HandoverConfirmed
<1>4. Announced /\ outcome = "open"
  <2>1. HandoverAt("await")
        BY DEF HandoverConfirmed, HandoverAt
  <2>2. Announced
        BY <2>1 DEF HandoverInv
  <2>3. QED
        BY <2>2 DEF Announced, StateInv, StateHandingOver
<1>5. StateInv'
      BY <1>3, <1>4 DEF StateInv, Announced, StateHandingOver, StateFinished
<1>6. AcceptInv' /\ TellInv'
      BY <1>2, <1>3, <1>4 DEF AcceptInv, TellInv, NothingSent, NobodyStartsTelling
<1>7. HandoverInv'
  <2>1. Announced' /\ accepted'
        BY <1>3, <1>4 DEF Announced
  <2>2. \A l : HandoverAt(l)' => l = "confirmed"
        BY <1>1 DEF HandoverAt
  <2>3. QED
        BY <2>1, <2>2 DEF HandoverInv
<1>8. Outcome!Accept
      BY <1>3, <1>4
      DEF Outcome!Accept, Phase, Told, Announced, StateHandingOver, StateCleanedUp
<1>9. QED
      BY <1>3, <1>5, <1>6, <1>7, <1>8 DEF Promised, Outcome!OutcomeNext

-----------------------------------------------------------------------------
(* The threads other than the handover goroutine.                            *)

LEMMA StepPromised ==
  ASSUME TypeInv, TypeInv', PromiseInv, NEW t \in Threads \ {Handover}, NEW from,
         NEW next \in Labels \ {"tell", "reset"}, Step(t, from, next),
         allDone' => allDone \/ state = StateFinished
  PROVE  Promised
<1>1. QuietControl
      BY GotoQuiet DEF Step, TypeInv
<1>2. QuietData
      BY DEF Step, QuietData, history
<1>3. QED
      BY <1>1, <1>2, QuietPromised

LEMMA LockToResetPromised ==
  ASSUME TypeInv, TypeInv', PromiseInv, UNCHANGED allDone,
         NEW t \in Threads \ {Handover}, NEW from,
         NEW next \in Labels \ {"tell", "reset"}, LockToReset(t, from, next)
  PROVE  Promised
<1>1. QuietControl
      BY GotoQuiet DEF LockToReset, TypeInv
<1>2. QuietData
      BY DEF LockToReset, QuietData, history
<1>3. QED
      BY <1>1, <1>2, QuietPromised

LEMMA ResetTimeoutPromised ==
  ASSUME TypeInv, TypeInv', PromiseInv, UNCHANGED allDone,
         NEW t \in Threads \ {Handover}, ResetTimeout(t)
  PROVE  Promised
<1>1. QuietControl
      BY ResetQuiet DEF TypeInv
<1>2. QuietData
      BY DEF ResetTimeout, QuietData, history
<1>3. QED
      BY <1>1, <1>2, QuietPromised

LEMMA ChunkPromised ==
  ASSUME TypeInv, TypeInv', PromiseInv, UNCHANGED allDone,
         NEW h \in Threads \ {Handover}, NEW n, ConsumeFileChunk(h, n, "loop", "chunkErr")
  PROVE  Promised
<1>1. QuietControl
  <2>1. KeepLock(h, "loop") \/ KeepLock(h, "chunkErr")
        BY DEF ConsumeFileChunk, ChunkRefused, OpenFails, ChunkNotWritten, ChunkWritten
  <2>2. {"loop", "chunkErr"} \subseteq Labels \ {"tell", "reset"}
        BY DEF Labels, SessionLabels
  <2>3. QED
        BY <2>1, <2>2, GotoQuiet DEF TypeInv
<1>2. QuietData
  <2>1. state' = state \/ (state <= StatePaused /\ state' = StateUploading)
        BY DEF ConsumeFileChunk, ChunkRefused, OpenFails, ChunkNotWritten,
               ChunkWritten, MayConsume
  <2>2. state' = state \/ (state < StateHandingOver /\ state' < StateHandingOver)
        BY <2>1, StateRange DEF StatePaused, StateUploading, StateHandingOver
  <2>3. QED
        BY <2>2 DEF QuietData, ConsumeFileChunk, history
<1>3. QED
      BY <1>1, <1>2, QuietPromised

LEMMA HandlerPromised ==
  ASSUME TypeInv, TypeInv', PromiseInv, NEW h \in Handlers, WebsocketHandler(h)
  PROVE  Promised
<1> h \in Threads \ {Handover}
    BY ThreadsAssumption DEF Threads, Requests
<1> USE DEF Labels, SessionLabels
<1>1. CASE UNCHANGED allDone /\ UploadRequest(h)
      BY <1>1, StepPromised DEF UploadRequest
<1>2. CASE UNCHANGED allDone /\ Bind(h)
  <2>1. QuietControl
        BY <1>2, GotoQuiet DEF Bind, BindToSocketHandler, TypeInv
  <2>2. QED
        BY <1>2, <2>1, QuietPromised DEF Bind, BindToSocketHandler, QuietData, history
<1>3. CASE UNCHANGED allDone /\ ReadState(h)
      BY <1>3, StepPromised DEF ReadState
<1>4. CASE UNCHANGED allDone /\ DeclareSize(h)
  <2>1. QuietControl
        BY <1>4, GotoQuiet DEF DeclareSize, SetFileSize, TypeInv
  <2>2. QED
        BY <1>4, <2>1, QuietPromised DEF DeclareSize, SetFileSize, QuietData, history
<1>5. CASE UNCHANGED allDone /\ DeclareName(h)
  <2>1. QuietControl
        BY <1>5, GotoQuiet DEF DeclareName, SetFileName, TypeInv
  <2>2. QED
        BY <1>5, <2>1, QuietPromised DEF DeclareName, SetFileName, QuietData, history
<1>6. CASE UNCHANGED allDone /\ CompareSize(h)
      BY <1>6, StepPromised DEF CompareSize
<1>7. CASE UNCHANGED allDone /\ Configure(h)
      BY <1>7, StepPromised DEF Configure
<1>8. CASE UNCHANGED allDone /\ ReceivedAll(h)
      BY <1>8, StepPromised DEF ReceivedAll
<1>9. CASE UNCHANGED allDone /\ ReceiveChunk(h)
      BY <1>9, ChunkPromised DEF ReceiveChunk
<1>10. CASE UNCHANGED allDone /\ ReceivePause(h)
  <2>1. QuietControl
        BY <1>10, GotoQuiet DEF ReceivePause, Pause, TypeInv
  <2>2. state' = state \/ (state < StateHandingOver /\ state' < StateHandingOver)
        BY <1>10 DEF ReceivePause, Pause, StateUploading, StatePaused, StateHandingOver
  <2>3. QED
        BY <1>10, <2>1, <2>2, QuietPromised DEF ReceivePause, Pause, QuietData, history
<1>11. CASE UNCHANGED allDone /\ (ReceiveCancelOrError(h) \/ ReceiveFails(h))
      BY <1>11, StepPromised DEF ReceiveCancelOrError, ReceiveFails
<1>12. CASE UNCHANGED allDone /\ ChunkError(h)
      BY <1>12, StepPromised DEF ChunkError
<1>13. CASE UNCHANGED allDone /\ HandFileToApp(h)
      BY <1>13, HandFileToAppPromised
<1>14. CASE UNCHANGED allDone /\ WaitDelivered(h)
      BY <1>14, HandoverDeliversPromised DEF WaitDelivered
<1>15. CASE UNCHANGED allDone /\ (WaitClosed(h) \/ WaitIgnores(h) \/ WaitLost(h))
      BY <1>15, StepPromised DEF WaitClosed, WaitIgnores, WaitLost
<1>16. CASE UNCHANGED allDone /\ (SendError(h) \/ SendFails(h))
      BY <1>16, StepPromised DEF SendError, SendFails
<1>17. CASE UNCHANGED allDone /\ Cancel(h, TRUE, "cleanup", "cleanup")
  <2>1. "cleanup" \in Labels \ ({"tell", "reset"} \cup Holding)
        BY DEF Holding
  <2>2. QED
        BY <1>17, <2>1, CancelPromised
<1>18. CASE UNCHANGED allDone /\ CancelTell(h)
      BY <1>18, CancelTellPromised
<1>19. CASE UNCHANGED allDone /\ CancelAnswered(h)
  <2>1. Step(h, "told", "answered")
        BY <1>19 DEF CancelAnswered, Step
  <2>2. QED
        BY <1>19, <2>1, StepPromised
<1>20. CASE UNCHANGED allDone /\ CancelPanics(h)
      BY <1>20, StepPromised DEF CancelPanics
<1>21. CASE UNCHANGED allDone /\ LockToReset(h, "answered", "cleanup")
      BY <1>21, LockToResetPromised
<1>22. CASE UNCHANGED allDone /\ CleanUp(h, "unbind")
      BY <1>22, CleanUpPromised
<1>23. CASE UNCHANGED allDone /\ ResetTimeout(h)
      BY <1>23, ResetTimeoutPromised
<1>24. CASE UNCHANGED allDone /\ pc[h] = "unbind" /\ UnbindFromSocketHandler(h, "idle")
  <2>1. QuietControl
        BY <1>24, GotoQuiet DEF UnbindFromSocketHandler, TypeInv
  <2>2. QED
        BY <1>24, <2>1, QuietPromised DEF UnbindFromSocketHandler, QuietData, history
<1>25. CASE SendAllDone(h)
      BY <1>25, StepPromised DEF SendAllDone
<1>26. QED
      BY <1>1, <1>2, <1>3, <1>4, <1>5, <1>6, <1>7, <1>8, <1>9, <1>10, <1>11, <1>12,
         <1>13, <1>14, <1>15, <1>16, <1>17, <1>18, <1>19, <1>20, <1>21, <1>22,
         <1>23, <1>24, <1>25
      DEF WebsocketHandler

LEMMA CancellerPromised ==
  ASSUME TypeInv, TypeInv', PromiseInv, NEW c \in Cancellers, CancelUploadHandler(c)
  PROVE  Promised
<1> c \in Threads \ {Handover}
    BY ThreadsAssumption DEF Threads, Requests
<1> USE DEF Labels, SessionLabels
<1>0. UNCHANGED allDone
      BY DEF CancelUploadHandler
<1>1. CASE Step(c, "idle", "secret") \/ CheckSecret(c, "cancel")
      BY <1>0, <1>1, StepPromised DEF CheckSecret
<1>2. CASE Cancel(c, FALSE, "cleanup", "idle")
  <2>1. {"cleanup", "idle"} \subseteq Labels \ ({"tell", "reset"} \cup Holding)
        BY DEF Holding
  <2>2. QED
        BY <1>0, <1>2, <2>1, CancelPromised
<1>3. CASE ResetTimeout(c)
      BY <1>0, <1>3, ResetTimeoutPromised
<1>4. CASE CleanUp(c, "idle")
      BY <1>0, <1>4, CleanUpPromised
<1>5. QED
      BY <1>1, <1>2, <1>3, <1>4 DEF CancelUploadHandler

LEMMA FinisherPromised ==
  ASSUME TypeInv, TypeInv', PromiseInv, NEW f \in Finishers, FinishUploadHandler(f)
  PROVE  Promised
<1> f \in Threads \ {Handover}
    BY ThreadsAssumption DEF Threads, Requests
<1> USE DEF Labels, SessionLabels
<1>0. UNCHANGED allDone
      BY DEF FinishUploadHandler
<1>1. CASE Step(f, "idle", "secret") \/ CheckSecret(f, "signal")
      BY <1>0, <1>1, StepPromised DEF CheckSecret
<1>2. CASE HandoverDone(f, "idle") \/ HandoverDoneTimesOut(f, "idle")
  <2>1. \E from, next \in {"signal", "confirm", "idle"} : Step(f, from, next)
        BY <1>2 DEF HandoverDone, HandoverDoneTimesOut, Step
  <2>2. QED
        BY <1>0, <2>1, StepPromised
<1>3. CASE HandoverConfirmed(f, "idle")
      BY <1>0, <1>3, HandoverConfirmedPromised
<1>4. QED
      BY <1>1, <1>2, <1>3 DEF FinishUploadHandler

LEMMA TimerPromised ==
  ASSUME TypeInv, TypeInv', PromiseInv, UNCHANGED allDone, TimerExpires \/ GoHandleTimeout
  PROVE  Promised
<1> Timer \in Threads \ {Handover}
    BY ThreadsAssumption DEF Threads
<1> USE DEF Labels, SessionLabels
<1>1. CASE TimerExpires
      BY <1>1, QuietPromised
      DEF TimerExpires, QuietControl, NobodyStartsTelling, Telling, QuietData, history
<1>2. CASE TimerFires \/ TimerForbidsResets \/ TimerExits
  <2>1. \E next \in {"fired", "cancel", "exited"} : Goto(Timer, next)
        BY <1>2 DEF TimerFires, TimerForbidsResets, TimerExits
  <2>2. QuietControl
        BY <2>1, GotoQuiet DEF TypeInv
  <2>3. QED
        BY <1>2, <2>2, QuietPromised
        DEF TimerFires, TimerForbidsResets, TimerExits, QuietData, history
<1>3. CASE Cancel(Timer, TRUE, "cleanup", "cleanup")
  <2>1. "cleanup" \in Labels \ ({"tell", "reset"} \cup Holding)
        BY DEF Holding
  <2>2. QED
        BY <1>3, <2>1, CancelPromised, ThreadsAssumption
<1>4. CASE ResetTimeout(Timer)
      BY <1>4, ResetTimeoutPromised
<1>5. CASE CancelTell(Timer)
      BY <1>5, CancelTellPromised
<1>6. CASE CancelAnswered(Timer)
  <2>1. Step(Timer, "told", "answered")
        BY <1>6 DEF CancelAnswered, Step
  <2>2. QED
        BY <2>1, StepPromised
<1>7. CASE ProcessDies
      BY <1>7, ProcessDiesPromised
<1>8. CASE LockToReset(Timer, "answered", "cleanup")
      BY <1>8, LockToResetPromised
<1>9. CASE CleanUp(Timer, "select")
      BY <1>9, CleanUpPromised
<1>10. QED
      BY <1>1, <1>2, <1>3, <1>4, <1>5, <1>6, <1>7, <1>8, <1>9 DEF GoHandleTimeout

-----------------------------------------------------------------------------
(* The handover goroutine.                                                   *)

\* Only the handover goroutine moves, and it starts no cancellation.
LEMMA HandoverGoes ==
  ASSUME ControlOK, NEW label, label \notin {"tell", "reset"},
         pc' = [pc EXCEPT ![Handover] = label], UNCHANGED after
  PROVE  pc'[Handover] = label /\ NobodyStartsTelling
<1>1. Handover \in Threads
      BY DEF Threads
<1>2. /\ pc'[Handover] = label
      /\ \A s \in Threads \ {Handover} : pc'[s] = pc[s]
      BY <1>1 DEF ControlOK
<1>3. QED
      BY <1>2 DEF NobodyStartsTelling, Telling

LEMMA HandoverGoesOn ==
  ASSUME ControlOK, NEW label, label # "tell", NEW next, next # "tell",
         pc' = [pc EXCEPT ![Handover] = label],
         after' = [after EXCEPT ![Handover] = next]
  PROVE  pc'[Handover] = label /\ after'[Handover] = next /\ NobodyStartsTelling
<1>1. Handover \in Threads
      BY DEF Threads
<1>2. /\ pc'[Handover] = label /\ after'[Handover] = next
      /\ \A s \in Threads \ {Handover} : pc'[s] = pc[s] /\ after'[s] = after[s]
      BY <1>1 DEF ControlOK
<1>3. QED
      BY <1>2 DEF NobodyStartsTelling, Telling

\* The goroutine sends its announcement once, before anyone else sends anything.
LEMMA HandoverPostsPromised ==
  ASSUME TypeInv, TypeInv', PromiseInv, UNCHANGED allDone, HandoverPosts
  PROVE  Promised
<1> USE DEF PromiseInv
<1>1. ToAnnounce
      BY DEF HandoverPosts, HandoverInv, HandoverAt
<1>2. outcome = "open"
      BY <1>1 DEF ToAnnounce, StateInv, StateHandingOver
<1>3. posts'.handed = 1 /\ posts'.cancelled = 0
  <2>1. posts' = [posts EXCEPT !.handed = @ + 1]
        BY DEF HandoverPosts
  <2>2. QED
        BY <1>1, <2>1 DEF ToAnnounce, NothingSent, TypeInv, CountersOK
<1>4. UNCHANGED <<state, outcome, accepted>>
      BY DEF HandoverPosts, history
<1>5. pc'[Handover] = "posted" /\ NobodyStartsTelling
      BY HandoverGoes DEF HandoverPosts, Goto, TypeInv
<1>6. Announced'
      BY <1>1, <1>3, <1>4 DEF ToAnnounce, Announced
<1>7. StateInv'
      BY <1>2, <1>4, <1>6 DEF StateInv, Announced, StateHandingOver, StateFinished
<1>8. AcceptInv'
      BY <1>4 DEF AcceptInv
<1>9. TellInv'
      BY <1>2, <1>5 DEF TellInv, NobodyStartsTelling
<1>10. HandoverInv'
      BY <1>1, <1>4, <1>5, <1>6 DEF HandoverInv, HandoverAt, ToAnnounce
<1>11. Outcome!TellFile
      BY <1>1, <1>3, <1>4
      DEF Outcome!TellFile, Phase, Told, ToAnnounce, NothingSent, StateHandingOver
<1>12. QED
      BY <1>4, <1>7, <1>8, <1>9, <1>10, <1>11 DEF Promised, Outcome!OutcomeNext

\* The answer "done" is the acceptance; every other answer leaves the file with
\* the server.
LEMMA HandoverAnsweredPromised ==
  ASSUME TypeInv, TypeInv', PromiseInv, UNCHANGED allDone,
         NEW r \in AppReplies, HandoverAnswered(r)
  PROVE  Promised
<1> USE DEF PromiseInv
<1>1. Announced /\ ~accepted
      BY DEF HandoverAnswered, HandoverInv, HandoverAt
<1>2. outcome = "open"
      BY <1>1 DEF Announced, StateInv, StateHandingOver
<1>3. r \in {"done", "wait", "bad", "short", "unsized"}
      BY ParametersAssumption
<1>4. AfterReply(r) \in {"finish", "await", "fail", "panic"}
      BY <1>3 DEF AfterReply
<1>5. /\ pc'[Handover] = "reply" /\ after'[Handover] = AfterReply(r)
      /\ NobodyStartsTelling
      BY <1>4, HandoverGoesOn DEF HandoverAnswered, TypeInv
<1>6. /\ UNCHANGED <<state, posts, outcome>>
      /\ accepted' <=> r = "done"
      BY <1>1 DEF HandoverAnswered
<1>7. HandoverInv'
  <2>1. Announced'
        BY <1>1, <1>6 DEF Announced
  <2>2. \A l : HandoverAt(l)' => l = "reply"
        BY <1>5 DEF HandoverAt
  <2>3. CASE r = "done"
    <3>1. accepted' /\ after'[Handover] = "finish"
          BY <1>5, <1>6, <2>3 DEF AfterReply
    <3>2. QED
          BY <2>1, <2>2, <3>1 DEF HandoverInv
  <2>4. CASE r # "done"
    <3>1. ~accepted' /\ after'[Handover] \in {"await", "fail", "panic"}
          BY <1>3, <1>5, <1>6, <2>4 DEF AfterReply
    <3>2. QED
          BY <2>1, <2>2, <3>1 DEF HandoverInv
  <2>5. QED
        BY <2>3, <2>4
<1>8. CASE r # "done"
  <2>1. QuietData
        BY <1>1, <1>6, <1>8 DEF QuietData, TypeInv, FlagsOK, SwitchesOK
  <2>2. QED
        BY <1>5, <1>7, <2>1, QuietDataPromised
<1>9. CASE r = "done"
  <2>1. StateInv'
        BY <1>1, <1>2, <1>6 DEF StateInv, Announced, StateHandingOver, StateFinished
  <2>2. AcceptInv'
        BY <1>2, <1>6 DEF AcceptInv
  <2>3. TellInv'
        BY <1>2, <1>5 DEF TellInv, NobodyStartsTelling
  <2>4. Outcome!Accept
        BY <1>1, <1>6, <1>9
        DEF Outcome!Accept, Phase, Told, Announced, StateHandingOver, StateCleanedUp
  <2>5. QED
        BY <1>6, <1>7, <2>1, <2>2, <2>3, <2>4 DEF Promised, Outcome!OutcomeNext
<1>10. QED
      BY <1>8, <1>9

\* The end state is set blindly, and rightly: nobody else has left the handing
\* over state.
LEMMA HandoverEndsPromised ==
  ASSUME TypeInv, TypeInv', PromiseInv, UNCHANGED allDone,
         \/ HandoverEnds("finish", "offerOk", StateFinished, "finished")
         \/ HandoverEnds("fail", "cancel", StateCancelled, "cancelled")
  PROVE  Promised
<1> USE DEF PromiseInv
<1>1. UNCHANGED <<posts, accepted>>
      BY DEF HandoverEnds
<1>2. Announced
      BY DEF HandoverEnds, HandoverInv, HandoverAt
<1>3. outcome = "open"
      BY <1>2 DEF Announced, StateInv, StateHandingOver
<1>4. pc'[Handover] \in {"offerOk", "cancel"} /\ NobodyStartsTelling
      BY HandoverGoes DEF HandoverEnds, Goto, TypeInv
<1>5. TellInv'
      BY <1>3, <1>4 DEF TellInv, NobodyStartsTelling
<1>6. HandoverInv'
  <2>1. \A l \in Holding : ~HandoverAt(l)'
        BY <1>4 DEF HandoverAt, Holding
  <2>2. QED
        BY <2>1 DEF HandoverInv, Holding
<1>7. CASE HandoverEnds("finish", "offerOk", StateFinished, "finished")
  <2>1. state' = StateFinished /\ outcome' = "finished"
        BY <1>7 DEF HandoverEnds
  <2>2. accepted
        BY <1>7 DEF HandoverEnds, HandoverInv, HandoverAt
  <2>3. StateInv'
        BY <1>1, <1>2, <2>1 DEF StateInv, Announced, StateHandingOver, StateFinished
  <2>4. AcceptInv'
        BY <1>1, <2>1, <2>2 DEF AcceptInv
  <2>5. Outcome!Finish
        BY <1>1, <1>2, <2>1, <2>2
        DEF Outcome!Finish, Phase, Told, Announced, StateHandingOver, StateFinished,
            StateCleanedUp
  <2>6. QED
        BY <1>3, <1>5, <1>6, <2>3, <2>4, <2>5 DEF Promised, Outcome!OutcomeNext
<1>8. CASE HandoverEnds("fail", "cancel", StateCancelled, "cancelled")
  <2>1. state' = StateCancelled /\ outcome' = "cancelled"
        BY <1>8 DEF HandoverEnds
  <2>2. ~accepted
        BY <1>8 DEF HandoverEnds, HandoverInv, HandoverAt
  <2>3. StateInv'
        BY <1>1, <1>2, <2>1
        DEF StateInv, Announced, StateHandingOver, StateFinished, StateCancelled
  <2>4. AcceptInv'
        BY <1>1, <1>3, <2>1, <2>2 DEF AcceptInv
  <2>5. Outcome!HandoverFails
        BY <1>1, <1>2, <2>1, <2>2
        DEF Outcome!HandoverFails, Phase, Told, Announced, StateHandingOver,
            StateCancelled, StateCleanedUp
  <2>6. QED
        BY <1>3, <1>5, <1>6, <2>3, <2>4, <2>5 DEF Promised, Outcome!OutcomeNext
<1>9. QED
      BY <1>7, <1>8

LEMMA HandoverPromised ==
  ASSUME TypeInv, TypeInv', PromiseInv, UNCHANGED allDone, HandoverGoroutine
  PROVE  Promised
<1> USE DEF PromiseInv
<1>1. CASE LockToReset(Handover, "announce", "post")
  <2>1. /\ pc'[Handover] = "reset" /\ after'[Handover] = "post"
        /\ NobodyStartsTelling
        BY <1>1, HandoverGoesOn DEF LockToReset, KeepLock, TypeInv
  <2>2. ToAnnounce /\ UNCHANGED <<state, posts, accepted>>
        BY <1>1 DEF LockToReset, HandoverInv, HandoverAt, history
  <2>3. HandoverInv'
        BY <2>1, <2>2 DEF HandoverInv, HandoverAt, ToAnnounce, NothingSent
  <2>4. QED
        BY <1>1, <2>1, <2>3, QuietDataPromised DEF LockToReset, QuietData, history
<1>2. CASE ResetTimeout(Handover)
  <2>1. /\ pc[Handover] = "reset" /\ pc'[Handover] = after[Handover] /\ after' = after
        /\ \A s \in Threads \ {Handover} : pc'[s] = pc[s]
        BY <1>2 DEF ResetTimeout, TypeInv, ControlOK, Threads
  <2>2. NobodyStartsTelling
        BY <2>1 DEF NobodyStartsTelling, Telling
  <2>3. UNCHANGED <<state, posts, accepted, outcome>>
        BY <1>2 DEF ResetTimeout, history
  <2>4. \A l : HandoverAt(l)' => HandoverAt(l)
        BY <2>1 DEF HandoverAt
  <2>5. HandoverInv'
        BY <2>1, <2>3, <2>4 DEF HandoverInv, ToAnnounce, Announced, NothingSent
  <2>6. QED
        BY <2>2, <2>3, <2>5, QuietDataPromised DEF QuietData
<1>3. CASE HandoverPosts
      BY <1>3, HandoverPostsPromised
<1>4. CASE \E r \in AppReplies : HandoverAnswered(r)
      BY <1>4, HandoverAnsweredPromised
<1>5. CASE LockToReset(Handover, "reply", after[Handover])
  <2>1. HandoverAt("reply")
        BY <1>5 DEF LockToReset, HandoverAt
  <2>2. Announced
        BY <2>1 DEF HandoverInv
  <2>3. \/ after[Handover] = "finish" /\ accepted
        \/ after[Handover] \in {"await", "fail", "panic"} /\ ~accepted
        BY <2>1 DEF HandoverInv
  <2>4. after[Handover] # "tell"
        BY <2>3
  <2>5. /\ pc'[Handover] = "reset" /\ after'[Handover] = after[Handover]
        /\ NobodyStartsTelling
        BY <1>5, <2>4, HandoverGoesOn DEF LockToReset, KeepLock, TypeInv
  <2>6. UNCHANGED <<state, posts, accepted, outcome>>
        BY <1>5 DEF LockToReset, history
  <2>7. HandoverInv'
    <3>1. Announced'
          BY <2>2, <2>6 DEF Announced
    <3>2. \A l : HandoverAt(l)' => l = after[Handover] \/ l = "reset"
          BY <2>5 DEF HandoverAt
    <3>3. QED
          BY <2>3, <2>6, <3>1, <3>2 DEF HandoverInv
  <2>8. QED
        BY <1>5, <2>5, <2>6, <2>7, QuietDataPromised DEF QuietData
<1>6. CASE HandoverPanics
      BY <1>6, ProcessDiesPromised DEF HandoverPanics
<1>7. CASE HandoverTimesOut
  <2>1. pc'[Handover] = "fail" /\ NobodyStartsTelling
        BY <1>7, HandoverGoes DEF HandoverTimesOut, Goto, TypeInv
  <2>2. Announced /\ ~accepted /\ UNCHANGED <<state, posts, accepted, outcome>>
        BY <1>7 DEF HandoverTimesOut, HandoverInv, HandoverAt, history
  <2>3. HandoverInv'
        BY <2>1, <2>2 DEF HandoverInv, HandoverAt, Announced
  <2>4. QED
        BY <2>1, <2>2, <2>3, QuietDataPromised DEF QuietData
<1>8. CASE LockToReset(Handover, "confirmed", "finish")
  <2>1. /\ pc'[Handover] = "reset" /\ after'[Handover] = "finish"
        /\ NobodyStartsTelling
        BY <1>8, HandoverGoesOn DEF LockToReset, KeepLock, TypeInv
  <2>2. Announced /\ accepted /\ UNCHANGED <<state, posts, accepted, outcome>>
        BY <1>8 DEF LockToReset, HandoverInv, HandoverAt, history
  <2>3. HandoverInv'
        BY <2>1, <2>2 DEF HandoverInv, HandoverAt, Announced
  <2>4. QED
        BY <2>1, <2>2, <2>3, QuietDataPromised DEF QuietData
<1>9. CASE \/ HandoverEnds("finish", "offerOk", StateFinished, "finished")
           \/ HandoverEnds("fail", "cancel", StateCancelled, "cancelled")
      BY <1>9, HandoverEndsPromised
<1>10. CASE Cancel(Handover, FALSE, "offerErr", "offerErr")
  <2>1. "offerErr" \in Labels \ ({"tell", "reset"} \cup Holding)
        BY DEF Labels, Holding
  <2>2. Handover \in Threads
        BY DEF Threads
  <2>3. QED
        BY <1>10, <2>1, <2>2, CancelPromised
<1>11. CASE HandoverExpires
  <2>1. pc'[Handover] = "ended" /\ NobodyStartsTelling
        BY <1>11, HandoverGoes DEF HandoverExpires, Goto, TypeInv
  <2>2. HandoverInv'
    <3>1. \A l \in Holding : ~HandoverAt(l)'
          BY <2>1 DEF HandoverAt, Holding
    <3>2. QED
          BY <3>1 DEF HandoverInv, Holding
  <2>3. QED
        BY <1>11, <2>1, <2>2, QuietDataPromised DEF HandoverExpires, QuietData, history
<1>12. QED
      BY <1>1, <1>2, <1>3, <1>4, <1>5, <1>6, <1>7, <1>8, <1>9, <1>10, <1>11
      DEF HandoverGoroutine

-----------------------------------------------------------------------------
(* The theorems.                                                             *)

LEMMA PromiseInvInit == Init => PromiseInv
<1> SUFFICES ASSUME Init PROVE PromiseInv
    OBVIOUS
<1>1. \A t \in Threads : pc[t] \in {"select", "none", "idle"}
      BY DEF Init
<1>2. TellInv
      BY <1>1 DEF TellInv, Telling
<1>3. \A l \in Holding : ~HandoverAt(l)
      BY <1>1 DEF HandoverAt, Holding, Threads
<1>4. HandoverInv
      BY <1>3, NoHandoverHolds
<1>5. StateInv
  <2>1. posts.handed = 0 /\ posts.cancelled = 0
        BY DEF Init
  <2>2. state = StateInit
        BY DEF Init
  <2>3. outcome = "open" /\ ~accepted
        BY DEF Init
  <2>4. QED
        BY <2>1, <2>2, <2>3
        DEF StateInv, NothingSent, StateInit, StateHandingOver, StateFinished
<1>6. AcceptInv
      BY DEF Init, AcceptInv
<1>7. QED
      BY <1>2, <1>4, <1>5, <1>6 DEF PromiseInv

LEMMA StutterPromised ==
  ASSUME TypeInv, TypeInv', PromiseInv, UNCHANGED server
  PROVE  Promised
BY QuietPromised DEF server, vars, fileVars, timerVars, history, QuietControl,
   NobodyStartsTelling, Telling, QuietData

LEMMA AppTakesFilePromised ==
  ASSUME TypeInv, TypeInv', PromiseInv, AppTakesFile
  PROVE  Promised
BY QuietPromised DEF AppTakesFile, history, QuietControl, NobodyStartsTelling,
   Telling, QuietData

\* Every step keeps the invariant and is a step of the promise, or none.
LEMMA NextPromised ==
  ASSUME TypeInv, TypeInv', PromiseInv, [Next]_server
  PROVE  Promised
<1>1. CASE \E h \in Handlers : WebsocketHandler(h)
      BY <1>1, HandlerPromised
<1>2. CASE \E c \in Cancellers : CancelUploadHandler(c)
      BY <1>2, CancellerPromised
<1>3. CASE \E f \in Finishers : FinishUploadHandler(f)
      BY <1>3, FinisherPromised
<1>4. CASE UploaderGoroutines
      BY <1>4, TimerPromised, HandoverPromised DEF UploaderGoroutines
<1>5. CASE AppTakesFile
      BY <1>5, AppTakesFilePromised
<1>6. CASE UNCHANGED server
      BY <1>6, StutterPromised
<1>7. QED
      BY <1>1, <1>2, <1>3, <1>4, <1>5, <1>6 DEF Next

LEMMA AlwaysPromiseInv == Spec => []PromiseInv
<1>1. TypeInv /\ TypeInv' /\ PromiseInv /\ [Next]_server => PromiseInv'
      BY NextPromised DEF Promised
<1>2. QED
      BY <1>1, AlwaysTypeInv, PromiseInvInit, PTL DEF Spec

\* The server implements UploadOutcome: an upload ends once, the app backend is
\* sent at most one request about it, a file it has accepted is never cancelled,
\* and the clean-up comes once and after the end.
THEOREM UploadKeepsPromise == Spec => KeepsPromise
<1>1. Init => Outcome!OutcomeInit
  <2> SUFFICES ASSUME Init PROVE Outcome!OutcomeInit
      OBVIOUS
  <2>1. posts.handed = 0 /\ posts.cancelled = 0
        BY DEF Init
  <2>2. state = StateInit
        BY DEF Init
  <2>3. outcome = "open" /\ ~accepted
        BY DEF Init
  <2>4. QED
        BY <2>1, <2>2, <2>3
        DEF Outcome!OutcomeInit, Phase, Told, StateInit, StateHandingOver, StateCleanedUp
<1>2. TypeInv /\ TypeInv' /\ PromiseInv /\ [Next]_server
        => [Outcome!OutcomeNext]_(Outcome!outcomeVars)
      BY NextPromised DEF Promised
<1>3. QED
      BY <1>1, <1>2, AlwaysTypeInv, AlwaysPromiseInv, PTL
      DEF Spec, KeepsPromise, Outcome!OutcomeSpec

\* The app backend gets one request for an upload, whoever races for it.
THEOREM UploadAppToldOnce == Spec => []AppToldOnce
<1>1. PromiseInv => AppToldOnce
      BY DEF PromiseInv, StateInv, AppToldOnce
<1>2. QED
      BY <1>1, AlwaysPromiseInv, PTL

\* A file the app backend has accepted is never cancelled, and a browser hears
\* "all done" only of a file that was accepted.
THEOREM UploadAcceptedMeansFinished == Spec => []AcceptedMeansFinished
<1>1. PromiseInv => AcceptedMeansFinished
      BY DEF PromiseInv, AcceptInv, AcceptedMeansFinished
<1>2. QED
      BY <1>1, AlwaysPromiseInv, PTL

\* The first outcome stays, although the handover goroutine sets the end state
\* without looking at it.
THEOREM UploadEndsOnce == Spec => EndsOnce
<1>1. TypeInv /\ TypeInv' /\ PromiseInv /\ [Next]_server
        => [outcome # "open" => outcome' = outcome]_server
      BY NextPromised DEF Promised
<1>2. QED
      BY <1>1, AlwaysTypeInv, AlwaysPromiseInv, PTL DEF Spec, EndsOnce

=============================================================================
