------------------------- MODULE UploadSessionProofs -------------------------
(***************************************************************************)
(* One connection at a time works on an upload, for every number of        *)
(* connections and requests.                                               *)
(*                                                                         *)
(* The first half says once what a step of each thread does to the data    *)
(* and to the places of the threads, without the labels of the code that   *)
(* make no difference; UploadFileProofs uses it too.                       *)
(***************************************************************************)
EXTENDS UploadServerProofs

\* Where a thread is, or where it goes when the reset it is in has returned.
Place(t) == IF pc[t] = "reset" THEN after[t] ELSE pc[t]

BeforeHandover == {"handover", "start handover"}

\* A session whose chunk was refused, on its way to cancel the upload.
Stuck(t) == Place(t) \in {"chunkErr", "cancel"}

\* The process ends with all its threads.
NoneDiesAlone == /\ \A t \in Threads : after[t] # "dead"
                 /\ \A s, t \in Threads : pc[s] = "dead" => pc[t] = "dead"

-----------------------------------------------------------------------------
(* What a step does to the control: the threads in T move and live.          *)

Move(T) == /\ \A t \in T : pc[t] # "dead" /\ pc'[t] # "dead" /\ after'[t] # "dead"
           /\ \A s \in Threads \ T : pc'[s] = pc[s] /\ after'[s] = after[s]

(* What it does to the data.                                                 *)

FileSame == UNCHANGED <<state, path, fd, filePos, fileSize, disk, posts, outcome>>
ChannelsSame == UNCHANGED <<canResetTimeout, timeoutClosed, waitClosed>>
DataSame == FileSame /\ ChannelsSame /\ UNCHANGED accepted

Cancels(t) ==
  /\ Move({t}) /\ Place(t) = "cancel" /\ Place(t)' \in {"tell", "cleanup"}
  /\ state < StateHandingOver /\ state' = StateCancelled
  /\ outcome' = "cancelled" /\ fd' = FALSE /\ disk' \in Unlinked
  /\ ChannelsSame /\ UNCHANGED <<bound, path, filePos, fileSize, posts, accepted>>

Tells(t) ==
  /\ Move({t}) /\ Place(t) = "tell" /\ Place(t)' = "told"
  /\ posts' = [posts EXCEPT !.cancelled = @ + 1]
  /\ ChannelsSame
  /\ UNCHANGED <<state, bound, path, fd, filePos, fileSize, disk, outcome, accepted>>

CleansUp(t) ==
  /\ Move({t}) /\ Place(t) = "cleanup" /\ Place(t)' \in {"unbind", "idle", "select"}
  /\ t \in Handlers => Place(t)' = "unbind"
  /\ state > StateHandingOver /\ state # StateCleanedUp /\ state' = StateCleanedUp
  /\ disk' \in IF RemoveFileWhenFinished /\ state # StateCancelled THEN Unlinked ELSE {disk}
  /\ timeoutClosed'
  /\ UNCHANGED <<canResetTimeout, waitClosed, bound, path, fd, filePos, fileSize, posts,
                 outcome, accepted>>

\* Steps that only move one thread.  A session ends at "unbind" only; it goes to
\* receive a chunk, or to the handover, by the size it has received; and a
\* refused chunk leads to a cancellation unless the upload has ended.
Moves(t) ==
  /\ Move({t}) /\ DataSame /\ UNCHANGED bound
  /\ Place(t) \in SessionLabels <=> Place(t)' \in SessionLabels
  /\ Place(t)' = "recv" => Place(t) = "recv" \/ filePos # fileSize
  /\ Place(t)' \in BeforeHandover => Place(t) \in BeforeHandover \/ filePos = fileSize
  /\ Stuck(t) => Stuck(t)' \/ state >= StateHandingOver

-----------------------------------------------------------------------------
(* Sessions.                                                                 *)

Binds(h) == /\ Move({h}) /\ DataSame
            /\ Place(h) = "bind" /\ Place(h)' = "getstate"
            /\ ~bound /\ bound'

Unbinds(h) == /\ Move({h}) /\ DataSame
              /\ Place(h) = "unbind" /\ Place(h)' = "idle"
              /\ bound' = FALSE

Declares(h) == /\ Move({h}) /\ ChannelsSame
               /\ Place(h) = "setsize" /\ Place(h)' = "setname"
               /\ state = StateInit /\ fileSize' \in Int
               /\ UNCHANGED <<state, bound, path, fd, filePos, disk, posts, outcome, accepted>>

\* A chunk that was not refused: the file could not be opened, the chunk was not
\* written, or it was written and, if it was the last, the file was renamed.
Consumes(h) ==
  /\ Move({h}) /\ ChannelsSame
  /\ Place(h) = "recv" /\ Place(h)' \in {"loop", "chunkErr"}
  /\ state <= StatePaused
  /\ \/ state' = state /\ state # StateUploading /\ path' = OpenedPath
        /\ UNCHANGED <<fd, filePos, disk>>
     \/ /\ state' = StateUploading
        /\ path' = OpenedPath /\ disk' = OpenedDisk
        /\ \/ fd' = OpenedFd /\ UNCHANGED filePos
           \/ fd' = (filePos' # fileSize) /\ filePos' \in Nat /\ filePos' >= filePos
              /\ (filePos' = fileSize => Place(h)' = "chunkErr")
     \/ /\ state' = StateUploading
        /\ path' = "final" /\ disk' = "final" /\ fd' = FALSE
        /\ filePos' = fileSize /\ filePos' >= filePos
  /\ UNCHANGED <<bound, fileSize, posts, outcome, accepted>>

Pauses(h) == /\ Move({h}) /\ ChannelsSame
             /\ Place(h) = "recv" /\ Place(h)' = "loop"
             /\ state \in {StateUploading, StatePaused} /\ state' = StatePaused
             /\ fd' = FALSE
             /\ UNCHANGED <<bound, path, filePos, fileSize, disk, posts, outcome, accepted>>

StartsHandover(h) ==
  /\ Move({h, Handover}) /\ ChannelsSame
  /\ Place(h) = "start handover" /\ Place(h)' = "wait" /\ pc'[Handover] = "announce"
  /\ state < StateHandingOver /\ state' = StateHandingOver
  /\ UNCHANGED <<bound, path, fd, filePos, fileSize, disk, posts, outcome, accepted>>

Learns(h) == /\ Move({h, Handover}) /\ FileSame
             /\ Place(h) = "wait" /\ Place(h)' \in {"final", "unbind"}
             /\ pc[Handover] \in {"offerOk", "offerErr"} /\ pc'[Handover] = "ended"
             /\ waitClosed'
             /\ UNCHANGED <<bound, canResetTimeout, timeoutClosed, accepted>>

HandlerDoes(h) == \/ Moves(h) \/ Binds(h) \/ Unbinds(h) \/ Declares(h) \/ Consumes(h)
                  \/ Pauses(h) \/ StartsHandover(h) \/ Learns(h)
                  \/ Cancels(h) \/ Tells(h) \/ CleansUp(h)

-----------------------------------------------------------------------------
LEMMA Placed ==
  ASSUME ControlOK, NoneDiesAlone, NEW t \in Threads, pc[t] # "dead",
         NEW label, label \notin {"reset", "dead"}
  PROVE  /\ Goto(t, label) => Move({t}) /\ Place(t)' = label
         /\ KeepLock(t, label) => Move({t}) /\ Place(t)' = label
<1>1. ASSUME Goto(t, label)
      PROVE  Move({t}) /\ Place(t)' = label
      BY <1>1 DEF Goto, ControlOK, Move, Place, NoneDiesAlone
<1>2. ASSUME KeepLock(t, label)
      PROVE  Move({t}) /\ Place(t)' = label
      BY <1>2 DEF KeepLock, ControlOK, Move, Place
<1>3. QED
      BY <1>1, <1>2

LEMMA ResetPlaced ==
  ASSUME ControlOK, NoneDiesAlone, NEW t \in Threads, ResetTimeout(t)
  PROVE  Moves(t)
<1>1. /\ pc[t] = "reset" /\ pc'[t] = after[t] /\ after' = after
      /\ \A s \in Threads \ {t} : pc'[s] = pc[s]
      BY DEF ResetTimeout, ControlOK
<1>2. Move({t}) /\ Place(t)' = Place(t)
      BY <1>1 DEF Move, Place, NoneDiesAlone
<1>3. DataSame /\ UNCHANGED bound
      BY DEF ResetTimeout, DataSame, FileSame, ChannelsSame, fileVars, history
<1>4. QED
      BY <1>2, <1>3 DEF Moves, Stuck

\* A thread that goes from one label to another and touches nothing else.
LEMMA StepMoves ==
  ASSUME ControlOK, NoneDiesAlone, NEW t \in Threads, NEW from, NEW next,
         Step(t, from, next), from \notin {"reset", "dead"}, next \notin {"reset", "dead"},
         from \in SessionLabels <=> next \in SessionLabels,
         next = "recv" => filePos # fileSize,
         next \in BeforeHandover => from \in BeforeHandover \/ filePos = fileSize,
         from \in {"chunkErr", "cancel"}
           => next \in {"chunkErr", "cancel"} \/ state >= StateHandingOver
  PROVE  Moves(t)
<1>1. Place(t) = from /\ Move({t}) /\ Place(t)' = next
      BY Placed DEF Step, Place
<1>2. DataSame /\ UNCHANGED bound
      BY DEF Step, DataSame, FileSame, ChannelsSame, fileVars, timerVars, history
<1>3. QED
      BY <1>1, <1>2 DEF Moves, Stuck

LEMMA LockToResetMoves ==
  ASSUME ControlOK, NoneDiesAlone, NEW t \in Threads, NEW from, NEW next,
         LockToReset(t, from, next), from \notin {"reset", "dead"}, next \notin {"reset", "dead"},
         from \in SessionLabels <=> next \in SessionLabels,
         {from, next} \cap ({"recv", "chunkErr", "cancel"} \cup BeforeHandover) = {}
  PROVE  Moves(t)
<1>1. Place(t) = from /\ Move({t}) /\ Place(t)' = next
      BY Placed DEF LockToReset, Place
<1>2. DataSame /\ UNCHANGED bound
      BY DEF LockToReset, DataSame, FileSame, ChannelsSame, fileVars, timerVars, history
<1>3. QED
      BY <1>1, <1>2 DEF Moves, Stuck

LEMMA CancelDoes ==
  ASSUME ControlOK, NumbersOK, NoneDiesAlone, NEW t \in Threads, NEW tellApp \in BOOLEAN,
         NEW failed \in {"cleanup", "idle"}, Cancel(t, tellApp, "cleanup", failed)
  PROVE  Cancels(t) \/ (Move({t}) /\ DataSame /\ UNCHANGED bound
                        /\ Place(t) = "cancel" /\ Place(t)' = failed
                        /\ state >= StateHandingOver)
<1>1. Place(t) = "cancel" /\ pc[t] # "dead"
      BY DEF Cancel, Place
<1>2. CASE MayCancel
  <2>1. \/ KeepLock(t, "tell")
        \/ KeepLock(t, "cleanup")
        BY <1>2 DEF Cancel
  <2>2. Move({t}) /\ Place(t)' \in {"tell", "cleanup"}
        BY <1>1, <2>1, Placed
  <2>3. QED
        BY <1>1, <1>2, <2>2
        DEF Cancel, MayCancel, Cancels, ChannelsSame, timerVars
<1>3. CASE ~MayCancel
  <2>1. Move({t}) /\ Place(t)' = failed
        BY <1>1, <1>3, Placed DEF Cancel
  <2>2. state >= StateHandingOver
        BY <1>3 DEF MayCancel, NumbersOK, StateInit, StateCleanedUp, StateHandingOver
  <2>3. DataSame /\ UNCHANGED bound
        BY <1>3 DEF Cancel, DataSame, FileSame, ChannelsSame, timerVars
  <2>4. QED
        BY <1>1, <2>1, <2>2, <2>3
<1>4. QED
      BY <1>2, <1>3

LEMMA TellDoes ==
  ASSUME ControlOK, NoneDiesAlone, NEW t \in Threads, CancelTell(t)
  PROVE  Tells(t)
<1>1. Place(t) = "tell" /\ pc[t] # "dead"
      BY DEF CancelTell, Place
<1>2. Move({t}) /\ Place(t)' = "told"
      BY <1>1, Placed DEF CancelTell
<1>3. QED
      BY <1>1, <1>2 DEF CancelTell, Tells, ChannelsSame, fileVars, timerVars, history

LEMMA CleanUpDoes ==
  ASSUME ControlOK, NoneDiesAlone, NEW t \in Threads, NEW next \in {"unbind", "idle", "select"},
         next = "unbind" \/ t \notin Handlers, CleanUp(t, next)
  PROVE  CleansUp(t) \/ (Move({t}) /\ DataSame /\ UNCHANGED bound
                         /\ Place(t) = "cleanup" /\ Place(t)' = next)
<1>1. Place(t) = "cleanup" /\ pc[t] # "dead"
      BY DEF CleanUp, Place
<1>2. Move({t}) /\ Place(t)' = next
      BY <1>1, Placed DEF CleanUp
<1>3. CASE MayCleanUp
      BY <1>1, <1>2, <1>3 DEF CleanUp, MayCleanUp, CleansUp, TimeoutAfterCleanUp, history
<1>4. CASE ~MayCleanUp
      BY <1>1, <1>2, <1>4 DEF CleanUp, DataSame, FileSame, ChannelsSame, history
<1>5. QED
      BY <1>3, <1>4


-----------------------------------------------------------------------------
LEMMA ChunkDoes ==
  ASSUME ControlOK, NumbersOK, NoneDiesAlone, NEW h \in Handlers, ReceiveChunk(h)
  PROVE  Moves(h) \/ Consumes(h)
<1> h \in Threads
    BY DEF Threads, Requests
<1> USE DEF ReceiveChunk, ConsumeFileChunk
<1>1. PICK n \in ChunkSizes : ConsumeFileChunk(h, n, "loop", "chunkErr")
      OBVIOUS
<1>2. n \in Nat
      BY ParametersAssumption
<1>3. Place(h) = "recv" /\ pc[h] # "dead"
      BY DEF Place
<1>4. ChannelsSame /\ UNCHANGED <<bound, fileSize, posts, outcome, accepted>>
      BY <1>1 DEF ChannelsSame, timerVars, history
<1>5. CASE ChunkRefused(h, "chunkErr")
  <2>1. Move({h}) /\ Place(h)' = "chunkErr"
        BY <1>3, <1>5, Placed DEF ChunkRefused
  <2>2. DataSame /\ UNCHANGED bound
        BY <1>4, <1>5 DEF ChunkRefused, DataSame, FileSame
  <2>3. QED
        BY <1>3, <2>1, <2>2 DEF Moves, Stuck, SessionLabels, BeforeHandover
<1>6. CASE OpenFails(h, "chunkErr")
  <2>1. Move({h}) /\ Place(h)' = "chunkErr"
        BY <1>3, <1>6, Placed DEF OpenFails
  <2>2. state <= StatePaused /\ state' = state /\ state # StateUploading
        BY <1>6 DEF OpenFails, StateInit, StatePaused, StateUploading
  <2>3. path' = OpenedPath /\ UNCHANGED <<fd, filePos, disk>>
        BY <1>6 DEF OpenFails, OpenedPath
  <2>4. QED
        BY <1>3, <1>4, <2>1, <2>2, <2>3 DEF Consumes
<1>7. CASE ChunkNotWritten(h, "chunkErr")
  <2>1. Move({h}) /\ Place(h)' = "chunkErr"
        BY <1>3, <1>7, Placed DEF ChunkNotWritten
  <2>2. QED
        BY <1>3, <1>4, <1>7, <2>1 DEF ChunkNotWritten, MayConsume, Consumes
<1>8. CASE ChunkWritten(h, n, "loop", "chunkErr")
  <2>1. Move({h}) /\ Place(h)' \in {"loop", "chunkErr"}
        /\ (KeepLock(h, "chunkErr") => Place(h)' = "chunkErr")
    <3>1. KeepLock(h, "loop") \/ KeepLock(h, "chunkErr")
          BY <1>8 DEF ChunkWritten
    <3>2. QED
          BY <1>3, <3>1, Placed
  <2>2. filePos' \in Nat /\ filePos' >= filePos
        BY <1>2, <1>8 DEF ChunkWritten, PosAfter, NumbersOK
  <2>3. /\ state <= StatePaused /\ state' = StateUploading
        /\ fd' = (filePos' # fileSize)
        BY <1>8 DEF ChunkWritten, MayConsume
  <2>4. \/ filePos' # fileSize /\ path' = OpenedPath /\ disk' = OpenedDisk
        \/ filePos' = fileSize /\ path' = "final" /\ disk' = "final"
        \/ KeepLock(h, "chunkErr") /\ path' = OpenedPath /\ disk' = OpenedDisk
        BY <1>8 DEF ChunkWritten
  <2>5. QED
        BY <1>3, <1>4, <2>1, <2>2, <2>3, <2>4 DEF Consumes
<1>9. QED
      BY <1>1, <1>5, <1>6, <1>7, <1>8

LEMMA PauseDoes ==
  ASSUME ControlOK, NoneDiesAlone, NEW h \in Handlers, ReceivePause(h)
  PROVE  Moves(h) \/ Pauses(h)
<1> h \in Threads
    BY DEF Threads, Requests
<1>1. Place(h) = "recv" /\ pc[h] # "dead"
      BY DEF ReceivePause, Place
<1>2. Move({h}) /\ Place(h)' = "loop"
  <2>1. Goto(h, "loop") \/ KeepLock(h, "loop")
        BY DEF ReceivePause, Pause
  <2>2. QED
        BY <1>1, <2>1, Placed
<1>3. ChannelsSame /\ UNCHANGED <<bound, path, filePos, fileSize, disk, posts, outcome, accepted>>
      BY DEF ReceivePause, Pause, ChannelsSame, timerVars, history
<1>4. CASE state \in {StateUploading, StatePaused}
      BY <1>1, <1>2, <1>3, <1>4 DEF ReceivePause, Pause, FdAfterPause, Pauses
<1>5. CASE state \notin {StateUploading, StatePaused}
  <2>1. DataSame
        BY <1>3, <1>5 DEF ReceivePause, Pause, DataSame, FileSame
  <2>2. QED
        BY <1>1, <1>2, <1>3, <2>1 DEF Moves, Stuck, SessionLabels, BeforeHandover
<1>6. QED
      BY <1>4, <1>5

LEMMA HandFileToAppDoes ==
  ASSUME ControlOK, NoneDiesAlone, NEW h \in Handlers, HandFileToApp(h)
  PROVE  Moves(h) \/ StartsHandover(h)
<1> h \in Threads /\ Handover \in Threads /\ h # Handover
    BY ThreadsAssumption DEF Threads, Requests
<1>1. Place(h) \in BeforeHandover /\ pc[h] # "dead"
      BY DEF HandFileToApp, Place, BeforeHandover
<1>2. ChannelsSame /\ UNCHANGED <<bound, fileVars, posts, outcome, accepted>>
      BY DEF HandFileToApp, ChannelsSame, timerVars, history
<1>3. CASE ~(pc[h] # "handover" /\ MayHandOver)
  <2>1. Goto(h, "start handover") \/ Goto(h, "wait")
        BY <1>3 DEF HandFileToApp
  <2>2. Move({h}) /\ Place(h)' \in {"start handover", "wait"}
        BY <1>1, <2>1, Placed
  <2>3. DataSame
        BY <1>2, <1>3 DEF HandFileToApp, DataSame, FileSame, fileVars
  <2>4. QED
        BY <1>1, <1>2, <2>2, <2>3 DEF Moves, Stuck, SessionLabels, BeforeHandover
<1>4. CASE pc[h] # "handover" /\ MayHandOver
  <2>1. /\ pc[h] = "start handover" /\ state' = StateHandingOver
        /\ pc' = [pc EXCEPT ![h] = "wait", ![Handover] = "announce"] /\ UNCHANGED after
        BY <1>4 DEF HandFileToApp
  <2>2. /\ pc'[h] = "wait" /\ pc'[Handover] = "announce"
        /\ \A s \in Threads \ {h, Handover} : pc'[s] = pc[s]
        BY <2>1 DEF ControlOK
  <2>3. state < StateHandingOver
        BY <1>4 DEF MayHandOver
  <2>4. QED
        BY <1>1, <1>2, <2>1, <2>2, <2>3
        DEF StartsHandover, Move, Place, fileVars, NoneDiesAlone
<1>5. QED
      BY <1>3, <1>4

LEMMA DeliversDoes ==
  ASSUME ControlOK, NoneDiesAlone, NEW h \in Handlers, WaitDelivered(h)
  PROVE  Learns(h)
<1> h \in Threads /\ Handover \in Threads /\ h # Handover
    BY ThreadsAssumption DEF Threads, Requests
<1>1. PICK label \in {"offerOk", "offerErr"}, next \in {"final", "unbind"} :
        HandoverDelivers(h, label, next)
      BY DEF WaitDelivered
<1>2. /\ pc'[h] = next /\ pc'[Handover] = "ended" /\ after' = after
      /\ \A s \in Threads \ {h, Handover} : pc'[s] = pc[s]
      BY <1>1 DEF HandoverDelivers, ControlOK
<1>3. /\ FileSame /\ waitClosed'
      /\ UNCHANGED <<bound, canResetTimeout, timeoutClosed, accepted>>
      BY <1>1 DEF HandoverDelivers, FileSame, fileVars, timerVars, history
<1>4. pc[h] = "wait" /\ pc[Handover] = label
      BY <1>1 DEF HandoverDelivers
<1>5. QED
      BY <1>2, <1>3, <1>4 DEF Learns, Move, Place, NoneDiesAlone


LEMMA SessionFieldDoes ==
  ASSUME ControlOK, NumbersOK, FlagsOK, NoneDiesAlone, NEW h \in Handlers,
         \/ Bind(h) \/ DeclareSize(h) \/ DeclareName(h)
         \/ pc[h] = "unbind" /\ UnbindFromSocketHandler(h, "idle")
  PROVE  Moves(h) \/ Binds(h) \/ Unbinds(h) \/ Declares(h)
<1> h \in Threads
    BY DEF Threads, Requests
<1> USE DEF SessionLabels, BeforeHandover, Stuck
<1>1. CASE Bind(h)
  <2>1. Place(h) = "bind" /\ pc[h] # "dead"
        BY <1>1 DEF Bind, Place
  <2>2. DataSame
        BY <1>1 DEF Bind, BindToSocketHandler, DataSame, FileSame, ChannelsSame,
                    fileVars, timerVars, history
  <2>3. CASE MayBind
    <3>1. KeepLock(h, "getstate") /\ ~bound /\ bound'
          BY <1>1, <2>3 DEF Bind, BindToSocketHandler, MayBind
    <3>2. QED
          BY <2>1, <2>2, <3>1, Placed DEF Binds
  <2>4. CASE ~MayBind
    <3>1. Goto(h, "idle") /\ UNCHANGED bound
          BY <1>1, <2>4 DEF Bind, BindToSocketHandler
    <3>2. Move({h}) /\ Place(h)' = "idle"
          BY <2>1, <3>1, Placed
    <3>3. QED
          BY <2>1, <2>2, <3>1, <3>2 DEF Moves
  <2>5. QED
        BY <2>3, <2>4
<1>2. CASE DeclareSize(h)
  <2>1. PICK size \in Sizes : SetFileSize(h, size, "setname", "unbind")
        BY <1>2 DEF DeclareSize
  <2>2. Place(h) = "setsize" /\ pc[h] # "dead"
        BY <1>2 DEF DeclareSize, Place
  <2>3. ChannelsSame /\ UNCHANGED <<state, bound, path, fd, filePos, disk, posts, outcome, accepted>>
        BY <2>1 DEF SetFileSize, ChannelsSame, timerVars, history
  <2>4. CASE state = StateInit
    <3>1. KeepLock(h, "setname") /\ fileSize' \in Int
          BY <2>1, <2>4, SizesAssumption DEF SetFileSize
    <3>2. Move({h}) /\ Place(h)' = "setname"
          BY <2>2, <3>1, Placed
    <3>3. QED
          BY <2>2, <2>3, <2>4, <3>1, <3>2 DEF Declares
  <2>5. CASE state # StateInit
    <3>1. Goto(h, "unbind") /\ UNCHANGED fileSize
          BY <2>1, <2>5 DEF SetFileSize
    <3>2. Move({h}) /\ Place(h)' = "unbind"
          BY <2>2, <3>1, Placed
    <3>3. DataSame
          BY <2>3, <3>1 DEF DataSame, FileSame
    <3>4. QED
          BY <2>2, <2>3, <3>2, <3>3 DEF Moves
  <2>6. QED
        BY <2>4, <2>5
<1>3. CASE DeclareName(h)
  <2>1. Place(h) = "setname" /\ pc[h] # "dead"
        BY <1>3 DEF DeclareName, Place
  <2>2. DataSame /\ UNCHANGED bound
        BY <1>3 DEF DeclareName, SetFileName, DataSame, FileSame, ChannelsSame,
                    fileVars, timerVars, history
  <2>3. KeepLock(h, "conf") \/ Goto(h, "unbind")
        BY <1>3 DEF DeclareName, SetFileName
  <2>4. Move({h}) /\ Place(h)' \in {"conf", "unbind"}
        BY <2>1, <2>3, Placed
  <2>5. QED
        BY <2>1, <2>2, <2>4 DEF Moves
<1>4. CASE pc[h] = "unbind" /\ UnbindFromSocketHandler(h, "idle")
  <2>1. Place(h) = "unbind" /\ pc[h] # "dead"
        BY <1>4 DEF Place
  <2>2. DataSame
        BY <1>4 DEF UnbindFromSocketHandler, DataSame, FileSame, ChannelsSame,
                    fileVars, timerVars, history
  <2>3. bound' = FALSE
        BY <1>4 DEF UnbindFromSocketHandler, FlagsOK, SwitchesOK
  <2>4. KeepLock(h, "idle") \/ Goto(h, "idle")
        BY <1>4 DEF UnbindFromSocketHandler
  <2>5. Move({h}) /\ Place(h)' = "idle"
        BY <2>1, <2>4, Placed
  <2>6. QED
        BY <2>1, <2>2, <2>3, <2>5 DEF Unbinds
<1>5. QED
      BY <1>1, <1>2, <1>3, <1>4

\* Every step of websocketHandler is one of the above.
LEMMA HandlerSteps ==
  ASSUME TypeInv, NoneDiesAlone, NEW h \in Handlers, WebsocketHandler(h)
  PROVE  HandlerDoes(h)
<1> h \in Threads /\ ControlOK /\ NumbersOK /\ FlagsOK
    BY DEF Threads, Requests, TypeInv
<1>1. CASE \/ UploadRequest(h) \/ ReadState(h) \/ CompareSize(h) \/ Configure(h)
           \/ ReceivedAll(h) \/ ReceiveCancelOrError(h) \/ ReceiveFails(h)
           \/ ChunkError(h) \/ WaitClosed(h) \/ WaitIgnores(h) \/ WaitLost(h) \/ SendError(h)
           \/ SendFails(h) \/ CancelPanics(h) \/ SendAllDone(h)
  <2>1. Moves(h)
    <3> USE DEF SessionLabels, BeforeHandover
    <3>1. CASE UploadRequest(h)
          BY StepMoves, <1>1, <3>1 DEF UploadRequest
    <3>2. CASE ReadState(h)
          BY StepMoves, <3>2 DEF ReadState
    <3>3. CASE CompareSize(h)
          BY StepMoves, <3>3 DEF CompareSize
    <3>4. CASE Configure(h)
          BY StepMoves, <3>4 DEF Configure
    <3>5. CASE ReceivedAll(h)
          BY StepMoves, <3>5 DEF ReceivedAll, AllReceived
    <3>6. CASE ReceiveCancelOrError(h)
          BY StepMoves, <3>6 DEF ReceiveCancelOrError
    <3>7. CASE ReceiveFails(h)
          BY StepMoves, <3>7 DEF ReceiveFails
    <3>8. CASE ChunkError(h)
      <4>1. \/ Step(h, "chunkErr", "cancel")
            \/ Step(h, "chunkErr", "unbind") /\ state >= StateHandingOver
            BY <3>8 DEF ChunkError, StateCancelled, StateHandingOver
      <4>2. QED
            BY <4>1, StepMoves
    <3>9. CASE WaitClosed(h)
          BY StepMoves, <3>9 DEF WaitClosed
    <3>10. CASE WaitIgnores(h) \/ WaitLost(h)
          BY StepMoves, <3>10 DEF WaitIgnores, WaitLost
    <3>11. CASE SendError(h)
          BY StepMoves, <3>11 DEF SendError
    <3>12. CASE SendFails(h)
          BY StepMoves, <3>12 DEF SendFails
    <3>13. CASE CancelPanics(h)
          BY StepMoves, <3>13 DEF CancelPanics
    <3>14. CASE SendAllDone(h)
          BY StepMoves, <3>14 DEF SendAllDone
    <3>15. QED
          BY <1>1, <3>1, <3>2, <3>3, <3>4, <3>5, <3>6, <3>7, <3>8, <3>9, <3>10,
             <3>11, <3>12, <3>13, <3>14
  <2>2. QED
        BY <2>1 DEF HandlerDoes
<1>2. CASE \/ Bind(h) \/ DeclareSize(h) \/ DeclareName(h)
           \/ pc[h] = "unbind" /\ UnbindFromSocketHandler(h, "idle")
      BY <1>2, SessionFieldDoes DEF HandlerDoes
<1>3. CASE ReceiveChunk(h)
      BY <1>3, ChunkDoes DEF HandlerDoes
<1>4. CASE ReceivePause(h)
      BY <1>4, PauseDoes DEF HandlerDoes
<1>5. CASE HandFileToApp(h)
      BY <1>5, HandFileToAppDoes DEF HandlerDoes
<1>6. CASE WaitDelivered(h)
      BY <1>6, DeliversDoes DEF HandlerDoes
<1>7. CASE Cancel(h, TRUE, "cleanup", "cleanup")
  <2>1. \/ Cancels(h)
        \/ /\ Move({h}) /\ DataSame /\ UNCHANGED bound
           /\ Place(h) = "cancel" /\ Place(h)' = "cleanup"
           /\ state >= StateHandingOver
        BY <1>7, CancelDoes
  <2>2. QED
        BY <2>1 DEF HandlerDoes, Moves, SessionLabels, BeforeHandover
<1>8. CASE CancelTell(h)
      BY <1>8, TellDoes DEF HandlerDoes
<1>9. CASE CancelAnswered(h)
  <2>1. Place(h) = "told" /\ pc[h] # "dead"
        BY <1>9 DEF CancelAnswered, Place
  <2>2. Move({h}) /\ Place(h)' = "answered"
        BY <1>9, <2>1, Placed DEF CancelAnswered
  <2>3. DataSame /\ UNCHANGED bound
        BY <1>9 DEF CancelAnswered, DataSame, FileSame, ChannelsSame, fileVars,
                    timerVars, history
  <2>4. QED
        BY <2>1, <2>2, <2>3 DEF HandlerDoes, Moves, Stuck, SessionLabels, BeforeHandover
<1>10. CASE LockToReset(h, "answered", "cleanup")
  <2>1. Moves(h)
        BY <1>10, LockToResetMoves DEF SessionLabels, BeforeHandover
  <2>2. QED
        BY <2>1 DEF HandlerDoes
<1>11. CASE CleanUp(h, "unbind")
  <2>1. \/ CleansUp(h)
        \/ /\ Move({h}) /\ DataSame /\ UNCHANGED bound
           /\ Place(h) = "cleanup" /\ Place(h)' = "unbind"
        BY <1>11, CleanUpDoes
  <2>2. QED
        BY <2>1 DEF HandlerDoes, Moves, Stuck, SessionLabels, BeforeHandover
<1>12. CASE ResetTimeout(h)
      BY <1>12, ResetPlaced DEF HandlerDoes
<1>13. QED
      BY <1>1, <1>2, <1>3, <1>4, <1>5, <1>6, <1>7, <1>8, <1>9, <1>10, <1>11, <1>12
      DEF WebsocketHandler


-----------------------------------------------------------------------------
(* The steps of the other threads.                                           *)

Rests(t) ==
  /\ Move({t})
  /\ FileSame /\ UNCHANGED <<bound, timeoutClosed, waitClosed, accepted>>
  /\ t # Timer => UNCHANGED canResetTimeout

Confirms(f) ==
  /\ Move({f, Handover})
  /\ pc[Handover] = "await" /\ pc'[Handover] = "confirmed"
  /\ FileSame /\ ChannelsSame /\ UNCHANGED bound

HandoverRuns == /\ HandoverGoroutine /\ Move({Handover})
                /\ UNCHANGED <<bound, canResetTimeout>>

OtherDoes(t) == /\ t \in Threads \ (Handlers \cup {Handover})
                /\ Rests(t) \/ Confirms(t) \/ Cancels(t) \/ Tells(t) \/ CleansUp(t)

\* Steps that no thread takes.
Nobody == /\ UNCHANGED <<pc, after, bound>>
          /\ AppTakesFile \/ (FileSame /\ ChannelsSame /\ UNCHANGED accepted)

LEMMA StepRests ==
  ASSUME ControlOK, NoneDiesAlone, NEW t \in Threads \ (Handlers \cup {Handover}),
         NEW from, NEW next, from \notin {"reset", "dead"}, next \notin {"reset", "dead"},
         Step(t, from, next) \/ LockToReset(t, from, next)
  PROVE  Rests(t)
<1>1. pc[t] = from /\ (Goto(t, next) \/ KeepLock(t, next))
      BY DEF Step, LockToReset
<1>2. Move({t})
      BY <1>1, Placed
<1>3. FileSame /\ UNCHANGED <<bound, canResetTimeout, timeoutClosed, waitClosed, accepted>>
      BY DEF Step, LockToReset, FileSame, fileVars, timerVars, history
<1>4. QED
      BY <1>2, <1>3 DEF Rests

LEMMA CancellerSteps ==
  ASSUME TypeInv, NoneDiesAlone, NEW c \in Cancellers, CancelUploadHandler(c)
  PROVE  OtherDoes(c)
<1> c \in Threads \ (Handlers \cup {Handover}) /\ ControlOK /\ NumbersOK
    BY ThreadsAssumption DEF Threads, Requests, TypeInv
<1>1. CASE Step(c, "idle", "secret")
      BY <1>1, StepRests DEF OtherDoes
<1>2. CASE CheckSecret(c, "cancel")
      BY <1>2, StepRests DEF CheckSecret, OtherDoes
<1>3. CASE Cancel(c, FALSE, "cleanup", "idle")
  <2>1. Cancels(c) \/ (Move({c}) /\ DataSame /\ UNCHANGED bound)
        BY <1>3, CancelDoes
  <2>2. QED
        BY <2>1 DEF OtherDoes, Rests, DataSame, ChannelsSame
<1>4. CASE ResetTimeout(c)
  <2>1. Moves(c)
        BY <1>4, ResetPlaced
  <2>2. QED
        BY <2>1 DEF Moves, OtherDoes, Rests, DataSame, ChannelsSame
<1>5. CASE CleanUp(c, "idle")
  <2>1. CleansUp(c) \/ (Move({c}) /\ DataSame /\ UNCHANGED bound)
        BY <1>5, CleanUpDoes
  <2>2. QED
        BY <2>1 DEF OtherDoes, Rests, DataSame, ChannelsSame
<1>6. QED
      BY <1>1, <1>2, <1>3, <1>4, <1>5 DEF CancelUploadHandler

LEMMA FinisherSteps ==
  ASSUME TypeInv, NoneDiesAlone, NEW f \in Finishers, FinishUploadHandler(f)
  PROVE  OtherDoes(f)
<1> /\ f \in Threads \ (Handlers \cup {Handover}) /\ Handover \in Threads
    /\ ControlOK
    BY ThreadsAssumption DEF Threads, Requests, TypeInv
<1>1. CASE Step(f, "idle", "secret")
      BY <1>1, StepRests DEF OtherDoes
<1>2. CASE CheckSecret(f, "signal")
      BY <1>2, StepRests DEF CheckSecret, OtherDoes
<1>3. CASE HandoverDone(f, "idle") \/ HandoverDoneTimesOut(f, "idle")
  <2>1. /\ pc[f] \in {"signal", "confirm"}
        /\ Goto(f, "confirm") \/ Goto(f, "idle")
        BY <1>3 DEF HandoverDone, HandoverDoneTimesOut
  <2>2. Move({f})
        BY <2>1, Placed
  <2>3. QED
        BY <1>3, <2>2
        DEF HandoverDone, HandoverDoneTimesOut, OtherDoes, Rests, FileSame,
            fileVars, timerVars, history
<1>4. CASE HandoverConfirmed(f, "idle")
  <2>1. /\ pc[f] = "confirm" /\ pc[Handover] = "await" /\ after' = after
        /\ pc'[f] = "idle" /\ pc'[Handover] = "confirmed"
        /\ \A s \in Threads \ {f, Handover} : pc'[s] = pc[s]
        BY <1>4 DEF HandoverConfirmed, ControlOK
  <2>2. QED
        BY <1>4, <2>1
        DEF HandoverConfirmed, Confirms, Move, NoneDiesAlone, OtherDoes, FileSame,
            ChannelsSame, fileVars, timerVars
<1>5. QED
      BY <1>1, <1>2, <1>3, <1>4 DEF FinishUploadHandler

LEMMA TimerSteps ==
  ASSUME TypeInv, NoneDiesAlone, GoHandleTimeout
  PROVE  OtherDoes(Timer) \/ ProcessDies
<1> Timer \in Threads \ (Handlers \cup {Handover}) /\ ControlOK /\ NumbersOK
    BY ThreadsAssumption DEF Threads, Requests, TypeInv
<1>1. CASE TimerFires \/ TimerForbidsResets \/ CancelAnswered(Timer) \/ TimerExits
  <2>1. /\ pc[Timer] \in {"select", "fired", "told"}
        /\ \E next \in {"fired", "cancel", "answered", "exited"} : Goto(Timer, next)
        BY <1>1 DEF TimerFires, TimerForbidsResets, CancelAnswered, TimerExits
  <2>2. Move({Timer})
        BY <2>1, Placed
  <2>3. QED
        BY <1>1, <2>2
        DEF TimerFires, TimerForbidsResets, CancelAnswered, TimerExits, OtherDoes,
            Rests, FileSame, fileVars, timerVars, history
<1>2. CASE Cancel(Timer, TRUE, "cleanup", "cleanup")
  <2>1. Cancels(Timer) \/ (Move({Timer}) /\ DataSame /\ UNCHANGED bound)
        BY <1>2, CancelDoes
  <2>2. QED
        BY <2>1 DEF OtherDoes, Rests, DataSame, ChannelsSame
<1>3. CASE ResetTimeout(Timer)
  <2>1. Moves(Timer)
        BY <1>3, ResetPlaced
  <2>2. QED
        BY <2>1 DEF Moves, OtherDoes, Rests, DataSame, ChannelsSame
<1>4. CASE CancelTell(Timer)
      BY <1>4, TellDoes DEF OtherDoes
<1>5. CASE ProcessDies
      BY <1>5
<1>6. CASE LockToReset(Timer, "answered", "cleanup")
      BY <1>6, StepRests DEF OtherDoes
<1>7. CASE CleanUp(Timer, "select")
  <2>1. CleansUp(Timer) \/ (Move({Timer}) /\ DataSame /\ UNCHANGED bound)
        BY <1>7, CleanUpDoes
  <2>2. QED
        BY <2>1 DEF OtherDoes, Rests, DataSame, ChannelsSame
<1>8. QED
      BY <1>1, <1>2, <1>3, <1>4, <1>5, <1>6, <1>7 DEF GoHandleTimeout

LEMMA HandoverSteps ==
  ASSUME TypeInv, NoneDiesAlone, HandoverGoroutine
  PROVE  HandoverRuns \/ ProcessDies
<1> Handover \in Threads /\ ControlOK
    BY DEF Threads, TypeInv
<1>1. CASE HandoverPanics
      BY <1>1 DEF HandoverPanics
<1>2. CASE \E r \in AppReplies : HandoverAnswered(r)
  <2>1. PICK r \in AppReplies : HandoverAnswered(r)
        BY <1>2
  <2>2. /\ pc[Handover] = "posted" /\ pc'[Handover] = "reply"
        /\ after'[Handover] = AfterReply(r) /\ AfterReply(r) # "dead"
        /\ \A s \in Threads \ {Handover} : pc'[s] = pc[s] /\ after'[s] = after[s]
        BY <2>1, ParametersAssumption DEF HandoverAnswered, ControlOK, AfterReply
  <2>3. QED
        BY <2>1, <2>2 DEF HandoverAnswered, HandoverRuns, Move, NoneDiesAlone, timerVars
<1>3. CASE ResetTimeout(Handover)
  <2>1. Moves(Handover)
        BY <1>3, ResetPlaced
  <2>2. QED
        BY <2>1 DEF Moves, HandoverRuns, DataSame, ChannelsSame
<1>4. CASE LockToReset(Handover, "reply", after[Handover])
  <2>1. /\ pc[Handover] = "reply" /\ pc'[Handover] = "reset"
        /\ after'[Handover] = after[Handover]
        /\ \A s \in Threads \ {Handover} : pc'[s] = pc[s] /\ after'[s] = after[s]
        BY <1>4 DEF LockToReset, KeepLock, ControlOK
  <2>2. UNCHANGED <<bound, canResetTimeout>>
        BY <1>4 DEF LockToReset, timerVars
  <2>3. QED
        BY <2>1, <2>2 DEF HandoverRuns, Move, NoneDiesAlone
<1>5. CASE \/ LockToReset(Handover, "announce", "post") \/ HandoverPosts
           \/ HandoverTimesOut \/ LockToReset(Handover, "confirmed", "finish")
           \/ HandoverEnds("finish", "offerOk", StateFinished, "finished")
           \/ HandoverEnds("fail", "cancel", StateCancelled, "cancelled")
           \/ Cancel(Handover, FALSE, "offerErr", "offerErr") \/ HandoverExpires
  <2>1. /\ pc[Handover] \in {"announce", "post", "await", "confirmed", "finish",
                             "fail", "cancel", "offerOk", "offerErr"}
        /\ \E next \in {"post", "posted", "fail", "finish", "offerOk", "cancel",
                        "offerErr", "ended"} :
             Goto(Handover, next) \/ KeepLock(Handover, next)
        BY <1>5 DEF LockToReset, HandoverPosts, HandoverTimesOut, HandoverEnds,
                    Cancel, HandoverExpires
  <2>2. Move({Handover})
        BY <2>1, Placed
  <2>3. UNCHANGED <<bound, canResetTimeout>>
        BY <1>5 DEF LockToReset, HandoverPosts, HandoverTimesOut, HandoverEnds,
                    Cancel, HandoverExpires, timerVars
  <2>4. QED
        BY <2>2, <2>3 DEF HandoverRuns
<1>6. QED
      BY <1>1, <1>2, <1>3, <1>4, <1>5 DEF HandoverGoroutine

\* What a step of the server does.
LEMMA NextSteps ==
  ASSUME TypeInv, NoneDiesAlone, [Next]_server
  PROVE  \/ \E h \in Handlers : HandlerDoes(h)
         \/ \E t \in Threads : OtherDoes(t)
         \/ HandoverRuns \/ ProcessDies \/ Nobody
<1>1. CASE AppTakesFile
      BY <1>1 DEF AppTakesFile, Nobody
<1>2. CASE TimerExpires \/ UNCHANGED server
      BY <1>2 DEF TimerExpires, Nobody, FileSame, ChannelsSame, fileVars, timerVars,
                  history, server, vars
<1>3. QED
      BY <1>1, <1>2, HandlerSteps, CancellerSteps, FinisherSteps, TimerSteps, HandoverSteps
      DEF Next, UploaderGoroutines, Threads, Requests


-----------------------------------------------------------------------------
(* The sessions.                                                             *)

In(h) == Place(h) \in SessionLabels

SessionInv ==
  /\ NoneDiesAlone
  /\ \A h, g \in Handlers : In(h) /\ In(g) => h = g
  /\ Alive => (bound <=> \E h \in Handlers : In(h))

SessionNow == TypeInv /\ SessionInv

\* Steps that end no session and start none.
LEMMA SessionsStay ==
  ASSUME SessionNow, NEW T \in SUBSET Threads, T # {}, Move(T), UNCHANGED bound,
         \A h \in T \cap Handlers : In(h)' <=> In(h)
  PROVE  SessionInv'
<1> Handlers \subseteq Threads
    BY DEF Threads, Requests
<1>1. Alive
      BY DEF SessionNow, SessionInv, NoneDiesAlone, Move, Alive
<1>2. NoneDiesAlone' /\ Alive'
      BY <1>1 DEF SessionNow, SessionInv, NoneDiesAlone, Move, Alive
<1>3. \A h \in Handlers : In(h)' <=> In(h)
      BY DEF Move, In, Place
<1>4. QED
      BY <1>1, <1>2, <1>3 DEF SessionNow, SessionInv

LEMMA HandlerSessions ==
  ASSUME SessionNow, NEW h \in Handlers, HandlerDoes(h)
  PROVE  SessionInv'
<1> h \in Threads /\ Handover \in Threads /\ Handlers \subseteq Threads /\ Handover \notin Handlers
    BY ThreadsAssumption DEF Threads, Requests
<1>1. CASE Binds(h) \/ Unbinds(h)
  <2>1. Move({h})
        BY <1>1 DEF Binds, Unbinds
  <2>2. Alive
        BY <2>1 DEF SessionNow, SessionInv, NoneDiesAlone, Move, Alive
  <2>3. NoneDiesAlone' /\ Alive'
        BY <2>1, <2>2 DEF SessionNow, SessionInv, NoneDiesAlone, Move, Alive
  <2>4. \A g \in Handlers \ {h} : In(g)' <=> In(g)
        BY <2>1 DEF Move, In, Place
  <2>5. CASE Binds(h)
    <3>1. ~bound /\ bound' /\ In(h)'
          BY <2>5 DEF Binds, In, SessionLabels
    <3>2. \A g \in Handlers : ~In(g)
          BY <2>2, <3>1 DEF SessionNow, SessionInv
    <3>3. QED
          BY <2>3, <2>4, <3>1, <3>2 DEF SessionInv
  <2>6. CASE Unbinds(h)
    <3>1. ~bound' /\ In(h) /\ ~In(h)'
          BY <2>6 DEF Unbinds, In, SessionLabels
    <3>2. \A g \in Handlers \ {h} : ~In(g)
          BY <3>1 DEF SessionNow, SessionInv
    <3>3. QED
          BY <2>3, <2>4, <3>1, <3>2 DEF SessionInv
  <2>7. QED
        BY <1>1, <2>5, <2>6
<1>2. CASE \/ Moves(h) \/ Declares(h) \/ Consumes(h) \/ Pauses(h)
           \/ Cancels(h) \/ Tells(h) \/ CleansUp(h)
  <2>1. Move({h}) /\ UNCHANGED bound /\ (In(h)' <=> In(h))
        BY <1>2 DEF Moves, Declares, Consumes, Pauses, Cancels, Tells, CleansUp, In,
                    SessionLabels
  <2>2. QED
        BY <2>1, SessionsStay
<1>3. CASE StartsHandover(h) \/ Learns(h)
  <2>1. Move({h, Handover}) /\ UNCHANGED bound /\ (In(h)' <=> In(h))
        BY <1>3 DEF StartsHandover, Learns, In, SessionLabels
  <2>2. {h, Handover} \in SUBSET Threads /\ {h, Handover} \cap Handlers = {h}
        OBVIOUS
  <2>3. QED
        BY <2>1, <2>2, SessionsStay
<1>4. QED
      BY <1>1, <1>2, <1>3 DEF HandlerDoes

LEMMA SessionStep == SessionNow /\ [Next]_server => SessionNow'
<1> SUFFICES ASSUME SessionNow, [Next]_server
             PROVE  SessionInv'
    BY TypeInvStep DEF SessionNow
<1> Handover \in Threads /\ Handlers \subseteq Threads /\ Handover \notin Handlers
    BY ThreadsAssumption DEF Threads, Requests
<1>1. ASSUME NEW h \in Handlers, HandlerDoes(h)
      PROVE  SessionInv'
      BY <1>1, HandlerSessions
<1>2. ASSUME NEW t \in Threads, OtherDoes(t)
      PROVE  SessionInv'
  <2>1. /\ Move({t}) \/ Move({t, Handover})
        /\ UNCHANGED bound /\ t \notin Handlers
        BY <1>2 DEF OtherDoes, Rests, Confirms, Cancels, Tells, CleansUp
  <2>2. QED
        BY <2>1, SessionsStay
<1>3. CASE HandoverRuns
      BY <1>3, SessionsStay DEF HandoverRuns
<1>4. CASE ProcessDies
  <2>1. /\ \A t \in Threads : pc'[t] = "dead" /\ after'[t] = after[t]
        BY <1>4 DEF ProcessDies
  <2>2. \A h \in Handlers : ~In(h)'
        BY <2>1 DEF In, Place, SessionLabels
  <2>3. ~Alive'
        BY <2>1 DEF Alive
  <2>4. QED
        BY <2>1, <2>2, <2>3 DEF SessionNow, SessionInv, NoneDiesAlone
<1>5. CASE Nobody
      BY <1>5 DEF Nobody, SessionNow, SessionInv, NoneDiesAlone, In, Place, Alive
<1>6. QED
      BY <1>1, <1>2, <1>3, <1>4, <1>5, NextSteps DEF SessionNow, SessionInv

LEMMA SessionInit == Init => SessionNow
<1> SUFFICES ASSUME Init
             PROVE  SessionNow
    OBVIOUS
<1>1. /\ \A t \in Threads : pc[t] \in {"select", "none", "idle"} /\ after[t] = "idle"
      /\ bound = FALSE
      BY DEF Init
<1>2. Handlers \subseteq Threads
      BY DEF Threads, Requests
<1>3. SessionInv
      BY <1>1, <1>2 DEF SessionInv, NoneDiesAlone, In, Place, SessionLabels
<1>4. QED
      BY <1>3, TypeInvInit DEF SessionNow

LEMMA AlwaysSessionNow == Spec => []SessionNow
BY SessionInit, SessionStep, PTL DEF Spec

\* Two connections never work on the same upload, and the upload is bound exactly
\* while one does, however many connections there are and wherever the handler
\* returns or panics (websocket.go:294-302).
THEOREM UploadOneHandler == Spec => []OneHandler
<1>1. SessionNow => OneHandler
  <2> SUFFICES ASSUME SessionNow
               PROVE  OneHandler
      OBVIOUS
  <2>1. \A h \in Handlers : InSession(h) => In(h)
        BY DEF InSession, In, Place, SessionLabels
  <2>2. \A h \in Handlers : In(h) => InSession(h)
        BY DEF InSession, In, Place
  <2>3. QED
        BY <2>1, <2>2 DEF OneHandler, SessionNow, SessionInv
<1>2. QED
      BY <1>1, AlwaysSessionNow, PTL


-----------------------------------------------------------------------------
(* The timeout goroutine.                                                    *)

\* From the lock under which it forbids resets until the process or the goroutine
\* ends, the only label at which it could find them allowed is a select.
TimerInv == pc[Timer] \in {"select", "fired", "exited", "dead"} \/ ~canResetTimeout

LEMMA TimerInvStep == SessionNow /\ TimerInv /\ [Next]_server => TimerInv'
<1> SUFFICES ASSUME SessionNow, TimerInv, [Next]_server
             PROVE  TimerInv'
    OBVIOUS
<1> /\ Timer \in Threads /\ Handover \in Threads
    /\ Timer \notin Requests \cup {Handover}
    /\ TypeInv /\ NoneDiesAlone
    BY ThreadsAssumption DEF Threads, SessionNow, SessionInv
<1>1. ASSUME NEW T, Move(T), Timer \notin T, UNCHANGED canResetTimeout
      PROVE  TimerInv'
      BY <1>1 DEF TimerInv, Move
<1>2. ASSUME NEW h \in Handlers, WebsocketHandler(h)
      PROVE  TimerInv'
  <2>1. UNCHANGED canResetTimeout /\ (Move({h}) \/ Move({h, Handover}))
        BY <1>2, HandlerSteps
        DEF HandlerDoes, Moves, Binds, Unbinds, Declares, Consumes, Pauses,
            StartsHandover, Learns, Cancels, Tells, CleansUp, DataSame, ChannelsSame
  <2>2. QED
        BY <1>1, <2>1 DEF Requests
<1>3. ASSUME NEW t \in Requests, OtherDoes(t)
      PROVE  TimerInv'
  <2>1. t # Timer
        OBVIOUS
  <2>2. UNCHANGED canResetTimeout /\ (Move({t}) \/ Move({t, Handover}))
        BY <1>3, <2>1
        DEF OtherDoes, Rests, Confirms, Cancels, Tells, CleansUp, ChannelsSame
  <2>3. QED
        BY <1>1, <2>1, <2>2
<1>4. ASSUME HandoverGoroutine
      PROVE  TimerInv'
  <2>1. CASE ProcessDies
        BY <2>1 DEF ProcessDies, TimerInv
  <2>2. CASE HandoverRuns
        BY <1>1, <2>2 DEF HandoverRuns
  <2>3. QED
        BY <1>4, <2>1, <2>2, HandoverSteps
<1>5. ASSUME GoHandleTimeout
      PROVE  TimerInv'
  <2> ControlOK
      BY DEF TypeInv
  <2>1. CASE TimerFires \/ TimerExits
        BY <2>1 DEF TimerFires, TimerExits, Goto, ControlOK, TimerInv
  <2>2. CASE TimerForbidsResets
        BY <2>2 DEF TimerForbidsResets, ResetsAfterExpiry, TimerInv
  <2>3. CASE CleanUp(Timer, "select")
        BY <2>3 DEF CleanUp, Goto, ControlOK, TimerInv
  <2>4. CASE ProcessDies
        BY <2>4 DEF ProcessDies, TimerInv
  <2>5. CASE \/ Cancel(Timer, TRUE, "cleanup", "cleanup") \/ ResetTimeout(Timer)
             \/ CancelTell(Timer) \/ CancelAnswered(Timer)
             \/ LockToReset(Timer, "answered", "cleanup")
        BY <2>5 DEF Cancel, ResetTimeout, CancelTell, CancelAnswered, LockToReset,
                    timerVars, TimerInv
  <2>6. QED
        BY <1>5, <2>1, <2>2, <2>3, <2>4, <2>5 DEF GoHandleTimeout
<1>6. CASE TimerExpires \/ AppTakesFile \/ UNCHANGED server
      BY <1>6 DEF TimerExpires, AppTakesFile, server, vars, timerVars, TimerInv
<1>7. QED
  <2>1. ASSUME NEW c \in Cancellers, CancelUploadHandler(c)
        PROVE  TimerInv'
        BY <1>3, <2>1, CancellerSteps DEF Requests
  <2>2. ASSUME NEW f \in Finishers, FinishUploadHandler(f)
        PROVE  TimerInv'
        BY <1>3, <2>2, FinisherSteps DEF Requests
  <2>3. QED
        BY <1>2, <1>4, <1>5, <1>6, <2>1, <2>2 DEF Next, UploaderGoroutines

\* The timeout goroutine, which alone receives resets, never sends one to itself:
\* whatever it does after the timeout, resets are off (to_local_file.go:147-155).
THEOREM UploadTimerNeverWaits == Spec => []TimerNeverWaitsForItself
<1>1. Init => TimerInv
      BY DEF Init, TimerInv, Threads
<1>2. TimerInv => TimerNeverWaitsForItself
      BY DEF TimerInv, TimerNeverWaitsForItself
<1>3. QED
      BY <1>1, <1>2, TimerInvStep, AlwaysSessionNow, PTL DEF Spec

=============================================================================
