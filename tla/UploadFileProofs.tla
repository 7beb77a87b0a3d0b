--------------------------- MODULE UploadFileProofs ---------------------------
(***************************************************************************)
(* What happens to the file of an upload, for every number of connections  *)
(* and requests, every file size and every way to cut it into chunks.      *)
(*                                                                         *)
(* The argument: one session at a time works on the file, so what it has   *)
(* seen of the size and the position still holds when it acts on it; a     *)
(* file that is complete but could not be renamed is in the hands of a     *)
(* session that is about to cancel the upload; and the state decides who   *)
(* may delete the file, which during a handover is nobody.                 *)
(***************************************************************************)
EXTENDS UploadPromiseProofs, UploadSessionProofs

Complete == filePos = fileSize /\ (fileSize > 0 => path = "final")

\* The handover goroutine and the channels.
GoInv ==
  /\ state < StateHandingOver => pc[Handover] \in {"none", "dead"}
  /\ pc[Handover] \in {"cancel", "offerOk", "offerErr", "ended"}
       => state > StateHandingOver
  /\ pc[Handover] = "reset"
       => after[Handover] \in {"post", "finish", "await", "fail", "panic"}
  /\ waitClosed => pc[Handover] \in {"ended", "dead"}
  /\ timeoutClosed => state = StateCleanedUp

\* What a session knows of the position, and what the handover relies on.
ReceiveInv ==
  /\ \A h \in Handlers : Place(h) = "recv" => filePos # fileSize
  /\ \A h \in Handlers : Place(h) \in BeforeHandover => filePos = fileSize
  /\ state < StateHandingOver /\ filePos = fileSize
       => Complete \/ ~Alive \/ \E h \in Handlers : Stuck(h)
  /\ state = StateHandingOver \/ posts.handed > 0 => Complete

\* Where the file is.
DiskInv ==
  /\ state = StateInit => disk = "none"
  /\ state <= StateHandingOver \/ state = StateFinished => disk \in {"none", "taken", path}
  /\ state <= StateHandingOver /\ path = "final" => disk \in {"final", "taken"}
  /\ state = StateCancelled
       => outcome = "cancelled" /\ (posts.handed = 0 /\ ~RemoveMayFail => disk \in {"none", "taken"})

FileInv == ReceiveInv /\ DiskInv /\ FileOpenIffReceiving /\ CleanedUpLeavesNoFile

Now == SessionNow /\ PromiseInv /\ GoInv /\ FileInv

LEMMA NowFacts ==
  ASSUME Now
  PROVE  /\ state \in 0..6 /\ fileSize \in Int /\ filePos \in Nat
         /\ posts.handed \in Nat /\ fd \in BOOLEAN
         /\ state = 0 => filePos = 0
         /\ state < 3 => posts.handed = 0
         /\ state <= 3 <=> outcome = "open"
         /\ state = 5 => outcome = "finished"
<1>1. TypeInv /\ StateInv
      BY DEF Now, SessionNow, PromiseInv
<1>2. state \in 0..6 /\ posts.handed \in Nat
      BY <1>1, StateRange
<1>3. QED
      BY <1>1, <1>2 DEF TypeInv, NumbersOK, FlagsOK, SwitchesOK, StateInv,
         NothingSent, StateInit, StateHandingOver, StateFinished

\* Two handlers are never both in a session.
LEMMA OthersOut ==
  ASSUME Now, NEW h \in Handlers, In(h)
  PROVE  \A g \in Handlers \ {h} :
           Place(g) \notin {"recv", "chunkErr", "cancel"} \cup BeforeHandover
BY DEF Now, SessionNow, SessionInv, In, SessionLabels, BeforeHandover

LEMMA Moved ==
  ASSUME Now, NEW T \in SUBSET Threads, T # {}, Move(T)
  PROVE  /\ Alive /\ Alive'
         /\ \A h \in Handlers \ T : Place(h)' = Place(h) /\ (Stuck(h)' <=> Stuck(h))
<1> Handlers \subseteq Threads
    BY DEF Threads, Requests
<1>1. Alive /\ Alive'
      BY DEF Now, SessionNow, SessionInv, NoneDiesAlone, Move, Alive
<1>2. \A h \in Handlers \ T : Place(h)' = Place(h)
      BY DEF Move, Place
<1>3. QED
      BY <1>1, <1>2 DEF Stuck

LEMMA NobodyReceives ==
  ASSUME Now, NEW h \in Handlers, In(h), NEW T \in SUBSET Threads, h \in T, Move(T),
         Place(h)' \notin {"recv"} \cup BeforeHandover, T \cap Handlers = {h}
  PROVE  \A g \in Handlers : Place(g)' \notin {"recv"} \cup BeforeHandover
<1>1. \A g \in Handlers \ {h} : Place(g)' = Place(g)
      BY Moved
<1>2. \A g \in Handlers \ {h} : Place(g) \notin {"recv"} \cup BeforeHandover
      BY OthersOut
<1>3. QED
      BY <1>1, <1>2

-----------------------------------------------------------------------------
(* Steps that leave the file as it is.                                       *)

SameFile == UNCHANGED <<state, path, fd, filePos, fileSize, disk, outcome, posts.handed>>

LEMMA FileStays ==
  ASSUME Now, SameFile, ReceiveInv'
  PROVE  FileInv'
BY DEF Now, SameFile, FileInv, DiskInv, FileOpenIffReceiving, CleanedUpLeavesNoFile,
       HandoverFailed

\* ... and every session in its place.
LEMMA OthersLeaveFile ==
  ASSUME Now, NEW T \in SUBSET Threads, T # {}, T \cap Handlers = {}, Move(T), SameFile
  PROVE  FileInv'
<1>1. /\ Alive /\ Alive'
      /\ \A h \in Handlers : Place(h)' = Place(h) /\ (Stuck(h)' <=> Stuck(h))
      BY Moved
<1>2. ReceiveInv'
      BY <1>1 DEF Now, FileInv, SameFile, ReceiveInv, Complete
<1>3. QED
      BY <1>2, FileStays

\* A handler that moves within what its session knows.
LEMMA HandlerLeavesFile ==
  ASSUME Now, NEW h \in Handlers, NEW T \in SUBSET Threads, h \in T, T \cap Handlers = {h},
         Move(T), SameFile,
         Place(h)' = "recv" => Place(h) = "recv" \/ filePos # fileSize,
         Place(h)' \in BeforeHandover => Place(h) \in BeforeHandover \/ filePos = fileSize,
         Stuck(h) => Stuck(h)' \/ state >= StateHandingOver
  PROVE  FileInv'
<1>1. /\ Alive /\ Alive'
      /\ \A g \in Handlers \ {h} : Place(g)' = Place(g) /\ (Stuck(g)' <=> Stuck(g))
      BY Moved
<1>2. ReceiveInv'
  <2>1. ReceiveInv
        BY DEF Now, FileInv
  <2>2. UNCHANGED <<state, filePos, fileSize, posts.handed, Complete>>
        BY DEF SameFile, Complete
  <2>3. \A g \in Handlers : Place(g)' = "recv" => filePos' # fileSize'
        BY <1>1, <2>1, <2>2 DEF ReceiveInv
  <2>4. \A g \in Handlers : Place(g)' \in BeforeHandover => filePos' = fileSize'
        BY <1>1, <2>1, <2>2 DEF ReceiveInv, BeforeHandover
  <2>5. state < StateHandingOver /\ (\E g \in Handlers : Stuck(g))
          => \E g \in Handlers : Stuck(g)'
        BY <1>1, NowFacts DEF StateHandingOver
  <2>6. QED
        BY <1>1, <2>1, <2>2, <2>3, <2>4, <2>5 DEF ReceiveInv, BeforeHandover
<1>3. QED
      BY <1>2, FileStays


-----------------------------------------------------------------------------
(* Steps that change the file.                                               *)

LEMMA SizeDeclared ==
  ASSUME Now, NEW h \in Handlers, Declares(h)
  PROVE  FileInv'
<1> USE DEF StateInit, StateUploading, StateHandingOver, StateCancelled, StateFinished,
            StateCleanedUp
<1>1. /\ state = 0 /\ state' = 0 /\ filePos = 0 /\ filePos' = 0
      /\ posts.handed = 0 /\ posts' = posts
      BY NowFacts DEF Declares
<1>2. \A g \in Handlers : Place(g)' \notin {"recv"} \cup BeforeHandover
  <2>1. In(h) /\ h \in Threads /\ Move({h}) /\ Place(h)' \notin {"recv"} \cup BeforeHandover
        BY DEF Declares, In, SessionLabels, BeforeHandover, Threads, Requests
  <2>2. QED
        BY <2>1, NobodyReceives
<1>3. ReceiveInv'
      BY <1>1, <1>2 DEF Declares, ReceiveInv, Complete
<1>4. DiskInv' /\ FileOpenIffReceiving' /\ CleanedUpLeavesNoFile'
      BY <1>1 DEF Now, FileInv, Declares, DiskInv, FileOpenIffReceiving,
                  CleanedUpLeavesNoFile
<1>5. QED
      BY <1>3, <1>4 DEF FileInv

\* The last chunk completes the file or leaves its session with an error.
LEMMA ChunkReceived ==
  ASSUME Now, NEW h \in Handlers, Consumes(h)
  PROVE  FileInv'
<1> USE DEF StateInit, StateUploading, StatePaused, StateHandingOver, StateCancelled,
            StateFinished, StateCleanedUp
<1>1. /\ h \in Threads /\ Move({h}) /\ In(h)
      /\ Place(h) = "recv" /\ Place(h)' \in {"loop", "chunkErr"}
      BY DEF Consumes, In, SessionLabels, Threads, Requests
<1>2. filePos # fileSize
      BY <1>1 DEF Now, FileInv, ReceiveInv
<1>3. /\ state <= 2 /\ state' <= 2 /\ posts.handed = 0 /\ posts' = posts
      /\ UNCHANGED <<fileSize, outcome>>
      BY NowFacts DEF Consumes
<1>4. \A g \in Handlers : Place(g)' \notin {"recv"} \cup BeforeHandover
  <2>1. Place(h)' \notin {"recv"} \cup BeforeHandover
        BY <1>1 DEF BeforeHandover
  <2>2. QED
        BY <1>1, <2>1, NobodyReceives
<1>5. filePos' = fileSize => Complete' \/ Stuck(h)'
      BY <1>2, <1>3 DEF Consumes, Complete, Stuck
<1>6. ReceiveInv'
      BY <1>3, <1>4, <1>5, NowFacts DEF ReceiveInv
<1>7. DiskInv'
      BY <1>3, NowFacts DEF Now, FileInv, Consumes, DiskInv, OpenedPath, OpenedDisk
<1>8. FileOpenIffReceiving'
  <2>1. fd <=> state = 1
        BY <1>2 DEF Now, FileInv, FileOpenIffReceiving
  <2>2. OpenedFd
        BY <1>3, <2>1, NowFacts DEF OpenedFd
  <2>3. \/ state' = state /\ state # 1 /\ UNCHANGED <<fd, filePos>>
        \/ state' = 1 /\ fd' = OpenedFd /\ UNCHANGED filePos
        \/ state' = 1 /\ fd' = (filePos' # fileSize)
        \/ state' = 1 /\ fd' = FALSE /\ filePos' = fileSize
        BY DEF Consumes
  <2>4. fileSize' = fileSize
        BY <1>3
  <2>5. QED
        BY <1>2, <2>1, <2>2, <2>3, <2>4, Zenon DEF FileOpenIffReceiving
<1>9. CleanedUpLeavesNoFile'
      BY <1>3, NowFacts DEF CleanedUpLeavesNoFile
<1>10. QED
      BY <1>6, <1>7, <1>8, <1>9 DEF FileInv

LEMMA SessionPaused ==
  ASSUME Now, NEW h \in Handlers, Pauses(h)
  PROVE  FileInv'
<1> USE DEF StateInit, StateUploading, StatePaused, StateHandingOver, StateCancelled,
            StateFinished, StateCleanedUp
<1>1. /\ h \in Threads /\ Move({h}) /\ In(h)
      /\ Place(h) = "recv" /\ Place(h)' = "loop"
      BY DEF Pauses, In, SessionLabels, Threads, Requests
<1>2. filePos # fileSize
      BY <1>1 DEF Now, FileInv, ReceiveInv
<1>3. /\ state \in {1, 2} /\ state' = 2 /\ posts.handed = 0 /\ ~fd'
      /\ UNCHANGED <<path, filePos, fileSize, disk, outcome, posts>>
      BY NowFacts DEF Pauses
<1>4. \A g \in Handlers : Place(g)' \notin {"recv"} \cup BeforeHandover
  <2>1. Place(h)' \notin {"recv"} \cup BeforeHandover
        BY <1>1 DEF BeforeHandover
  <2>2. QED
        BY <1>1, <2>1, NobodyReceives
<1>5. ReceiveInv'
      BY <1>2, <1>3, <1>4 DEF ReceiveInv
<1>6. DiskInv'
      BY <1>3 DEF Now, FileInv, DiskInv
<1>7. FileOpenIffReceiving' /\ CleanedUpLeavesNoFile'
      BY <1>3 DEF FileOpenIffReceiving, CleanedUpLeavesNoFile
<1>8. QED
      BY <1>5, <1>6, <1>7 DEF FileInv

\* Nobody else is in a session, so nobody is on the way to a cancellation.
LEMMA HandoverStarts ==
  ASSUME Now, NEW h \in Handlers, StartsHandover(h)
  PROVE  FileInv'
<1> USE DEF StateInit, StateUploading, StatePaused, StateHandingOver, StateCancelled,
            StateFinished, StateCleanedUp
<1>1. /\ h \in Threads /\ Handover \in Threads /\ Handover \notin Handlers
      /\ Move({h, Handover}) /\ In(h)
      /\ Place(h) = "start handover" /\ Place(h)' = "wait"
      BY ThreadsAssumption DEF StartsHandover, In, SessionLabels, Threads, Requests
<1>2. /\ state < 3 /\ state' = 3
      /\ UNCHANGED <<path, fd, filePos, fileSize, disk, posts, outcome>>
      BY DEF StartsHandover
<1>3. filePos = fileSize
      BY <1>1 DEF Now, FileInv, ReceiveInv, BeforeHandover
<1>4. \A g \in Handlers : ~Stuck(g)
      BY <1>1, OthersOut DEF Stuck, BeforeHandover
<1>5. Complete
      BY <1>1, <1>2, <1>3, <1>4, Moved DEF Now, FileInv, ReceiveInv
<1>6. \A g \in Handlers : Place(g)' \notin {"recv"} \cup BeforeHandover
  <2>1. Place(h)' \notin {"recv"} \cup BeforeHandover
        BY <1>1 DEF BeforeHandover
  <2>2. {h, Handover} \in SUBSET Threads /\ {h, Handover} \cap Handlers = {h}
        BY <1>1
  <2>3. QED
        BY <1>1, <2>1, <2>2, NobodyReceives
<1>7. ReceiveInv'
      BY <1>2, <1>5, <1>6 DEF ReceiveInv, Complete
<1>8. DiskInv'
      BY <1>2, NowFacts DEF Now, FileInv, DiskInv
<1>9. FileOpenIffReceiving' /\ CleanedUpLeavesNoFile'
      BY <1>2, <1>3 DEF Now, FileInv, FileOpenIffReceiving, CleanedUpLeavesNoFile
<1>10. QED
      BY <1>7, <1>8, <1>9 DEF FileInv

LEMMA FileCancelled ==
  ASSUME Now, NEW t \in Threads, Cancels(t)
  PROVE  FileInv'
<1> USE DEF StateInit, StateUploading, StatePaused, StateHandingOver, StateCancelled,
            StateFinished, StateCleanedUp
<1>1. /\ state < 3 /\ state' = 4 /\ outcome' = "cancelled" /\ ~fd' /\ disk' \in Unlinked
      /\ posts.handed = 0 /\ UNCHANGED <<path, filePos, fileSize, posts>>
      BY NowFacts DEF Cancels
<1>2. /\ Place(t)' \notin {"recv"} \cup BeforeHandover
      /\ \A g \in Handlers \ {t} : Place(g)' = Place(g)
      BY Moved DEF Cancels, BeforeHandover
<1>3. ReceiveInv'
      BY <1>1, <1>2 DEF Now, FileInv, ReceiveInv
<1>4. DiskInv'
      BY <1>1, NowFacts DEF Now, FileInv, DiskInv, Unlinked
<1>5. FileOpenIffReceiving' /\ CleanedUpLeavesNoFile'
      BY <1>1 DEF FileOpenIffReceiving, CleanedUpLeavesNoFile
<1>6. QED
      BY <1>3, <1>4, <1>5 DEF FileInv

LEMMA FileCleanedUp ==
  ASSUME Now, NEW t \in Threads, CleansUp(t)
  PROVE  FileInv'
<1> USE DEF StateInit, StateUploading, StatePaused, StateHandingOver, StateCancelled,
            StateFinished, StateCleanedUp
<1>1. /\ state \in {4, 5} /\ state' = 6
      /\ disk' \in IF RemoveFileWhenFinished /\ state # 4 THEN Unlinked ELSE {disk}
      /\ UNCHANGED <<path, fd, filePos, fileSize, posts, outcome>>
      BY NowFacts DEF CleansUp
<1>2. /\ Place(t)' \notin {"recv"} \cup BeforeHandover
      /\ \A g \in Handlers \ {t} : Place(g)' = Place(g)
      BY Moved DEF CleansUp, BeforeHandover
<1>3. ReceiveInv'
      BY <1>1, <1>2 DEF Now, FileInv, ReceiveInv, Complete
<1>4. DiskInv'
      BY <1>1 DEF DiskInv
<1>5. FileOpenIffReceiving'
      BY <1>1 DEF Now, FileInv, FileOpenIffReceiving
<1>6. CleanedUpLeavesNoFile'
  <2>1. ~fd'
        BY <1>1, NowFacts DEF Now, FileInv, FileOpenIffReceiving
  <2>2. CASE state = 4
    <3>1. disk' = disk
          BY <1>1, <2>2
    <3>2. ~HandoverFailed' /\ ~RemoveMayFail => disk \in {"none", "taken"}
          BY <1>1, <2>2, NowFacts DEF Now, FileInv, DiskInv, HandoverFailed
    <3>3. QED
          BY <2>1, <3>1, <3>2 DEF CleanedUpLeavesNoFile
  <2>3. CASE state = 5
    <3>1. disk \in {"none", "taken", path} /\ outcome' = "finished"
          BY <1>1, <2>3, NowFacts DEF Now, FileInv, DiskInv
    <3>2. RemoveFileWhenFinished /\ ~RemoveMayFail => disk' \in {"none", "taken"}
          BY <1>1, <2>3, <3>1 DEF Unlinked
    <3>3. QED
          BY <2>1, <3>1, <3>2 DEF CleanedUpLeavesNoFile
  <2>4. QED
        BY <1>1, <2>2, <2>3
<1>7. QED
      BY <1>3, <1>4, <1>5, <1>6 DEF FileInv

LEMMA FileTaken ==
  ASSUME Now, AppTakesFile, UNCHANGED <<pc, after>>
  PROVE  FileInv'
<1> USE DEF StateInit, StateUploading, StatePaused, StateHandingOver, StateCancelled,
            StateFinished, StateCleanedUp
<1>1. /\ posts.handed > 0 /\ disk' = "taken"
      /\ UNCHANGED <<state, path, fd, filePos, fileSize, posts, outcome>>
      BY DEF AppTakesFile, history
<1>2. ReceiveInv'
      BY <1>1 DEF Now, FileInv, ReceiveInv, Complete, Place, Stuck, Alive
<1>3. DiskInv' /\ FileOpenIffReceiving' /\ CleanedUpLeavesNoFile'
      BY <1>1, NowFacts DEF Now, FileInv, DiskInv, FileOpenIffReceiving,
                            CleanedUpLeavesNoFile
<1>4. QED
      BY <1>2, <1>3 DEF FileInv

LEMMA ProcessDiesFile ==
  ASSUME Now, ProcessDies
  PROVE  FileInv'
<1>1. \A t \in Threads : pc'[t] = "dead"
      BY DEF ProcessDies
<1>2. ~Alive' /\ \A h \in Handlers : Place(h)' = "dead"
      BY <1>1 DEF Alive, Place, Threads, Requests
<1>3. SameFile
      BY DEF ProcessDies, SameFile, fileVars, history
<1>4. ReceiveInv'
      BY <1>2, <1>3 DEF Now, FileInv, SameFile, ReceiveInv, Complete, BeforeHandover
<1>5. QED
      BY <1>3, <1>4, FileStays


-----------------------------------------------------------------------------
(* The steps of the threads.                                                 *)

LEMMA TellsSameFile ==
  ASSUME Now, NEW t \in Threads, Tells(t)
  PROVE  SameFile
<1>1. posts'.handed = posts.handed
      BY DEF Tells, Now, SessionNow, TypeInv, CountersOK
<1>2. QED
      BY <1>1 DEF Tells, SameFile

LEMMA HandlerFile ==
  ASSUME Now, NEW h \in Handlers, HandlerDoes(h)
  PROVE  FileInv'
<1> /\ h \in Threads /\ Handover \in Threads /\ Handover \notin Handlers
    BY ThreadsAssumption DEF Threads, Requests
<1>1. CASE Moves(h) \/ Binds(h) \/ Unbinds(h) \/ Tells(h)
  <2>1. Move({h}) /\ SameFile
        BY <1>1, TellsSameFile DEF Moves, Binds, Unbinds, Tells, DataSame, FileSame, SameFile
  <2>2. /\ Place(h)' = "recv" => Place(h) = "recv" \/ filePos # fileSize
        /\ Place(h)' \in BeforeHandover => Place(h) \in BeforeHandover \/ filePos = fileSize
        /\ Stuck(h) => Stuck(h)' \/ state >= StateHandingOver
        BY <1>1 DEF Moves, Binds, Unbinds, Tells, BeforeHandover, Stuck
  <2>3. QED
        BY <2>1, <2>2, HandlerLeavesFile
<1>2. CASE Learns(h)
  <2>1. Move({h, Handover}) /\ SameFile
        BY <1>2 DEF Learns, FileSame, SameFile
  <2>2. /\ Place(h)' \notin {"recv"} \cup BeforeHandover /\ ~Stuck(h)
        BY <1>2 DEF Learns, BeforeHandover, Stuck
  <2>3. {h, Handover} \in SUBSET Threads /\ {h, Handover} \cap Handlers = {h}
        OBVIOUS
  <2>4. QED
        BY <2>1, <2>2, <2>3, HandlerLeavesFile
<1>3. QED
      BY <1>1, <1>2, SizeDeclared, ChunkReceived, SessionPaused, HandoverStarts,
         FileCancelled, FileCleanedUp
      DEF HandlerDoes

LEMMA OtherFile ==
  ASSUME Now, NEW t \in Threads, OtherDoes(t)
  PROVE  FileInv'
<1> /\ t \in Threads \ Handlers /\ Handover \in Threads \ Handlers
    BY ThreadsAssumption DEF OtherDoes, Threads, Requests
<1>1. CASE Rests(t) \/ Tells(t) \/ Confirms(t)
  <2>1. SameFile /\ (Move({t}) \/ Move({t, Handover}))
        BY <1>1, TellsSameFile DEF Rests, Confirms, Tells, FileSame, SameFile
  <2>2. /\ {t} \in SUBSET Threads /\ {t} \cap Handlers = {}
        /\ {t, Handover} \in SUBSET Threads /\ {t, Handover} \cap Handlers = {}
        OBVIOUS
  <2>3. QED
        BY <2>1, <2>2, OthersLeaveFile
<1>2. QED
      BY <1>1, FileCancelled, FileCleanedUp DEF OtherDoes

\* The steps of the handover goroutine; it cancels nothing that it has not ended
\* itself.
LEMMA HandoverSteady ==
  ASSUME Now, HandoverRuns
  PROVE  \/ FileSame
         \/ /\ HandoverPosts /\ state = StateHandingOver
         \/ /\ state = StateHandingOver
            /\ \/ HandoverEnds("finish", "offerOk", StateFinished, "finished")
               \/ HandoverEnds("fail", "cancel", StateCancelled, "cancelled")
<1> USE DEF FileSame, fileVars, history
<1>1. CASE HandoverPosts
  <2>1. HandoverAt("post")
        BY <1>1 DEF HandoverPosts, HandoverAt
  <2>2. QED
        BY <1>1, <2>1 DEF Now, PromiseInv, HandoverInv, ToAnnounce
<1>2. CASE HandoverEnds("finish", "offerOk", StateFinished, "finished")
  <2>1. HandoverAt("finish")
        BY <1>2 DEF HandoverEnds, HandoverAt
  <2>2. QED
        BY <1>2, <2>1 DEF Now, PromiseInv, HandoverInv, Announced
<1>3. CASE HandoverEnds("fail", "cancel", StateCancelled, "cancelled")
  <2>1. HandoverAt("fail")
        BY <1>3 DEF HandoverEnds, HandoverAt
  <2>2. QED
        BY <1>3, <2>1 DEF Now, PromiseInv, HandoverInv, Announced
<1>4. CASE Cancel(Handover, FALSE, "offerErr", "offerErr")
  <2>1. ~MayCancel
        BY <1>4, NowFacts DEF Now, GoInv, Cancel, MayCancel, StateHandingOver
  <2>2. QED
        BY <1>4, <2>1 DEF Cancel
<1>5. CASE \/ LockToReset(Handover, "announce", "post") \/ ResetTimeout(Handover)
           \/ \E r \in AppReplies : HandoverAnswered(r)
           \/ LockToReset(Handover, "reply", after[Handover])
           \/ HandoverPanics \/ HandoverTimesOut
           \/ LockToReset(Handover, "confirmed", "finish") \/ HandoverExpires
      BY <1>5 DEF LockToReset, ResetTimeout, HandoverAnswered, HandoverPanics,
                  ProcessDies, HandoverTimesOut, HandoverExpires
<1>6. QED
      BY <1>1, <1>2, <1>3, <1>4, <1>5 DEF HandoverRuns, HandoverGoroutine

LEMMA HandoverFile ==
  ASSUME Now, HandoverRuns
  PROVE  FileInv'
<1> USE DEF StateInit, StateUploading, StatePaused, StateHandingOver, StateCancelled,
            StateFinished, StateCleanedUp
<1> Handover \in Threads \ Handlers
    BY ThreadsAssumption DEF Threads, Requests
<1>1. Move({Handover})
      BY DEF HandoverRuns
<1>2. CASE FileSame
      BY <1>1, <1>2, OthersLeaveFile DEF FileSame, SameFile
<1>3. CASE ~FileSame
  <2>1. /\ state = 3 /\ Complete
        BY <1>3, HandoverSteady DEF Now, FileInv, ReceiveInv
  <2>2. /\ UNCHANGED <<path, fd, filePos, fileSize, disk>>
        /\ \/ UNCHANGED <<state, outcome>>
           \/ state' = 5 /\ outcome' = "finished" /\ UNCHANGED posts
           \/ state' = 4 /\ outcome' = "cancelled" /\ UNCHANGED posts /\ pc[Handover] = "fail"
        BY <1>3, HandoverSteady DEF HandoverPosts, HandoverEnds, fileVars, history
  <2>3. \A h \in Handlers : Place(h)' = Place(h)
        BY <1>1, Moved
  <2>4. ReceiveInv'
        BY <2>1, <2>2, <2>3 DEF Now, FileInv, ReceiveInv, Complete
  <2>5. pc[Handover] = "fail" => posts.handed = 1
        BY DEF Now, PromiseInv, HandoverInv, HandoverAt, Announced
  <2>6. DiskInv'
        BY <2>1, <2>2, <2>5 DEF Now, FileInv, DiskInv
  <2>7. FileOpenIffReceiving' /\ CleanedUpLeavesNoFile'
        BY <2>1, <2>2 DEF Now, FileInv, FileOpenIffReceiving, CleanedUpLeavesNoFile
  <2>8. QED
        BY <2>4, <2>6, <2>7 DEF FileInv
<1>4. QED
      BY <1>2, <1>3

LEMMA FileStep == Now /\ [Next]_server => FileInv'
<1> SUFFICES ASSUME Now, [Next]_server
             PROVE  FileInv'
    OBVIOUS
<1>1. CASE Nobody
  <2>1. CASE AppTakesFile
        BY <1>1, <2>1, FileTaken DEF Nobody
  <2>2. CASE FileSame
    <3>1. SameFile /\ UNCHANGED <<pc, after>>
          BY <1>1, <2>2 DEF Nobody, FileSame, SameFile
    <3>2. ReceiveInv'
          BY <3>1 DEF Now, FileInv, SameFile, ReceiveInv, Complete, Place, Stuck, Alive
    <3>3. QED
          BY <3>1, <3>2, FileStays
  <2>3. QED
        BY <1>1, <2>1, <2>2 DEF Nobody
<1>2. QED
      BY <1>1, NextSteps, HandlerFile, OtherFile, HandoverFile, ProcessDiesFile
      DEF Now, SessionNow, SessionInv


-----------------------------------------------------------------------------
(* The handover goroutine and the channels.                                  *)

LEMMA GoStays ==
  ASSUME Now, UNCHANGED <<pc[Handover], after[Handover], waitClosed>>,
         state' < 3 => state < 3, state > 3 => state' > 3, timeoutClosed' => state' = 6
  PROVE  GoInv'
BY DEF Now, GoInv, StateHandingOver, StateCleanedUp

LEMMA HandlerGo ==
  ASSUME Now, NEW h \in Handlers, HandlerDoes(h)
  PROVE  GoInv'
<1> USE DEF StateInit, StateUploading, StatePaused, StateHandingOver, StateCancelled,
            StateFinished, StateCleanedUp
<1> /\ h \in Threads /\ Handover \in Threads /\ h # Handover
    BY ThreadsAssumption DEF Threads, Requests
<1>1. timeoutClosed => state = 6
      BY DEF Now, GoInv
<1>2. CASE StartsHandover(h)
  <2>1. pc[Handover] # "dead" /\ pc'[Handover] = "announce"
        BY <1>2 DEF StartsHandover, Move
  <2>2. state < 3 /\ state' = 3 /\ UNCHANGED <<waitClosed, timeoutClosed>>
        BY <1>2 DEF StartsHandover, ChannelsSame
  <2>3. ~waitClosed
        BY <2>1, <2>2 DEF Now, GoInv
  <2>4. QED
        BY <1>1, <2>1, <2>2, <2>3 DEF GoInv
<1>3. CASE Learns(h)
  <2>1. /\ pc'[Handover] = "ended" /\ pc[Handover] \in {"offerOk", "offerErr"}
        /\ UNCHANGED <<state, timeoutClosed>>
        BY <1>3 DEF Learns, FileSame
  <2>2. QED
        BY <2>1, NowFacts DEF Now, GoInv
<1>4. CASE \/ Moves(h) \/ Binds(h) \/ Unbinds(h) \/ Declares(h) \/ Consumes(h)
           \/ Pauses(h) \/ Cancels(h) \/ Tells(h) \/ CleansUp(h)
  <2>1. UNCHANGED <<pc[Handover], after[Handover], waitClosed>>
        BY <1>4 DEF Move, Moves, Binds, Unbinds, Declares, Consumes, Pauses, Cancels,
                    Tells, CleansUp, DataSame, ChannelsSame
  <2>2. \/ state' = state /\ UNCHANGED timeoutClosed
        \/ state < 3 /\ state' \in 0..4 /\ UNCHANGED timeoutClosed
        \/ state > 3 /\ state' = 6
        BY <1>4, NowFacts
        DEF Moves, Binds, Unbinds, Declares, Consumes, Pauses, Cancels,
            Tells, CleansUp, DataSame, FileSame, ChannelsSame
  <2>3. QED
        BY <1>1, <2>1, <2>2, NowFacts, GoStays
<1>5. QED
      BY <1>2, <1>3, <1>4 DEF HandlerDoes

LEMMA OtherGo ==
  ASSUME Now, NEW t \in Threads, OtherDoes(t)
  PROVE  GoInv'
<1> USE DEF StateHandingOver, StateCancelled, StateCleanedUp
<1> Handover \in Threads /\ t # Handover
    BY DEF OtherDoes, Threads
<1>1. timeoutClosed => state = 6
      BY DEF Now, GoInv
<1>2. CASE Confirms(t)
  <2>1. /\ pc[Handover] = "await" /\ pc'[Handover] = "confirmed"
        /\ UNCHANGED <<state, timeoutClosed, waitClosed>>
        BY <1>2 DEF Confirms, FileSame, ChannelsSame
  <2>2. QED
        BY <2>1 DEF Now, GoInv
<1>3. CASE Rests(t) \/ Cancels(t) \/ Tells(t) \/ CleansUp(t)
  <2>1. UNCHANGED <<pc[Handover], after[Handover], waitClosed>>
        BY <1>3 DEF Move, Rests, Cancels, Tells, CleansUp, ChannelsSame
  <2>2. \/ state' = state /\ UNCHANGED timeoutClosed
        \/ state < 3 /\ state' = 4 /\ UNCHANGED timeoutClosed
        \/ state > 3 /\ state' = 6
        BY <1>3, NowFacts DEF Rests, Cancels, Tells, CleansUp, FileSame, ChannelsSame
  <2>3. QED
        BY <1>1, <2>1, <2>2, NowFacts, GoStays
<1>4. QED
      BY <1>2, <1>3 DEF OtherDoes

LEMMA HandoverGo ==
  ASSUME Now, HandoverRuns
  PROVE  GoInv'
<1> USE DEF StateHandingOver, StateCancelled, StateFinished, StateCleanedUp
<1> Handover \in Threads /\ ControlOK
    BY DEF Threads, Now, SessionNow, TypeInv
<1> DEFINE here == pc[Handover]
           next == pc'[Handover]
<1>1. timeoutClosed => state = 6
      BY DEF Now, GoInv
<1>2. state < 3 => here \in {"none", "dead"}
      BY DEF Now, GoInv
<1>3. waitClosed => here = "ended" \/ here = "dead"
      BY DEF Now, GoInv
<1>4. ASSUME state' = state, UNCHANGED <<timeoutClosed, waitClosed>>,
             here \notin {"none", "dead", "ended"},
             next \notin {"cancel", "offerOk", "offerErr", "ended"},
             next = "reset" => after'[Handover] \in {"post", "finish", "await", "fail", "panic"}
      PROVE  GoInv'
      BY <1>1, <1>2, <1>3, <1>4 DEF GoInv
<1>5. CASE LockToReset(Handover, "announce", "post")
           \/ LockToReset(Handover, "confirmed", "finish")
      BY <1>4, <1>5 DEF LockToReset, KeepLock, ControlOK, timerVars
<1>6. CASE LockToReset(Handover, "reply", after[Handover])
  <2>1. HandoverAt("reply")
        BY <1>6 DEF LockToReset, HandoverAt
  <2>2. after[Handover] \in {"finish", "await", "fail", "panic"}
        BY <2>1 DEF Now, PromiseInv, HandoverInv
  <2>3. QED
        BY <1>4, <1>6, <2>2 DEF LockToReset, KeepLock, ControlOK, timerVars
<1>7. CASE ResetTimeout(Handover)
  <2>1. after[Handover] \in {"post", "finish", "await", "fail", "panic"}
        BY <1>7 DEF ResetTimeout, Now, GoInv
  <2>2. QED
        BY <1>4, <1>7, <2>1 DEF ResetTimeout, ControlOK
<1>8. CASE HandoverPosts \/ HandoverTimesOut
      BY <1>4, <1>8 DEF HandoverPosts, HandoverTimesOut, Goto, ControlOK, timerVars
<1>9. ASSUME NEW r \in AppReplies, HandoverAnswered(r)
      PROVE  GoInv'
      BY <1>4, <1>9 DEF HandoverAnswered, ControlOK, timerVars
<1>10. CASE HandoverPanics
  <2>1. next = "dead" /\ here = "panic" /\ UNCHANGED <<state, timeoutClosed, waitClosed>>
        BY <1>10 DEF HandoverPanics, ProcessDies, timerVars
  <2>2. QED
        BY <1>4, <2>1
<1>11. CASE \/ HandoverEnds("finish", "offerOk", StateFinished, "finished")
            \/ HandoverEnds("fail", "cancel", StateCancelled, "cancelled")
  <2>1. HandoverAt("finish") \/ HandoverAt("fail")
        BY <1>11 DEF HandoverEnds, HandoverAt
  <2>2. state = 3
        BY <2>1 DEF Now, PromiseInv, HandoverInv, Announced
  <2>3. /\ state' \in {4, 5} /\ UNCHANGED <<timeoutClosed, waitClosed>>
        /\ here \notin {"ended", "dead"} /\ next \in {"offerOk", "cancel"}
        BY <1>11 DEF HandoverEnds, Goto, ControlOK, timerVars, fileVars
  <2>4. QED
        BY <1>1, <1>3, <2>2, <2>3 DEF GoInv
<1>12. CASE Cancel(Handover, FALSE, "offerErr", "offerErr") \/ HandoverExpires
  <2>1. here \in {"cancel", "offerOk", "offerErr"} /\ state > 3
    <3>1. here \in {"cancel", "offerOk", "offerErr"}
          BY <1>12 DEF Cancel, HandoverExpires
    <3>2. QED
          BY <3>1 DEF Now, GoInv
  <2>2. /\ UNCHANGED <<state, timeoutClosed>>
        /\ next = "ended" \/ (next = "offerErr" /\ UNCHANGED waitClosed)
    <3>1. CASE HandoverExpires
      <4>1. Goto(Handover, "ended") /\ UNCHANGED <<state, timeoutClosed>>
            BY <3>1 DEF HandoverExpires, timerVars
      <4>2. QED
            BY <4>1 DEF Goto, ControlOK
    <3>2. CASE Cancel(Handover, FALSE, "offerErr", "offerErr")
      <4>1. ~MayCancel
            BY <2>1, NowFacts DEF MayCancel
      <4>2. Goto(Handover, "offerErr") /\ UNCHANGED <<state, timeoutClosed, waitClosed>>
            BY <3>2, <4>1 DEF Cancel, timerVars
      <4>3. QED
            BY <4>2 DEF Goto, ControlOK
    <3>3. QED
          BY <1>12, <3>1, <3>2
  <2>3. QED
        BY <1>1, <1>3, <2>1, <2>2, NowFacts DEF GoInv
<1>13. QED
      BY <1>5, <1>6, <1>7, <1>8, <1>9, <1>10, <1>11, <1>12
      DEF HandoverRuns, HandoverGoroutine

LEMMA GoStep == Now /\ [Next]_server => GoInv'
<1> SUFFICES ASSUME Now, [Next]_server
             PROVE  GoInv'
    OBVIOUS
<1>1. CASE Nobody
  <2>1. UNCHANGED <<pc, after, state, timeoutClosed, waitClosed>>
        BY <1>1 DEF Nobody, AppTakesFile, FileSame, ChannelsSame, timerVars
  <2>2. QED
        BY <2>1 DEF Now, GoInv
<1>2. CASE ProcessDies
  <2>1. pc'[Handover] = "dead" /\ UNCHANGED <<state, timeoutClosed, waitClosed>>
        BY <1>2 DEF ProcessDies, timerVars, Threads
  <2>2. QED
        BY <2>1 DEF Now, GoInv
<1>3. QED
      BY <1>1, <1>2, NextSteps, HandlerGo, OtherGo, HandoverGo DEF Now, SessionNow, SessionInv


-----------------------------------------------------------------------------
(* The life of the upload.                                                   *)

LifeStep == [Life!LifeNext]_(Life!lifeVars)

\* Only the handler that has found the upload finished tells a browser so.
LEMMA AllDoneSteps ==
  ASSUME [Next]_server
  PROVE  UNCHANGED allDone \/ \E h \in Handlers : SendAllDone(h)
BY DEF Next, WebsocketHandler, CancelUploadHandler, FinishUploadHandler,
       UploaderGoroutines, AppTakesFile, server

LEMMA TellsBrowser ==
  ASSUME Now, NEW h \in Handlers, SendAllDone(h)
  PROVE  LifeStep
<1>1. UNCHANGED <<state, fileSize, filePos, outcome, accepted>> /\ allDone' = TRUE
      BY DEF SendAllDone, Step, fileVars, history
<1>2. accepted
      BY NowFacts DEF SendAllDone, StateFinished, Now, PromiseInv, AcceptInv
<1>3. LifePhase = "accepted" /\ LifePhase' = LifePhase
      BY <1>1, <1>2 DEF LifePhase
<1>4. Life!TellBrowser
      BY <1>1, <1>3 DEF Life!TellBrowser
<1>5. QED
      BY <1>4 DEF LifeStep, Life!LifeNext

\* What is declared or received changes nothing else.
LEMMA ReceivesMore ==
  ASSUME Now, Now', UNCHANGED allDone, NEW h \in Handlers, Declares(h) \/ Consumes(h)
  PROVE  LifeStep
<1>1. /\ state < StateHandingOver /\ state' < StateHandingOver
      /\ UNCHANGED <<outcome, accepted>>
      BY NowFacts DEF Declares, Consumes, StateInit, StateUploading, StatePaused,
                      StateHandingOver
<1>2. LifePhase = "open" /\ LifePhase' = "open"
  <2>1. outcome = "open" /\ ~accepted /\ state # StateHandingOver /\ state' # StateHandingOver
        BY <1>1, NowFacts DEF Now, PromiseInv, StateInv, StateHandingOver
  <2>2. outcome' = "open" /\ ~accepted'
        BY <1>1, <2>1
  <2>3. QED
        BY <2>1, <2>2 DEF LifePhase
<1>3. /\ fileSize \in Int /\ filePos \in Nat /\ (filePos > 0 => filePos <= fileSize)
      /\ fileSize' \in Int /\ filePos' \in Nat /\ (filePos' > 0 => filePos' <= fileSize')
      BY DEF Now, SessionNow, TypeInv, NumbersOK
<1>4. CASE Declares(h)
  <2>1. filePos = 0 /\ UNCHANGED filePos
        BY <1>4, NowFacts DEF Declares, StateInit
  <2>2. Life!Declare
        BY <1>2, <1>3, <2>1 DEF Life!Declare
  <2>3. QED
        BY <2>2 DEF LifeStep, Life!LifeNext
<1>5. CASE Consumes(h)
  <2>1. fileSize' = fileSize /\ filePos' >= filePos
        BY <1>3, <1>5 DEF Consumes
  <2>2. CASE filePos' = filePos
        BY <1>2, <2>1, <2>2 DEF LifeStep, Life!lifeVars
  <2>3. CASE filePos' # filePos
    <3>1. filePos' \in filePos + 1..fileSize
          BY <1>3, <2>1, <2>3
    <3>2. Life!Receive
          BY <1>2, <2>1, <3>1 DEF Life!Receive
    <3>3. QED
          BY <3>2 DEF LifeStep, Life!LifeNext
  <2>4. QED
        BY <2>2, <2>3
<1>6. QED
      BY <1>4, <1>5

LEMMA PositionSteps ==
  ASSUME Now, [Next]_server
  PROVE  \/ UNCHANGED <<filePos, fileSize>>
         \/ \E h \in Handlers : Declares(h) \/ Consumes(h)
<1>1. ASSUME NEW h \in Handlers, HandlerDoes(h)
      PROVE  UNCHANGED <<filePos, fileSize>> \/ Declares(h) \/ Consumes(h)
      BY <1>1 DEF HandlerDoes, Moves, Binds, Unbinds, Pauses, StartsHandover, Learns,
                  Cancels, Tells, CleansUp, DataSame, FileSame
<1>2. ASSUME NEW t \in Threads, OtherDoes(t)
      PROVE  UNCHANGED <<filePos, fileSize>>
      BY <1>2 DEF OtherDoes, Rests, Confirms, Cancels, Tells, CleansUp, FileSame
<1>3. ASSUME HandoverRuns
      PROVE  UNCHANGED <<filePos, fileSize>>
      BY <1>3, HandoverSteady DEF HandoverPosts, HandoverEnds, FileSame, fileVars
<1>4. ASSUME ProcessDies \/ Nobody
      PROVE  UNCHANGED <<filePos, fileSize>>
      BY <1>4 DEF ProcessDies, Nobody, AppTakesFile, FileSame, fileVars
<1>5. QED
      BY <1>1, <1>2, <1>3, <1>4, NextSteps DEF Now, SessionNow, SessionInv

\* What the promise to the backend allows is also what the browser may see of it.
LEMMA PromiseStepLives ==
  ASSUME Now, Now', UNCHANGED <<filePos, fileSize, allDone>>,
         [Outcome!OutcomeNext]_(Outcome!outcomeVars)
  PROVE  LifeStep
<1> USE DEF Phase, LifePhase
<1>1. /\ outcome \in {"open", "finished", "cancelled"} /\ accepted \in BOOLEAN
      /\ outcome' \in {"open", "finished", "cancelled"} /\ accepted' \in BOOLEAN
      BY DEF Now, SessionNow, TypeInv, FlagsOK, SwitchesOK, NamesOK
<1>2. CASE LifePhase' = LifePhase
      BY <1>2 DEF LifeStep, Life!lifeVars
<1>3. CASE LifePhase = "open" /\ LifePhase' = "handed"
  <2>1. state' = StateHandingOver
        BY <1>3
  <2>2. filePos' = fileSize'
        BY <2>1 DEF Now, FileInv, ReceiveInv, Complete
  <2>3. Life!HandOver
        BY <1>3, <2>2 DEF Life!HandOver
  <2>4. QED
        BY <2>3 DEF LifeStep, Life!LifeNext
<1>4. CASE LifePhase = "handed" /\ LifePhase' = "accepted"
  <2>1. Life!BackendAccepts
        BY <1>4 DEF Life!BackendAccepts
  <2>2. QED
        BY <2>1 DEF LifeStep, Life!LifeNext
<1>5. CASE LifePhase \in {"open", "handed"} /\ LifePhase' = "failed"
  <2>1. Life!Fail
        BY <1>5 DEF Life!Fail
  <2>2. QED
        BY <2>1 DEF LifeStep, Life!LifeNext
<1>6. \/ LifePhase' = LifePhase
      \/ LifePhase = "open" /\ LifePhase' = "handed"
      \/ LifePhase = "handed" /\ LifePhase' = "accepted"
      \/ LifePhase \in {"open", "handed"} /\ LifePhase' = "failed"
  <2>1. CASE UNCHANGED Outcome!outcomeVars
        BY <1>1, <2>1 DEF Outcome!outcomeVars
  <2>2. CASE Outcome!StartHandover
        BY <1>1, <2>2 DEF Outcome!StartHandover, Now, PromiseInv, AcceptInv, StateInv
  <2>3. CASE Outcome!Accept
        BY <1>1, <2>3 DEF Outcome!Accept
  <2>4. CASE Outcome!Finish
        BY <1>1, <2>4 DEF Outcome!Finish
  <2>5. CASE Outcome!HandoverFails
        BY <1>1, <2>5 DEF Outcome!HandoverFails
  <2>6. CASE Outcome!CancelUpload
        BY <1>1, <2>6 DEF Outcome!CancelUpload, Now, PromiseInv, AcceptInv, StateInv
  <2>7. CASE Outcome!TellFile \/ Outcome!TellCancelled \/ Outcome!Forget
        BY <1>1, <2>7 DEF Outcome!TellFile, Outcome!TellCancelled, Outcome!Forget
  <2>8. QED
        BY <2>1, <2>2, <2>3, <2>4, <2>5, <2>6, <2>7 DEF Outcome!OutcomeNext
<1>7. QED
      BY <1>2, <1>3, <1>4, <1>5, <1>6

LEMMA NextLives ==
  ASSUME Now, Now', [Next]_server
  PROVE  LifeStep
<1>1. [Outcome!OutcomeNext]_(Outcome!outcomeVars)
      BY NextPromised DEF Now, SessionNow, Promised
<1>2. QED
      BY <1>1, AllDoneSteps, TellsBrowser, PositionSteps, ReceivesMore, PromiseStepLives


-----------------------------------------------------------------------------
(* The theorems.                                                             *)

LEMMA NowInit == Init => Now
<1> SUFFICES ASSUME Init
             PROVE  Now
    OBVIOUS
<1>1. state = 0 /\ filePos = 0 /\ fileSize = 0
      BY DEF Init, StateInit
<1>2. path = "" /\ disk = "none" /\ outcome = "open"
      BY DEF Init
<1>3. ~fd /\ ~waitClosed /\ ~timeoutClosed
      BY DEF Init
<1>4. posts.handed = 0
      BY DEF Init
<1>5. /\ \A h \in Handlers : pc[h] = "idle"
      /\ pc[Handover] = "none"
      BY ThreadsAssumption DEF Init, Threads, Requests
<1>6. GoInv
      BY <1>1, <1>3, <1>5 DEF GoInv, StateHandingOver
<1>7. ReceiveInv
  <2>1. Complete
        BY <1>1 DEF Complete
  <2>2. \A h \in Handlers : Place(h) = "idle"
        BY <1>5 DEF Place
  <2>3. state # StateHandingOver
        BY <1>1 DEF StateHandingOver
  <2>4. QED
        BY <1>1, <1>4, <2>1, <2>2, <2>3 DEF ReceiveInv, BeforeHandover
<1>8. DiskInv /\ FileOpenIffReceiving /\ CleanedUpLeavesNoFile
  <2>1. DiskInv
    <3>1. path # "final" /\ disk = "none"
          BY <1>2
    <3>2. state # StateCancelled
          BY <1>1 DEF StateCancelled
    <3>3. QED
          BY <3>1, <3>2 DEF DiskInv
  <2>2. FileOpenIffReceiving
        BY <1>1, <1>3 DEF FileOpenIffReceiving, StateUploading
  <2>3. CleanedUpLeavesNoFile
        BY <1>1 DEF CleanedUpLeavesNoFile, StateCleanedUp
  <2>4. QED
        BY <2>1, <2>2, <2>3
<1>9. QED
      BY <1>6, <1>7, <1>8, SessionInit, PromiseInvInit DEF Now, FileInv

LEMMA NowStep == Now /\ [Next]_server => Now'
<1> SUFFICES ASSUME Now, [Next]_server
             PROVE  Now'
    OBVIOUS
<1>1. SessionNow'
      BY SessionStep DEF Now
<1>2. PromiseInv'
      BY <1>1, NextPromised DEF Now, SessionNow, Promised
<1>3. QED
      BY <1>1, <1>2, FileStep, GoStep DEF Now

LEMMA AlwaysNow == Spec => []Now
BY NowInit, NowStep, PTL DEF Spec

\* Whatever the sizes, the chunks and the errors of the sessions, the app backend
\* hears of a file only when it has all its bytes and its final name
\* (to_local_file.go:366-383, websocket.go:426-432).
THEOREM UploadCompleteBeforeHandover == Spec => []CompleteBeforeHandover
<1>1. Now => CompleteBeforeHandover
      BY DEF Now, FileInv, ReceiveInv, Complete, CompleteBeforeHandover
<1>2. QED
      BY <1>1, AlwaysNow, PTL

\* Nobody deletes a file between its announcement and the backend's answer
\* (to_local_file.go:494, 570).
THEOREM UploadFileThereDuringHandover == Spec => []FileThereDuringHandover
<1>1. Now => FileThereDuringHandover
  <2> SUFFICES ASSUME Now, posts.handed > 0, ~accepted, fileSize > 0,
                      pc[Handover] \in {"posted", "reset", "reply", "await"}
               PROVE  disk \in {"final", "taken"}
      BY DEF FileThereDuringHandover
  <2>1. CASE pc[Handover] \in {"posted", "reply", "await"}
    <3>1. HandoverAt(pc[Handover])
          BY DEF HandoverAt
    <3>2. QED
          BY <2>1, <3>1 DEF Now, PromiseInv, HandoverInv, Announced, FileInv, ReceiveInv,
                            DiskInv, Complete, StateHandingOver
  <2>2. CASE pc[Handover] = "reset"
    <3>1. /\ HandoverAt(after[Handover])
          /\ after[Handover] \in {"post", "finish", "await", "fail", "panic"}
          BY <2>2 DEF HandoverAt, Now, GoInv
    <3>2. state = StateHandingOver
          BY <3>1 DEF Now, PromiseInv, HandoverInv, ToAnnounce, Announced
    <3>3. QED
          BY <3>2 DEF Now, FileInv, ReceiveInv, DiskInv, Complete, StateHandingOver
  <2>3. QED
        BY <2>1, <2>2
<1>2. QED
      BY <1>1, AlwaysNow, PTL

\* The descriptor is open exactly while chunks are expected
\* (to_local_file.go:300-383, 441-466, 502).
THEOREM UploadFileOpenIffReceiving == Spec => []FileOpenIffReceiving
<1>1. Now => FileOpenIffReceiving
      BY DEF Now, FileInv
<1>2. QED
      BY <1>1, AlwaysNow, PTL

\* What CleanUp leaves on disk (to_local_file.go:579-587).
THEOREM UploadCleanedUpLeavesNoFile == Spec => []CleanedUpLeavesNoFile
<1>1. Now => CleanedUpLeavesNoFile
      BY DEF Now, FileInv
<1>2. QED
      BY <1>1, AlwaysNow, PTL

\* Neither channel is closed twice, and the handover goroutine, which sets the end
\* state without looking, never brings back an upload that has been cleaned up.
THEOREM UploadChannelsClosedOnce == Spec => []ChannelsClosedOnce
<1>1. Now => ChannelsClosedOnce
      BY DEF Now, GoInv, ChannelsClosedOnce, MayCleanUp
<1>2. QED
      BY <1>1, AlwaysNow, PTL

\* No step takes back what has been received or changes its size under it.
THEOREM UploadProgressIsKept == Spec => ProgressIsKept
<1>1. Now /\ [Next]_server
        => [filePos' >= filePos /\ (filePos > 0 => fileSize' = fileSize)]_server
  <2> SUFFICES ASSUME Now, [Next]_server
               PROVE  filePos' >= filePos /\ (filePos > 0 => fileSize' = fileSize)
      OBVIOUS
  <2>1. ASSUME UNCHANGED <<filePos, fileSize>>
        PROVE  filePos' >= filePos /\ (filePos > 0 => fileSize' = fileSize)
        BY <2>1, NowFacts
  <2>2. ASSUME NEW h \in Handlers, HandlerDoes(h)
        PROVE  filePos' >= filePos /\ (filePos > 0 => fileSize' = fileSize)
    <3>1. CASE Declares(h)
          BY <3>1, NowFacts DEF Declares, StateInit
    <3>2. CASE Consumes(h)
          BY <3>2, NowFacts DEF Consumes
    <3>3. CASE ~Declares(h) /\ ~Consumes(h)
          BY <2>1, <2>2, <3>3
          DEF HandlerDoes, Moves, Binds, Unbinds, Pauses, StartsHandover, Learns,
              Cancels, Tells, CleansUp, DataSame, FileSame
    <3>4. QED
          BY <3>1, <3>2, <3>3
  <2>3. ASSUME NEW t \in Threads, OtherDoes(t)
        PROVE  UNCHANGED <<filePos, fileSize>>
        BY <2>3 DEF OtherDoes, Rests, Confirms, Cancels, Tells, CleansUp, FileSame
  <2>4. ASSUME HandoverRuns
        PROVE  UNCHANGED <<filePos, fileSize>>
        BY <2>4, HandoverSteady DEF HandoverPosts, HandoverEnds, FileSame, fileVars
  <2>5. ASSUME ProcessDies \/ Nobody
        PROVE  UNCHANGED <<filePos, fileSize>>
        BY <2>5 DEF ProcessDies, Nobody, AppTakesFile, FileSame, fileVars
  <2>6. QED
        BY <2>1, <2>2, <2>3, <2>4, <2>5, NextSteps DEF Now, SessionNow, SessionInv
<1>2. QED
      BY <1>1, AlwaysNow, PTL DEF Spec, ProgressIsKept

\* For its browser the upload lives as UploadLife says: it is handed over once,
\* with all the bytes of its declared size (websocket.go:382), receives nothing
\* after that, and "all done" follows the acceptance.
THEOREM UploadFollowsLife == Spec => FollowsLife
<1>1. Init => Life!LifeInit
  <2> SUFFICES ASSUME Init
               PROVE  Life!LifeInit
      OBVIOUS
  <2>1. filePos = 0 /\ fileSize = 0 /\ outcome = "open" /\ ~accepted /\ ~allDone
        BY DEF Init
  <2>2. state # StateHandingOver
    <3>1. state = StateInit
          BY DEF Init
    <3>2. QED
          BY <3>1 DEF StateInit, StateHandingOver
  <2>3. LifePhase = "open"
        BY <2>1, <2>2 DEF LifePhase
  <2>4. QED
        BY <2>1, <2>3 DEF Life!LifeInit
<1>2. Now /\ Now' /\ [Next]_server => [Life!LifeNext]_(Life!lifeVars)
      BY NextLives DEF LifeStep
<1>3. QED
      BY <1>1, <1>2, AlwaysNow, PTL DEF Spec, FollowsLife, Life!LifeSpec

=============================================================================
