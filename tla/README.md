# Incoming!! — a verification of the upload service

Incoming!! receives large files from browsers over websockets, stores them and hands them over to a web
application's backend. The backend asks for an upload ticket (`new_upload`), the browser uploads in chunks
and may lose its connection, pause and resume, and at the end the server POSTs the path of the file to a URL
of the backend and tells the browser when the backend has taken it. Either side, or an idle timeout, may
cancel.

This directory holds TLA+ models of the server and of the browser library, TLC configurations that model-check
them and TLAPS proofs. Modules are translated from the Go and JavaScript source; a documented promise that the
code does not keep is a run of its own that is expected to be violated.

## 1. Inventory

| Component (source) | State it keeps | Operations | Interacts with | Modelled in |
| --- | --- | --- | --- | --- |
| Uploader, `upload/to_local_file.go` | `lock`, `lock_state`, `state`, `boundToSocketHandler`, `path`, `fd`, `filePos`, `fileSize`, the timer and its channels, the handover's channels | bind/unbind, set size and name, consume chunk, pause, hand file to app, handover done, cancel, clean up, reset timeout | two goroutines of its own (timeout, handover); HTTP requests to the app backend; the pool | `Uploader` |
| Websocket handler, `websocket.go` `websocketHandler` | none beyond one connection | one session: request, bind, configure, chunks, handover, final message | the pool, one uploader, the connection goroutines | `UploadServer`, `Transfer` |
| Connection goroutines, `websocket.go` `wsConnHandler` | `ch_r`, `ch_w`, `chWriteRet`, the socket | read for ever, write on command, close | the handler | `WsConn` |
| Backend requests, `incoming_httpserver.go` | none | `cancel_upload`, `finish_upload` | the pool, one uploader | `UploadServer` |
| Uploader pool, `upload/uploader_pool.go` | map from id to uploader | `Put`, `Get`, `Remove` | identifier pool | `UploaderPool` |
| Identifier pool, `uidpool/locked_uuid_pool.go` | set of identifiers | `New`, `Remove` | — | `UploaderPool` |
| Channelled identifier pool, `uidpool/channelled_uuid_pool.go` | the same set, owned by a goroutine that draws ahead | the same, over channels | — | `UploaderPool` |
| Browser library, `incoming_jslib.js` | send window, positions, flags, the socket in `ws`, the file reader, the retry timer | start, cancel, pause, callbacks of sockets, reader and timer | websocket | `JsUploader`, `Transfer` |
| `new_upload`, start-up | storage directory | make an uploader; empty the storage directory | pool, storage | `Init` of `UploadServer`, `Put` of `UploaderPool`, `ServerRestarts` of `Transfer`; the rest is sequential and not modelled |
| Configuration, `appconfig.go` | values | read a file | all | not modelled |
| App backend (external) | its files | answers POSTs, moves the file | `cancel_upload`, `finish_upload` | `AppTakesFile`, `AppReplies` |
| Examples, Docker, Ansible | — | — | — | not modelled |

What is hard here: up to five kinds of goroutines work on one uploader; two locks with different reach; a
timer goroutine that is both the receiver of every reset and a caller of methods that reset; a handover
that runs in the background, waits for somebody else and then sets the end state; a channel that is offered
a value once and then closed; POSTs that may fail, time out or be answered with anything; connections
that come back before the loss of the old one was noticed; and, in the browser, callbacks of old and new sockets
that share one set of variables. `PROJECT.json` lists these hazards at their lines.

What makes each component correct:

- uploader and handlers: one connection at a time; the backend is told once, of a complete file or of a
  cancellation; what it accepted is never cancelled or deleted under it before it has it; an upload ends
  once; it is cleaned up once and leaves no file; the descriptor is open exactly when needed; progress is
  never lost; nobody blocks for ever;
- connection goroutines: commands and results match; a lost connection releases the handler; the socket is
  closed and goroutines end;
- pools: identifiers are unique, the pool finds the owner, nothing leaks;
- browser library and server together: the file arrives whole and in order over any number of connections; what
  the library counts as acknowledged is stored; what it calls finished was accepted and what it calls cancelled
  was given up; an upload that has ended is not started again; the application always hears of the end.

## 2. Modules

`Uploader` has the variables and one operator per method; labels for where the caller goes next are
parameters. `UploadServer` extends it with the callers, `Init`, `Next`, fairness and the properties.
`UploadOutcome` is the abstract specification of what the app backend is promised; `UploadServer` instantiates
it with the refinement mapping (`Phase`, `Told`). `MCUploadServer` adds the symmetry set for TLC.

`JsUploader` is the browser library: its state is one record, its functions operators on that record. `Transfer`
extends it with connections, sessions and one upload. `FileTransfer` is the abstract specification of what the
user is promised; `Transfer` instantiates it (`KeepsOrder`).

`UploadLife` is the abstract life of an upload, without its content. `UploadServer` and `Transfer` implement it (`FollowsLife` of
both): it is what the two halves of the work have in common.

`UploaderPool` and `WsConn` stand alone. `UploadClaims` and `TransferClaims` hold documented claims that fail.
The modules named `...Proofs` hold the theorems.

`UploadServer` and `Transfer` divide the work. The first has threads, locks, timers and partial failures,
and a browser that may send anything; the second has the real browser library, and a server whose sessions take
a message in one step, which the first justifies: a session has the upload to itself (`OneHandler`), and
its progress, its end and its outcome do not depend on what others do in between (`ProgressIsKept`, `EndsOnce`).

### Correspondence with the code: the server

- **Threads.** A goroutine is a thread with `pc[t]`. `Handlers` run `websocketHandler`, `Cancellers` and
  `Finishers` the two backend handlers, `Timer` runs `goHandleTimeout`, `Handover` the goroutine of
  `HandFileToApp`. An idle thread is ready for another request, so a handler stands for any number of
  connections one after the other.
- **Locks.** `u.lock` is held across one possibly blocking operation only, the channel send in
  `resetTimeout`. So a method is one step up to there; then the thread keeps `lock` at label `"reset"`,
  and `ResetTimeout` is the send, the return and the unlock. Critical sections of `lock_state` are part of the
  step around them; methods that take only `lock_state` do not wait for `lock`.
- **Timer.** `armed` is the runtime timer, `tick` the one slot of `timer.C`. `Reset` on an expired timer leaves the
  tick where it is: the repository installs go1.3.1, and this changed only in Go 1.23. Durations are abstracted:
  an armed timer may expire at any time, which includes more behaviours than a configuration whose idle
  timeout exceeds the handover timeouts. With `TimerMayExpire = FALSE` no idle period is ever long enough.
- **File.** A chunk is its length; `disk` is the name the stored file has, `"taken"` once the backend
  has moved it. Creating, opening, writing and renaming may fail, and so may
  `os.Remove` with `RemoveMayFail` (the code only logs it). Declared sizes are integers: `LengthBytes` is an int64 that nobody checks, and a
  negative size makes a file that is never complete.
- **Backend.** `AppReplies` is what it may answer to the announcement: `done`, `wait`, a reply that counts as failure
  (`bad`: errors, timeouts, other status codes, other bodies), and two that make the code panic: `short`
  (status 200, fewer than four bytes) and `unsized` (no Content-Length). A panic in a goroutine
  ends the process (`ProcessDies`); in a handler net/http recovers it and the deferred unbind runs.
- **Browser.** At each read any message that the handler tells apart may come, or the connection may fail. While a session waits for the
  handover, a message is read and ignored (`WaitIgnores`), and the reader gives the next one a new deadline (`websocket.go:153-157`).
- **History.** `outcome`, `accepted` and `allDone` record how the upload ended, that the backend has said that it
  has the file, and that a browser was told so. No guard reads them.
- **Pool.** In `UploadServer` the pool is one bit, `inPool`. `UploaderPool` shows why that is enough: an id
  leads to its upload and to no other. Over the channelled pool, `loop` is what the goroutine `mainLoop` does,
  `next` the identifier it has drawn in advance and offers, `leaving` the one it has been asked to remove; a send on its
  channels and the receive are one step.

`UploadOutcome`, in one sentence: an upload goes from `open` either to `cancelled`, with the backend told at most
once, or to `handing`, after which the backend is told of the file once and its acceptance alone decides
between `finished` and `cancelled`; afterwards it is forgotten once.

### Correspondence with the code: browser and transfer

- **Callbacks.** JavaScript runs one callback at a time, so a callback is one step. It calls several functions of the
  library, each of which takes the record `js` to the next one. `ws` is the variable that all callbacks share, and a
  callback of one socket may find another one there, or null; where that throws, what was done before stays.
- **Sockets.** A member of `Sockets` is a slot for a WebSocket object together with its connection (`link`), the
  messages under way in both directions (`js.sent`, `toBrowser`) and its session on the server. A slot is used
  again when both ends have left it and no handler leads to its `recv_cancel_ack` any more (`Forgotten`), so any number of connections come one after
  the other, and as many at a time as there are slots; `start()` itself has no such condition, it makes a new object.
- **Data.** A chunk is its position in the file, counted in chunks; `stored` is the sequence of positions that were
  written, and `filePos` its length. `JSON`, texts and counters that are only shown are left out.
- **Messages.** What the server has not read when a connection is lost may be lost (any suffix); what the browser has not read is.
  `onmessage` is a socket's current handler: one of the three of the library, or the `recv_cancel_ack` of a cancel, which goes by the socket the cancel was
  sent on. `usual` is the variable of that closure, the handler it calls for other messages. `recv_cancel_ack` hangs itself on the socket that is in `ws` when
  it is done, and that may by then be another one, with a `recv_cancel_ack` of its own; so they may come to call each other (`Called`, `Innermost`).
- **Server.** A session takes one message, or the failure of a read, in one step. Timeouts may come early
  (`ReadFails`, `UploadExpires`) and may be told to a browser that has already given up. `ServerRestarts`
  empties pool and storage directory (`initStorageDir`) and breaks the connections; for an upload that has
  already gone it changes nothing but connections, which `ConnectionLost` covers, and is left out.
- **Regimes.** `UserActs` says what the user does; with `"hurry"` he unpauses while the paused socket has not closed yet, and with `"anytime"` he also pauses when
  `can_pause` is false, which `pause()` does not check (the application is to respect it, `doc/api.md:73`).
  `LoadsAreShort` says that a chunk which is being loaded is loaded before the library starts again, 60 seconds later.
  `KeepsOrder` needs both: without either, chunks end up at the wrong place (section 5). With `"hurry"` two sockets share `ws`, the
  positions and the window, and nothing that relates them holds: not `TransferTypeOK`, `WindowRespected`, `StaysEnded` or
  `AckedIsStored`. `CancelledIsDiscarded` and `FollowsLife` hold with all of them and with loads of any length (section 4). Run `transfer` has neither
  `"hurry"` nor long loads, so that everything holds in it.
- **History.** `accepted`, and `excused`: the upload need not succeed any more, because the browser cancelled it, because a chunk
  cannot be read, or because a timeout came while something was still under way or an old session was still bound.
  No guard reads them.

`FileTransfer`, in one sentence: the stored file grows by the next chunk and by nothing else, is handed over when it
is complete, is accepted or fails, and the library says "finished" only when it was accepted.

`UploadLife`, in one sentence: what is received grows up to the declared size, a file is handed over when all of it has been received
and at no other time, nothing is received after that or after a failure, and "finished" is only said of an accepted file.

## 3. Runs

| Run | Instance | States | What it shows |
| --- | --- | --- | --- |
| `core` | 2 handlers, 1 canceller, 1 finisher, sizes 1–2, chunks 1–2, file deleted at the end | 725 000 | the safety invariants of the whole life of an upload |
| `promise` | the same, sizes -1, 0 and 3, all replies, file kept, `os.Remove` may fail | 758 000 | refinement of `UploadOutcome` and of `UploadLife`, `EndsOnce`, `ProgressIsKept`, and the invariants that panics, empty files and kept files could break |
| `liveness` | 1 handler, 1 canceller, 1 finisher, no idle timeout, empty chunks too | 20 000 | handovers conclude, waiting sessions end (those that wait for no handover: if the browser falls silent), requests are answered, cancelled uploads are cleaned up (if the backend's answers have a size) |
| `pool` | 3 uploaders, 4 identifiers, both identifier pools | 118 700 | unique identifiers, the owner is found, none leaks |
| `connection` | at most 4 unread messages | 315 | commands and results match; sends and receives return; sockets are closed, the goroutines end |
| `transfer` | 2 sockets, 3 chunks, 2 of them ahead, 2 lost connections, user cancels and pauses | 246 000 | refinements of `FileTransfer` and of `UploadLife`; acks, window and cancellation agree at both ends; an upload that has ended stays so; the application hears of the end and the file arrives |
| `claim_*` | small instances of the same modules | | a documented promise is violated, see section 5 |

**Bounds.** Two handlers are enough for a connection that comes while another one works, waits or is
unbinding, since a handler's session leaves nothing behind but the uploader's state; a third one could only be refused by
the bind in the same way. A file of 2 in chunks of 1 or 2 has a first chunk, a last chunk, a chunk that is both, a chunk
that is too large, and a pause in the middle. One canceller and one finisher repeat their requests. In the pool every
identifier can be in use at once, one more is with the goroutine, and each is drawn again after its release. `MaxUnread = 4` lets messages
pile up behind a reader that nobody listens to; more of them change nothing.

In `transfer`, two slots let a new connection meet the session of an old one; three chunks with a window of two let the
window fill, drain and be cut by a loss in the middle, with one chunk left for the next connection. `MaxLosses = 2` gives a connection that is lost, one that is lost
while it resumes, and one that ends well; pauses, early timeouts and restarts break further connections without being counted. `MaxTimers = 1`
allows one pending timer, which is all that can be without `"hurry"`; `claim_order` has 2.

Handlers are symmetric. Deadlock checking is off in `core`, `promise`, `liveness` and `transfer` because an upload that has
ended has nothing to do, and off in `connection` because a closed connection has. It is on in `pool`.

**Fairness.** `liveness` has strong fairness per thread: a goroutine that can run again and again does run. Waiters for
`u.lock` get it (sync.Mutex hands itself over to a starving waiter) and reads, requests and waits have timeouts, so none of these steps depends on the
browser or the backend. `WaitLost` is excluded: a session that waits for the handover goes round again with every message, each with a new deadline, so a browser that
goes on sending keeps it there. That it does not is a premise of the second half of `WaitingSessionEnds` (`FallsSilent`), and nothing else needs it. The start of a request (`pc = "idle"`) is excluded from the condition, `TimerExpires` and
`AppTakesFile` have no fairness: nobody has to come. In `connection`, weak fairness per goroutine, justified by the read and write deadlines. In `transfer`, weak
fairness for the browser's timers and loads, for the opening, closing and delivery of each socket, for each session (its reads have deadlines) and for the
end of a handover (it has two timeouts). Nothing is assumed of the user, of losses, of `cancel_upload`, of the idle timeout or of restarts.

**What each property is for.**

- `OneHandler`: a dozen return paths and two panics leave the handler after the bind; an upload is bound exactly while one session lasts.
- `AppToldOnce`, `KeepsPromise`: cancel, timer, failed chunks and handover race to tell the backend.
- `CompleteBeforeHandover`: a failed rename or an off-by-one must not announce a partial file.
- `FileThereDuringHandover`: between announcement and acceptance nobody deletes the file.
- `AcceptedMeansFinished`, `EndsOnce`, `ChannelsClosedOnce`: the handover goroutine sets the end state without looking.
- `FileOpenIffReceiving`, `CleanedUpLeavesNoFile`: no descriptor and no file leaks on the many error paths. The second excepts a file that the backend wants kept, a
  failed handover (`claim_delete`) and a failing `os.Remove`.
- `TimerNeverWaitsForItself`: the timeout goroutine calls methods whose reset only it could receive.
- `ProgressIsKept`: pauses, losses and second connections neither move the position back nor change the size under it.
- `HandoverConcludes`, `WaitingSessionEnds`: a session waits on a channel that is served only if a handover goroutine exists. Where it exists, the session ends whatever
  the browser sends. One that finds the upload cancelled has no server for its channel and depends on the read deadline, which a browser that goes on sending never lets come.
- `CancelledIsCleanedUp`: the clean-up comes after a request to the backend, and ends the timeout goroutine. Where that answer has no length, `Cancel` panics before it, so
  sized answers are a premise (`AnswersAreSized`).
- `WriterServesHandler`: all commands share one result channel, which works only because a handler waits for each result.
- `ReaderLeaves`: of all ways in which the reader goroutine could stay, a message that nobody takes is the only one.
- `IdsInUse`: an identifier is used exactly as long as an upload, or the goroutine of the channelled pool, has it.
- `KeepsOrder`: window, resume position, reader and acks are kept by two programs over connections that break; together they must store each chunk once and in its place.
- `AckedIsStored`: a late ack must not be counted on top of a position that already has it.
- `FollowsLife`: whatever a browser sends over several sessions, and whatever cancels and timeouts come in between, no byte too many is counted, no file is
  handed over early or twice, none grows after its handover, and "all done" does not overtake the backend.
- `WindowRespected`: `chunks_ahead` is reset at a reconnect, and must then agree with what that connection carries.
- `CancelledIsDiscarded`: a cancel races the last chunk, the acks in front of its answer, and the loss of the connection.
- `StaysEnded`: a timer or a second socket must not bring back what the user has cancelled or the backend has got.
- `Concludes`, `Delivers`: lost acks, refused binds, sessions that left during the handover, restarts: the library must not wait for ever, and no
  loss or pause alone may cost the file.

Each property has a mutant in `PROJECT.json`: a plausible bug in a definition that models code (a dropped guard, a descriptor left open, a missing
seek, a timeout left out, two steps swapped, a window that is not reset) under which TLC finds the property violated. The mutated forms stand before the original in the modules
(`BindAnyway`, `CancelDuringHandover`, `WindowKept`, ...); nothing else uses them.

## 4. Proofs

All from the named assumptions on the constants (`ThreadsAssumption`, `ParametersAssumption`, `SizesAssumption`,
`NoUploaderAssumption`, `MaxUnreadAssumption`, `BrowserAssumption`,
`TransferAssumption`): disjoint threads, integer sizes and a set of known replies, without bounds. Some theorems about `Transfer`
have premises on the user and the loads; they are named below.

Proved are all invariants, action properties and refinements of `UploadServer` and of `Transfer`, all invariants of
`UploaderPool` and `WsConn`, and the consequences of `FileTransfer`.

- `UploadTypeCorrect` (`UploadServerProofs`): `TypeOK` says that the file does not grow past its declared size, which is
  inductive only with `state = StateInit => filePos = 0` (`NumbersOK`): `SetFileSize` is accepted in the initial state. The
  proof splits into control, numbers, counters and flags, with one step per action.
- `UploadKeepsPromise` (`UploadPromiseProofs`): the refinement of `UploadOutcome`; with it `UploadAppToldOnce`,
  `UploadAcceptedMeansFinished` and `UploadEndsOnce`. The inductive invariant `PromiseInv` has four parts: the state and the history agree,
  and nothing is sent before the handover (`StateInv`); acceptance and outcome agree (`AcceptInv`); a thread that is about to tell the backend is alone and
  has the cancellation behind it (`TellInv`); and at each label the handover goroutine may rely on a state that nobody else can leave
  (`HandoverInv`). The last is what justifies the goroutine's blind assignment of the end state. Steps are sorted
  into quiet ones, which one lemma covers, and the eight that change what the promise sees, which have a lemma each.
- `UploadOneHandler`, `UploadTimerNeverWaits` (`UploadSessionProofs`): each thread's step is first reduced to its effect on
  the labels, the lock and the bind; the invariant `SessionInv` then says of each label who may be there and what it holds.
- `UploadCompleteBeforeHandover`, `UploadFileThereDuringHandover`, `UploadFileOpenIffReceiving`, `UploadCleanedUpLeavesNoFile`,
  `UploadChannelsClosedOnce`, `UploadProgressIsKept` (`UploadFileProofs`). None of them is inductive. What carries them is that a
  file that has received all its bytes is complete under its final name *or* in the hands of a session whose rename has failed
  and which is about to cancel; that a handover goroutine exists only for the former; and where each deletion
  stands in relation to the outcome (`GoInv`, `ReceiveInv`, `DiskInv`, `TimerInv`). Of the file on disk `DiskInv` speaks where `os.Remove` does not fail, of the
  descriptor always.
- `PoolIdsAreUnique`, `PoolGetFindsOwner`, `PoolIdsInUse`: the invariants of the pool are inductive together, with either
  identifier pool. `Remove` has to drop the map's entry before it frees the identifier; with the order swapped the induction fails, as the mutant does.
- `WsTypeCorrect`, `WsWriterServesHandler`: inductive together, for any number of unread messages.
- `UploadFollowsLife` (`UploadFileProofs`): the server with all its threads implements `UploadLife`. It takes the file invariants (a handover
  only of a file that has received all its bytes) together with the acceptance part of `PromiseInv` ("all done" only after the backend's answer).
- `FileArrivesWhole` (`FileTransferProofs`): whoever keeps the promise of `FileTransfer` hands over every chunk of the file, each in
  its place, and reports only what was accepted, for files of every size. That the code keeps it is `TransferKeepsOrder`.

`TransferProofs` is about library and server together, for every number of sockets, of losses and of pending timers and every size of file and
window. In all of it a callback is taken apart into the calls it consists of (`SendEffect`, `CloseEffect`, `LoadEffect`, ...), each of which
takes a library that keeps the invariant to another one, and a step of the server needs to show only what it does to its own socket.
There are three invariants, each under more premises than the one before:

- `TransferFollowsLife`, `TransferCancelled`: no premise, `"hurry"`, `"anytime"` and loads of any length included. `AnyhowInv` says that nobody says what is not so: "all done" and "cancelled" are under way to
  a browser only when the file is accepted, or given up, and the library believes only these messages. Nothing is known of which socket is in `ws`, nor of
  which handler hangs on which socket; a `recv_cancel_ack` that is called on the wrong one still believes only a cancel that the server has acknowledged.
- `TransferWindow`, `TransferStaysEnded`: `"hurry" \notin UserActs`, and with it no `"anytime"`. `CalmInv` adds that one socket at most is not closed, and that it is the one in `ws`;
  that its chunks under way, sent or acknowledged and not yet counted, are at most `chunks_ahead`, that a load goes on only while the window is open, and that
  what is left on a closed socket is at most `SendAhead` (`WindowAt`);
  and that a timer is pending only while `ws` is null and the upload has not ended. Positions may be wrong in it: the window is a count,
  and a long load changes where a chunk goes and not how many are under way. The chunks under way are counted with `Cardinality` of a set of places.
- `TransferKeepsOrder`, `TransferArrivesWhole`, `TransferAcked`, `TransferTyped`: `"hurry" \notin UserActs` and `LoadsAreShort`. The invariant `TransferInv` says
  that every callback finds its own socket in `ws` (`SocketInv`); that the chunks a bound session has still to read are the ones after the stored file, with
  nothing among them, and nothing before them but the ack of the handshake (`SentAt`); that `bytes_tx` is where they end, if the library still sends (`Flows`), and that
  the position of a new connection is the length of the stored file (`Resumes`); that the acks under way are covered by stored chunks (`MailAt`);
  and that one session at most is bound (`Bounded`). `TransferArrivesWhole` draws the conclusion: every file that is handed over, accepted, or reported
  as finished is the file of the browser. `KeepsOrder` is false without either premise; `AckedIsStored` and `TransferTypeOK` need the one about loads only in the
  proof, because positions and acks are tied to the order of chunks there.

Model-checked only: all liveness (liveness under fairness and ENABLED are out of the prover's reach), and every property of the runs that
are expected to fail.

## 5. Where code and documentation disagree

Each is a run whose property is the documented claim; TLC's counterexample is the code's behaviour.

| Run | Documented | The code |
| --- | --- | --- |
| `claim_resets` | "make sure [...] that calls to ResetTimeout return" (`to_local_file.go:638`) | a reset blocks for ever with `u.lock` held once the timer has fired and its goroutine waits for `u.lock` |
| `claim_idle` | idle uploads are cancelled (`incoming_cfg.yaml:23`) | the old tick survives a reset, and an active upload is cancelled |
| `claim_delete` | the file of a failed handover is deleted (`incoming_cfg.yaml:37`) | the state is set to cancelled before `Cancel`, which then refuses; the file stays |
| `claim_reply` | a failed handover returns an error (`upload.go:100`) | a reply of fewer than four bytes, or of unknown length, ends the process |
| `claim_order` | the pieces are put together, pause and resume is supported (`README.md:4`) | unpausing before the paused socket has closed lets two sockets share one position, and a chunk is stored at the wrong place (`incoming_jslib.js:293, 341, 355`) |
| `claim_cancelled` | an upload in handover cannot be cancelled, and `cancelled` means that it is (`doc/api.md:75-76`) | a cancel while the library reconnects is kept from the server, and the upload is both cancelled and finished (`incoming_jslib.js:281, 411-421`) |

Others have no run. The models have their behaviour unless the text says otherwise:

- `Cancel` of a cancelled upload returns an error although "cancelling a cancelled upload is a no-op" (`upload.go:133`; `to_local_file.go:534`).
- An answer without Content-Length to a cancellation makes the thread panic although "it also doesn't matter what we answer" (`README.md:67`; `to_local_file.go:589`).
  After that only the idle timeout cleans the upload up; when the timeout goroutine itself gets such an answer, the process ends.
- The channel of `HandFileToApp` is not "always" closed (`upload.go:105`): not when the upload was cancelled between the last chunk and the call (`to_local_file.go:404`).
- The announcement of an empty file has no path (`README.md:55`; `to_local_file.go:418`): no chunk ever made one.
- Not both goroutines end when the handler returns (`websocket.go:137`): a reader that holds a message stays (`:161`).
- `cancelling` stays true with no socket that waits for an answer (`doc/api.md:74`) when the cancel is lost, or is sent during the handshake (`incoming_jslib.js:379-390`).
- `connected` is false with an open connection after a quick unpause (`doc/api.md:70`; `incoming_jslib.js:342`).
- A chunk that takes longer to load than the library takes to reconnect is sent for another position (`incoming_jslib.js:319`); `Transfer` with `LoadsAreShort = FALSE` shows it, but no document speaks of loads.
- When a session times out while the backend still takes the file (the TODO at `websocket.go:492`), the browser comes back and may be told "error" although the file is accepted.

## 6. Limits

- `ResetTimeout(d)` is public but has no caller, so `d = 0` (no timeout) does not occur. Getters that only log are left out.
- The constructor is atomic: a timeout before `u.id` is assigned (`to_local_file.go:117`) is not modelled.
- In `UploadServer` the file's content is its length, and a process that dies stays dead. Content and restarts are the matter of `Transfer`, where chunks have
  equal size, and where a request is not refused because of its size or name: `UploadServer` has those refusals.
- After a failed handover, or when the timer fires during a handover, nobody cleans the upload up; `CancelledIsCleanedUp` leaves failed
  handovers out and is stated for uploads that do not reach the idle timeout.
- A session that waits on a channel which nobody serves (the upload was cancelled between its last chunk and `HandFileToApp`) ends only when a read fails. A
  browser that goes on sending keeps it, and the upload bound, for ever; `WaitingSessionEnds` has the silent browser as its premise there.
- `CancelledIsCleanedUp` also has the premise that the backend's answers have a Content-Length, and `liveness` leaves the other answers out (section 5).
- A file that `os.Remove` fails to delete stays; nothing tries again. `CleanedUpLeavesNoFile` leaves it out.
- In `Cancel` the log call's `GetId` in the timer goroutine is merged with the wait for `u.lock` that follows it.
- Not modelled: the configuration (sequential reading of a file; what its values mean for the protocol is that a timeout may come at any time),
  the parsing of parameters, routing and CORS headers of the HTTP handlers, and the examples and deployment files.

## 7. What is left

1. `Transfer` with configurations in which the idle timeout is shorter than the library's 60 seconds between attempts: `Delivers` excuses early timeouts as a whole.
2. Several uploads of one page, which share nothing but the server's pool.
