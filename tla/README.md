# vtlsp: a verification of the language-server bridge

vtlsp connects a CodeMirror editor in a browser to language servers (LS) that run
on a server. `ls-ws-server` accepts WebSockets, runs one LS process per session and
moves LSP messages between them; `LSProxy` is an optional program that sits on the
stdio of a language server and rewrites messages; `codemirror-ls` is the client: a
WebSocket transport, a JSON-RPC client, and editor extensions. Everything runs on
JavaScript event loops: there are no data races, but every `await`, stream and
callback is a point where other activations interleave.

Checked: TLC 2 on the `.cfg` files of this directory. Proved: TLAPS on the
`*Proofs.tla` modules.

## 1. The system

### Components of ls-ws-server

| Component | State | Operations | Interacts with |
|---|---|---|---|
| `LSWSServer` sessions | `sessionMap` (session id -> process, connections, stream factories), `acceptingConnections`, the inactivity timer | `handleNewWebsocket`, `closeSession`, `shutdown`, the timeout, socket `close`/`error`/`message`, the manager's `onProcExit` | calls `LSProcManager`; listens to sockets; suspended in `closeSession` and `getLogTail` |
| `LSProcManager` | `procs` (session id -> process) | `getOrCreateProc`, `releaseProc`, `#spawn`, `#enforceMaxProcs` | called by the server; owns the exit callback of each process |
| `LSProc` | `proc` (handle), `spawnedAt`, listeners on the child process | `spawn`, `kill`, `getLogTail`, the `exit` and `error` listeners | the operating system; calls the manager back |
| Message routing | per connection `requestIDTranslationMap`; sets of consumers and producers | inbound and outbound middleware, multicast of stdout, singlecast into stdin | sits between `WSStream`, `LSTransform` and the process streams |
| `LSTransform` | `_curChunk`, `_state`, `_curContentLength` | `ToLSTransform._transform`, `FromLSTransform._transform`, `pipeLsInToLsOut` | cuts byte chunks into LSP messages and back |
| `WSStream` | `#buffer`, socket state | readable `message`/`close`, writable `_write`/`_final`, `chunkByteArray` | WebSocket <-> Node streams |
| `LSProxy` | `procConn`, `clientConn`, `process`, handler and middleware tables | `listen`, `startProc`, the two directions of requests and notifications, `sendShutdown` | stdio of its parent and of the LS it spawns |

### Components of codemirror-ls

| Component | State | Operations | Interacts with |
|---|---|---|---|
| `LSWebSocketTransport` | the WebSocket, message connection, buffered requests and notifications, callbacks | `connect`, `sendRequest`, `sendNotification`, `dispose`, socket events | the server; `LSClient` |
| `LSClient` | `ready`, `capabilities`, `transport`, handlers | `initialize`, `changeTransport`, `request`, `notify`, `close` | transport; one plugin per editor |
| `LSCore`/`LSPlugin` | document version, the sync queue, the document lock | `doWithLock`, `syncChanges`, `sendDidOpen`, `update`, `destroy` | editor view; `LSClient`; all extensions |
| Linting | abort controllers, a debounce timeout, promises of code actions | `publishDiagnostics`, answers | `LSCore.requestWithLock`, the editor's diagnostics |
| Signature help | `activeRequest`, `delayedRequest`, the tooltip's field | `update`, `startRequest` | `requestWithLock`, the selection |
| Inlay hints | the debounce timeout, the request queue, the hints shown | `update`, `queueRefresh` | `LSClient.request`, without the lock |
| Completions | none of its own: CodeMirror keeps query and list | `handleCompletion`, `apply` | `requestWithLock`, the document |
| References, renames, context menu | a panel, a dialog, a menu, each with positions of the document | commands, clicks, callbacks | `requestWithLock`, the selection, `applyWorkspaceEdit`, each other |
| Hovers, window messages | none | a tooltip, a notification handler | `requestWithLock`, the page |

### What is hard

* Exit listeners, `kill`, `closeSession` and `shutdown` suspend and, when they resume,
  act on a session *id*: by then the id may stand for another process.
* A process may exit by itself at any time; `kill()` then waits for an event that has
  already been emitted.
* Limits (`maxProcs`, `maxSessionConns`) are enforced before the newcomer is counted.
* Sockets close while their session is being closed, replaced or evicted.
* Many clients share one process: requests are renamed on the way in, answers are
  broadcast and must be recognised by one client only.
* Messages arrive in arbitrary chunks.
* On the client: document changes race with requests that need the document to stay
  still, and answers come back for a document that has changed. Positions wait in
  requests, tooltips, panels, dialogs and menus while users and others edit.
* Several extensions take the same document lock, repeat requests under it and fail in it.

`PROJECT.json` lists these as hazards, each at its line.

### What makes each part correct

| Part | Correct if |
|---|---|
| Sessions and processes | no live process is forgotten, no open socket is outside every session, limits hold, shutdown leaves nothing behind and waits for nothing but exits that are to come, clients learn that their process has exited |
| Routing | an answer reaches the asker, once, under its own id, and nobody else; replies reach the LS under its ids; pushes reach all; no consumer starts inside a message |
| Framing | messages come out whole, in order and without waiting for later bytes, however they are cut |
| Document sync | no edit is lost, versions increase, the queue never stays paused, the lock holds changes back, and it settles unless its job is dropped |
| Editor extensions | only the last request shows something, where it was asked for; hints are those of the last text; better completions come first and apply as meant; nothing outside the document gets selected; whoever waits for the lock is served unless its job is dropped |
| Client and transport | nothing is asked before initialize, buffered messages are sent once and in order, no socket leaks, requests in flight settle |
| Linting | the last diagnostics of the document's version are shown, and get their code actions |
| LSProxy | what is passed on arrives in its receiver's URIs, converted once, cancelling is final, requests are answered while the LS lives |

## 2. Modules and plan

| Order | Module | Models | Status |
|---|---|---|---|
| 1 | `LSWSServer`, `LSWSServerProofs`, `MCLSWSServer` | sessions and processes | modelled, checked, safety proved |
| 2 | `Routing`, `DirectReply`, `RoutingProofs`, `MCRouting` | request ids, multicast, singlecast; what is promised of answers | modelled, checked, safety proved |
| 3 | `DocSync`, `Mirror`, `DocSyncProofs`, `MCDocSync` | the document lock and synchronisation of the client; what is promised of the server's text | modelled, checked, safety proved |
| 4 | `Framing`, `Relay`, `FramingProofs`, `MCFraming` | `LSTransform`, `WSStream`; what is promised of whole messages | modelled, checked, safety proved |
| 5 | `Client`, `ClientProofs`, `MCClient` | the WebSocket transport and `LSClient` | modelled, checked, safety proved |
| 6 | `LSProxy`, `LSProxyProofs`, `MCLSProxy` | `LSProxy` | modelled, checked, safety proved |
| 7 | `Linting`, `MCLinting` | diagnostics and code actions of the editor | modelled, checked, one property proved |
| 8 | `Text`, `View` | positions and offsets (`utils.ts`), the editor's document, selection and lock | modelled |
| 9 | `Signatures`, `InlayHints`, `Completions`, `Plugins` | the extensions that follow transactions | modelled, checked |
| 10 | `Acceptance`, `References`, `Renames`, `ContextMenu` | the commands of the user and their answers | modelled, checked |
| 11 | `Editor`, `EditorProofs`, `MCEditor` | all extensions on one view | modelled, checked, types and six properties proved |
| 12 | completion of the above | lost transports and `destroy` in `DocSync`, string ids in `Routing`: done; failing spawns in `LSWSServer`: left | partly |

Three abstract specifications say what a component promises, and the component is shown to
implement each, by TLC and by proof: `DirectReply` (`Routing`), `Relay` (`Framing`) and
`Mirror` (`DocSync`).

The modules are separate because their state is: a session's process and sockets
are chosen by `LSWSServer`, and what flows between them does not change that
choice. `Routing` takes a connection's life (open, closed, a later one of the same
client) as its only input from there, and chunks from `Framing`; `Client` and
`LSProxy` are other processes at the two ends.

## 3. LSWSServer: sessions and processes

One module models the three classes, because one synchronous call chain runs
through all three (`handleNewWebsocket` -> `getOrCreateProc` -> `spawn`;
`closeSession` -> `releaseProc` -> `kill`).

*State.* `sessionMap`, `procs` and `acceptingConnections` are the fields of the same
names; `handle[p]` is `LSProc.proc # null` (what `pid` and `stdout` test); `owner[p]`
the id the process was spawned for, captured by its listeners; `os`, `signalled` and
`badExit` the operating system's view; `socket` the `readyState` of each WebSocket;
`detached` the sockets held by session objects that are no longer in `sessionMap`
(their `onclose` still has them); `consumers[p]` the `PassThrough` consumers that still
read the process's stdout; `timer` the inactivity timeout.

*Activations.* An async function suspended at an `await` is a *task*. Task `p` in
`Procs` is the exit listener `#registerProcCompletion` adds; the tasks in `Calls` are the
listeners of `kill()`, calls of `closeSession` and of `shutdown`. A listener is `armed`,
in `tail` (awaiting `getLogTail`), `ready` to run on, `releasing` (awaiting a kill, the task
it `awaits`), and `resumed` after it. JavaScript runs the continuations of settled promises
before the next event, so events are guarded by `Quiescent`, and the continuations may run
in any order.

*Actions.* `ConnectJoin`, `ConnectExisting` and `ConnectSpawn` are `handleNewWebsocket`
with the three processes it may end up with (the last includes `#enforceMaxProcs`);
`SocketMessage`, `SocketError`, `SocketClose` the socket's events; `ProcExit` the exit of
a process with every listener armed so far; `TailDone`; `RunTask`, `ResumeTask`,
`ServerExit` the continuations of a listener or of `closeSession`; `CallCloseSession`,
`CallShutdown`, `IdleTimeout` the calls; `ShutdownStep`, `ShutdownResume`, `ShutdownEnd` the
loop of `shutdown`.

*Abstractions.* A spawn always succeeds. The exit of a process and the end of its stdout
are one event. The user's callbacks do not call back into the server. Durations of timers
are not modelled: a timeout may fire whenever it is pending.

*Bounds.* `MaxSpawns` processes and `MaxSockets` sockets per behaviour, `MaxCalls` kill,
close and shutdown activations alive at once; a call is only made when each live session
still has a spare one (`Room`). `lifecycle` has two sessions, one process slot, two processes,
two sockets and four calls: enough for each hazard (a stale listener, an evicted process, a
reconnection, a second kill, a socket that joins a process which has exited while its listeners are
in `getLogTail`), and for whatever `shutdown` awaits to await another. Sessions, processes and
sockets beyond these are what the proofs are for (section 13). `maxSessionConns` is not given, as
`NoConsumerLeak` is false with it. The `reconnect_dead` counterexample needs one session and two
processes.

## 4. Routing: one language server, many clients

*State.* `idMap[c]` is the connection's `requestIDTranslationMap`; `inbox`, `stdin`,
`consumer` are the streams between socket, middleware and process; `framer[c]` is the
`_state` of the connection's `ToLSTransform`; `pending`, `made`, `pushed`, `unwritten`
are the language server; `answers` and `heard` what clients have received.

*Actions.* `Join` and `Close` are the socket's life (`handleNewWebsocket`, `onclose`);
`Inbound` the inbound middleware, `Forward` one chunk through `pipeLsInToLsOut` with the
outbound middleware; `Read` the process, `Push`, `Respond`, `WriteRest` its writing whole
messages or one in two parts, each multicast to the consumers attached (`Multicast`).
Clients ask, and reply to the requests of the language server when they read them.

A transform that fails ends the server: between the first and the last stream of
`pipeLsInToLsOut` nobody listens to "error" (LSWSServer.ts:246-275, 338-368), so that the
error is uncaught. `Up` says that this has not happened, and guards every action.

*Abstraction.* A chunk is a whole message or one of its two parts. Other errors and the
end of the process's stdout are left to `LSWSServer`. Notifications of clients, which
pass unchanged, are left out. UUIDs never repeat. A request under a string id passes the
inbound middleware as it is, so that its answer finds no entry (observation 2).

`DirectReply` is the promise of LSWSServer.ts:84-86: each request is
answered at most once, with an answer made for it, under its own id, to its asker.
`AnswersAskers` is `Reply!Spec` under `received <- answers`.

*Bounds.* Two connections, one push, messages that may be split, and three workloads: two
requests under the same numeric id, which is the push's too, two under the same string id,
and one of each. Two connections are what sharing needs; a third would be
one more bystander. A connection may be made at any moment; the history variable `late`
holds those made while a message was half written, whose stream fails at its second half:
`NoBadHeader` says that no other does, and `EverythingArrives` (answers to numeric ids
reach their askers, pushes reach every connection) is about a server that is there (`Up`): a
consumer in `late` ends it, and what all others were to get is lost with it (section 12).

## 5. DocSync: the editor's document

*State.* `core` is the plugin (`LSCore`): the p-queue (jobs, the running one, `paused`,
idle listeners), `documentVersion`, `#lastSentChanges`, the current `AbortController`;
`call` and `lock` the suspended calls of `syncChanges` and `doWithLock`. `doc` is the
editor, `core.sent` what the server has been sent; `lost` says that the client's transport is
disposed of, `closed` that `destroy` has sent didClose; `core.failed` is history: the last
didChange threw and nothing has made up for it.

*Actions.* `Edit` (`update`), `Initialize` (both ways a didOpen is sent), `AddJob`, `JobOver`,
`Notified`, `OrphanNotified` (the parts of `syncChanges` between its awaits), `BeginLock`,
`AwaitIdle`, `TakeLock`, `CallbackSettles`, `LockTimeout`, `LeaveLock` (those of `doWithLock`);
`Disconnect`, `ChangeTransport` and `Destroy` the transport and the end of the plugin, which
neither clears the queue nor ends the calls that wait. p-queue's operations `Start`, `Clear`, `Add`, `Idle` are operators on `core`.

*Abstraction.* A text is a number; a notification throws exactly when the transport is
disposed of, and a new transport is used at once (the client's initialization is `Initialize`).
Edits the server asks for are in `Renames`. Microtasks run before events, in any order.

`Mirror` is the promise: `copy`, what the server has, is the text of one moment under a version
not used before; no change is sent while the lock is `held`, a didOpen is; and when the plugin has
`settled`, copy and text are the same. `Mirrored` is `Mirror!Spec` with `core.sent` for the
copy, checked where there is one lock.

*Bounds.* `sync`: two edits, two locks, two initializations; `sync_live`: three edits,
one lock. Two calls in each other's way, and a third that
finds the aftermath, are what the queue's races need. `sync_live` has one lock because with two the
lock does not hold: the end or the timeout of one starts the queue while the other runs its callback
(section 12). With two a call may also be left without its job, which the other
has cleared (`Dropped`). `LocksSettle`, checked with two, says that this is all that keeps one from
settling: where nothing happens by itself any more, every call has settled or was dropped so. Texts are new at each edit: what happens when one
comes back, or the document is emptied, is told below (4); the switches `Undo` and `Emptying`
bring it about. `SyncedWhenIdle` and `EventuallySynced` excuse a plugin whose last attempt has
failed, which the next edit or initialization makes up for.

## 6. Framing: bytes

*State.* A stream of bytes is given by the sizes of its messages; `received` is how far
`ToLSTransform` has got, `parser` its fields and what it pushed, `buffer` and `frames` the
`#buffer` of `WebSocketWritableStream` and what it has sent.

*Actions.* `Transform` is `_transform` with a chunk of any size and its whole loop, as many
`Round`s, each a header or a body, as the source could need;
`Middleware` the message's way through the middleware, `FromLSTransform` and `_write`;
`End`/`Final` the end of the stream, `Open`/`Close` the socket.

`Relay` is the promise of the whole way, in messages rather than bytes: those that the middleware
keeps come out whole, in order and once, each at once if the socket is open, with all that had
to wait for it. `Relayed` is `Relay!Spec` where a message has been taken when its body has been
pushed (`Extracted`), and has arrived when frames that go on one where the other ends reach its
last byte (`Arrived`, `Target`).

*Bounds.* Three messages with headers of 21 and 22 bytes, of which two are rewritten to
longer ones and the one between them is dropped, every cut of the source, every moment for the socket. 25-byte
frames split every message. The theorems are for any number of messages of any sizes.

## 7. Client: transport and client

*State.* `tr[t]` are the fields of an `LSWebSocketTransport` (`connection`, the socket of
`#messageConnection`, that of `#connectingPromise`, `#disposed`, the two buffers); `ready`,
`transport`, `gate` those of `LSClient`, where `gate` are the requests that await
`initializePromise`; `outq` and `wire` are vscode-jsonrpc's writer and the socket.

*Actions.* `Request`, `Notify`, `Change` (with the initialize it leads to), `Connect`,
`Dispose` are calls of the application; `Opened`, `Failed`, `Lost`, `Closed` the socket's
events; `Write` the writer; `Answer` the server's answers and what `initialize` does next.

*Abstraction.* Incoming notifications and requests and request timeouts are left out.

*Bounds.* Two transports and two sockets, a request, a notification and two
initializations: a reconnection of the same transport, or a change to another.

`Notify` has no gate, as `LSClient.notify` has none: an editor that is destroyed notifies of
didClose whether or not the client is ready, and a transport that connects sends buffered notifications before
a buffered `initialize`. What is promised of the first language server is therefore about requests:
`FirstAskedWhenInitialized` says that on its wires nothing but notifications of the application is before the
answer to `initialize`.

## 8. Linting: diagnostics and their code actions

*State.* `controller` is the notification that made `#codeActionQueryAbortController` (the
controllers of all others are aborted), `timer` the diagnostic that
`#codeActionDebounceTimeout` is for, `promise[n]` the promises of notification `n`'s diagnostics
with actions, `shown` what was dispatched last.

*Actions.* `Notify` is `processDiagnostics` up to its await, with all of its diagnostics'
`lazyLoadCodemirrorDiagnostic`; `Timeout` the debounced function up to its request; `Answer` the
request's end. `Settle` adds the rest of `processDiagnostics` when the last promise settles.
`Edit` is a new `documentVersion`.

*Abstraction.* Text and positions are left out; an edit counts from its didChange on. What
the user does with an action is not modelled.

*Bounds.* Three notifications and two versions: an answer to the first may come after the
second and third, of the same version or another. Notifications have at most one
diagnostic in `linting`; with two, `linting_two` refutes `ActionsAppear`.

## 9. LSProxy

*State.* `boot`, `os`, `procConn` are `startProc`, the process and the connection to it.
An arriving message is an activation: `stage[m]` says what it awaits, `todo[m]` which
levels of callbacks have still to run (method, `request/*` or `notification/*`, `*`),
`value[m]` what they work on: parameters or result, and in whose URIs.

*Actions.* `Arrive` takes a message up to its first callback or to the other side;
`RunHandler` and `RunMiddleware` are one callback of `applyHandler` or `applyMiddleware`
and all that follows it synchronously; `Answer`, `RunResultMiddleware` the way of an answer
back; `ClientAnswer` that of the client's answer; `ProcExit` the listeners of the process.

*Abstraction.* A callback returns null, a value or `cancel_response`, takes any time,
does not throw and leaves URIs in the form it got them in. The spawn succeeds.
The converters are those of an application whose two formats differ: a URI that is converted twice
is in neither (`garbled`). `customMethods` is never filled. A request that was at the process when it exited is
either answered (its answer was in the pipe) or `lost`.

*Bounds.* One message of each kind with callbacks, at one or two levels, and a request
and a notification without. Activations share nothing but the connection, so that more
messages of a kind add nothing.

## 10. Editor: the extensions on one view

*Modules.* `Text` are positions, offsets and changes; `View` the document, the selection and
the lock as the extensions see it; `Signatures`, `InlayHints` and `Completions` the extensions with an
`update`, which `Plugins` puts under one `Dispatch`; `Acceptance`, `References`, `Renames`,
`ContextMenu` the commands; `Editor` adds the user and others, and puts all of it together.

*State.* `text` and `selection` are the view's; `sent` and `known` what the language server has,
`lastSent` is `#lastSentChanges`, `paused` whether somebody holds the lock, `held` the one
job that waits in the queue, by who awaits it, and `stranded` those whose job another took the place
of. `request`, `active`, `delayed`, `tooltip` are
`startRequest`'s calls, `activeRequest`, `delayedRequest` and `signatureState`; `refresh`, `jobs`,
`hints` the debounce timeout, `#requestQueue` and `inlayHints`; `query`, `popup` a completion and its list,
`extras` the additional edits of an accepted one; `find`, `panel`, `prepare`, `dialog`, `rename`,
`menu` calls and fields of the files of these names.

*Actions.* `Type`, `Delete`, `Move`, `Foreign` are the user and others; `DelayedRequest`,
`SignatureDelay`, `SignatureLocks`, `SignatureAnswer`, `SignatureFails` the timeouts and awaits of
`startRequest`; `HintsRefresh`, `HintsRequest`, `HintsAnswer` those of the inlay hints; `Complete`,
`CompletionLocks`, `CompletionAnswer`, `CompletionFails` those of `handleCompletion`; `Accept` and
`AcceptNext` the `apply` of an item; `Shortcut`, `ModClick`, `FindLocks`, `FindAnswer`, `FindFails`,
`GoToReference`, `ClosePanel` references; `RenameKey`, `PrepareAnswer`, `CompleteRename`,
`RenameAnswer`, `Dismiss` renames; `RightClick`, `MenuReferences`, `MenuRename`, `DismissMenu` the menu.

*Abstraction.* CodeMirror (mapping of positions, its keeping and dropping of a completion list) is
modelled from its use, and marked external. A call of `syncChanges` is one step (`SyncChanges`), with what
`DocSync` shows of it: it sends the document, or puts its job in the place of the one that a paused queue holds,
whose promise then never settles; it does nothing if the document was sent last, which an emptied one counts as at first. `doWithLock`
awaits its job and a queue that is idle or running (`LockAwaited`, `Resumes`), may be rejected then, and its end
or its timeout starts the queue, whoever else has paused it (`LockLeft`). The second synchronisation of a `doWithLock`, at its
end, belongs to that step; a timeout that comes later than the end is in `DocSync` only; and there is
one query for completions at a time. `onError` is never called, as the constructor drops it (`OnError`). A line is
one word. Whether the server is capable of something is the user's choice at each call.
Timers may fire at any time. Rendering, formatting and resolving are left out.

*Bounds.* Fifteen editors: each extension alone, with the documents (empty, one line, two) and
edits its cases need, and each pair that acts on each other: signature help and hints with
references, which take the lock and move the selection; two searches for references with edits before, between and
after them, where a waiting one is stranded; completions with references; renames and
references with the menu that calls them. Sorting has an editor of its own, with lists of two items
of all kinds (`MaxItems`, `MaxText` 2): a comparison takes no more. `MaxEdits` 3 is a completion with two additional
edits, or an edit before, during and after a request. `MaxRequests` 2 and `MaxFinds` 2 are an old and a new
one, `MaxAttempts` 2 a repetition, `MaxJobs` 2 one that runs and one that waits.

## 11. Runs

| Run | Expected | Shows |
|---|---|---|
| `lifecycle` | pass | sessions and processes: limits, no orphan, no stranded client, complete shutdown; clients are told of the exit; shutdown resolves unless it waits for an exit that has been, however many listeners, evictions and calls await each other |
| `reconnect_dead` | violation | a reconnection gets a session whose process has exited |
| `routing` | pass | id translation and multicast implement `DirectReply`, and answers and pushes arrive while the server is there |
| `sync` | pass | no edit lost, the queue never left paused, versions increase, and overlapping `doWithLock` calls settle unless one drops the other's job, over lost transports and `destroy` |
| `sync_live` | pass | with one lock `DocSync` implements `Mirror`; the lock holds changes back; the server ends up with the text |
| `framing` | pass | the streams implement `Relay`; whole messages, in order, at once; frames carry each byte once, whenever the socket opens |
| `client` | pass | nothing asked before initialize, nothing lost, no socket leaked, requests settle |
| `proxy` | pass | what is passed on is converted once, cancelling is final, requests are answered unless the language server exits having got them |
| `linting` | pass | the last diagnostics are shown, and with their actions in the end |
| `linting_two` | violation | with two diagnostics in a notification no code action is ever shown |
| `editor` | pass | signature help, inlay hints, completions, references, renames and the menu on one view: the last request shows, at its place; hints refresh in order; better completions come first and apply as meant; selections stay in the document; the lock serves whoever waits, unless its job is dropped |
| `completion_order` | violation | a preselected item is not first |

Each property of a passing run has a mutant in `PROJECT.json`: a mapped definition with a plausible bug
under which TLC refutes the property. `TypeOK` is checked in `editor` and proved of
all modules whose proofs need it; `NoChangeDuringLock` is, for one lock, part of `Mirrored`, and proved by itself
as it needs fewer assumptions.

`CHECK_DEADLOCK FALSE` everywhere: clients may stop asking, and streams end.

### Fairness

Continuations of settled promises run: weak fairness of the microtasks. In
`LSWSServer` strong fairness of the end of some `tail` and of the exit of some process on SIGTERM,
since other events make these wait again and again and the event loop does not pass over pending
events for ever; which one comes first is left open. `Routing` assumes that streams flow and that the language server answers
every request; `DocSync` that notifications are written and timeouts fire; `Client` that
writes and due events happen and that the server answers or closes; `LSProxy` that
callbacks return and that the language server answers while it runs; `Linting` that timeouts
fire and requests return or throw, which `DocSync` shows where nobody else takes the lock; `Editor` that its timers
fire and that requests that hold the lock return or throw, since the lock has a timeout, while
those that wait for it rely on the others; the inlay hints, which take no lock, on
the connection to answer or to close (`RequestsSettle` of `Client`). Nothing is assumed
of users, applications, clients or crashes.

## 12. Disagreements

Three runs are expected to be violated, one for each of the server, the linting extension and the
completions; `PROJECT.json` quotes, for each, what the code or its documents say. The other
behaviours below the models show as well, and a constant or the wording of a property, which its comment
tells, excludes them from the passing runs:

Server
1. `onProcExit` is never called after a crash: the exit listener awaits `kill()`, which
   waits for the exit that has already been emitted (LSProc.ts:92), and a reconnection is given the
   process that has exited (`reconnect_dead`). `shutdown()`, "a promise that resolves when the
   server has shut down" (LSWSServer.ts:481), waits for ever too, after a crash, or after an ordinary exit if
   a socket joins the process while its listeners still read the log (`WaitInVain` in `ShutdownOnlyWaitsInVain`).
2. An exit can be reported twice (LSProc.ts:93); a stale listener closes the newer
   session of its id (LSWSServer.ts:200); an evicted process that exits with an error ends
   the server (LSProcManager.ts:182, LSWSServer.ts:195); with `maxSessionConns` the consumer
   of a dropped connection stays (LSWSServer.ts:742), so `NoConsumerLeak` is checked without;
   more processes than `maxProcs` may be alive, as an evicted one is forgotten before it
   exits (LSProcManager.ts:183): `ProcLimit` is about the table. Answers to string ids are
   dropped (LSWSServer.ts:530), and the workloads of `routing` show it. A consumer attached while a message is half written takes
   its second half for a header; its transform fails, and with it the server and what all others were to get (LSWSServer.ts:567; `Up` in `EverythingArrives`).

Editor
3. With two overlapping `doWithLock` calls, the timeout of one, which is never cleared,
   starts the queue while the other holds the lock (LSPlugin.ts:138), and a didChange goes out, although "none will be sent to the LSP" (121):
   `Mirrored` and `OneLockHoldsBack` are about one call at a time.
4. The second may also wait for ever (LSPlugin.ts:175; `Dropped` in `LocksSettle`), for instance a search for
   references or a signature request (`stranded` in `WaitersServed`), neither returning "the result of the callback"
   (124) nor throwing, and an abort of a job makes
   `doWithLock` throw an AbortError (177). Two didOpens are sent at the first
   initialization (78, 111). An emptied document is not sent (55, switch `Emptying`).
   An edit that brings back the text last sent, while another is being sent, is
   dropped (173, 192, switch `Undo`), and so is one that undoes an edit whose notification
   threw. After `changeTransport`, "you should be all set" (LSClient.ts:74-76), but an
   edit whose didChange threw is not sent before the next edit or initialization. didChange and
   didOpen may follow didClose, as `destroy` stops nothing (235-243).
5. `connect()` while the old socket is closing: the old close event disposes of the new
   connection (LSWebSocketTransport.ts:196-200). Buffered requests stay pending if the socket
   never opens or the transport is disposed of. Notifications are not held back before
   `initialize` is answered (LSClient.ts:249-259; `destroy` sends didClose at any time, LSPlugin.ts:235-243) and overtake it in
   the buffers (258), and `initialize()` after `changeTransport` does not keep messages
   back: only the first language server is sure to be asked nothing before it is initialized (LSClient.ts:211).

Framing
6. A header of more than 21 bytes that is cut after the 21st fails the stream
   (LSTransform.ts:102). What a socket buffered while connecting is sent with the next
   write only (WSStream.ts:168).

LSProxy
7. A null result is taken for no result yet: its middleware is given the client's own
   parameters, and the client gets them back as the result if it passes them on
   (LSProxy.ts:510, `ResultGiven`). The client's answers to requests of the language server are returned without
   `toProcUri` (LSProxy.ts:338), against types.ts:94, and so are the results of handlers (326):
   `PassedOnConverted` says that they keep the client's form; `sendNotification` and `sendShutdown`, "to the LSP
   process", go to the client (131-147, 177-183); a handler that cancels a request of the
   language server makes it get the object `{ls_proxy_code: ...}` (326); a catch-all
   middleware overrides the change of the exact one (543, 570); a later handler that
   returns null overrides an earlier one's answer. Requests in flight when the language
   server exits are never answered (stage `lost`, which `RequestsAnswered` excuses), although "requests get exactly one
   reply" (ls-ws-server README.md:117). Notifications may overtake each other in callbacks (357).

Linting
8. A notification for another document or version is ignored, but aborts the queries of the
   diagnostics that are shown, which then get no code actions (linting.ts:98, 106-107).

Other extensions
9. Signature help asks at the offset it was called with, although the position moves with the
   document (signatures.ts:140): after an edit it asks about another place, or throws. `activeRequest`
   is never reset when a request is over.
10. Inlay hints of an empty document are asked for with the end -1, which throws (inlayHints.ts:100),
   so that hints shown before stay without `clearOnEdit`. While another extension holds the lock the hints are
   those of an earlier text, and nothing asks again.
11. The plugin never calls its `onError` (LSPlugin.ts:75): its errors, of `LSPlugin.ts:36-39`, are reported to nobody. `handleFindReferences` returns true although it fails (references.ts:181, 270-276), and its
   `offsetToPos` is outside of its `try` (212). An offset 0 counts as none: a reference at
   the start is not gone to (377), and a click there stands for the cursor (161).
12. The rename dialog's offset is not mapped by changes (renames.ts:113-117), and a word that
   comes too late may be no word at all: `posToOffset(...)!` gives an undefined selection (230-231; hence
   `astray` in `SelectionInText`). `applyWorkspaceEdit` ignores the version its edits are for
   (LSPlugin.ts:268-280).
13. "1. Preselected items first" (completions.ts:381-386) is the last tie-break, after prefix and text
   (`completion_order`); what the three criteria agree on is the order (`BetterItemsFirst`).
   Two additional edits that touch may be applied wrongly, as may those after the item's own edit on its line; those
   that resolving the item would bring are lost if it is accepted before (271, 313-320).
14. The context menu's tooltip is neither removed by its callbacks nor moved by changes
   (contextMenu.ts:57-60, 139-222), so that they use an offset that may no longer be in the document.

## 13. Proofs

`LSWSServerProofs` proves, for every number of sessions, processes and sockets and every
value of the limits and switches, from the assumptions named in `LSWSServer`:
`TypeCorrect`, `ProcessesNotOrphaned`, `ClientsNotStranded`, `ShutdownIsComplete` (all
from `InductiveInvariant`) and `ProcessTableBounded`.

`IInv` strengthens the properties by what makes them inductive. `NoOrphan` alone is not:
a suspended `closeSession` deletes `procs[s]` when it resumes, so one must know that by then
no unsignalled process of `s` exists. `AwaitInv` says so: while an activation awaits
a kill, that kill is of a process of the same session; a new process of `s` cannot be spawned
because `procs[s]` keeps the old one; once the kill is over, whatever `procs[s]` holds has been
signalled. `ExitInv` says the same of exit listeners that are about to clear `LSProc.proc`:
the process is forgotten by both maps, or the listener waits for a kill that never ends (the
crash hazard). `ConnInv` keeps registrations disjoint, `ShutdownInv` says that after
`shutdown()` resolves no session and no unsignalled process is left, and `TaskInv` relates
each phase of an activation to the state of its process. The proof has one lemma per action.

`ProcLimit` needs no more than `IInv`'s types: `Held` is finite, every action but
`ConnectSpawn` only removes from it, and `ConnectSpawn` adds one after removing one when the
table is full.

`ConsumersGoWithSockets` is proved where `maxSessionConns` is not given: the consumer of a socket
belongs to a session object that still has the socket registered, in `sessionMap` or not, so that
onclose finds it. Displacing a connection breaks just that (disagreement 2).

`RoutingProofs` proves, for every number of connections, ids and messages, that `Routing`
implements `DirectReply` (`AnswersReachAskers`), and `TypeCorrect`, `MapsDoNotGrow`,
`RepliesKeepIds` and `HeadersAreHeaders`. A step of `Routing` that hears an answer is a
`DirectReply` step only if the answer was made for this client's request and for no earlier one.
The invariant says why it was: a request is in one place at a time, on its way in (`inbox`,
`stdin`), with the language server (`pending`) or answered (`made`); from the inbound middleware
on it goes under a UUID, and each entry of a map is for a UUID that no other map has,
and for a request that has had no answer. So what an answer on its way matches (`Owned`) is
the entry of its asker, and taking the entry away with the answer keeps the rest. `HeadersAreHeaders`
has an invariant of its own: what a consumer that was not attached `late` reads next is a
message, or the second part of the one whose first part it has read last (`HeadsOf`).

`DocSyncProofs` proves, for every number of locks, edits and initializations and every value
of the switches, `TypeCorrect`, `QueueIsNotLeftPaused` and `VersionsGrow`, and for one lock
`OneLockHoldsBack`. The handlers of
`DocSync` are compositions of the queue's operations, and so is the proof: `Follows` is what
every operation keeps (the version does not fall, what is sent has a newer one, nothing is sent
while the queue is paused, only a call that has not been made begins), `FollowsOn` that compositions keep it, and
each operation has one lemma. That a job which throws fails only who awaits it needs two more
things. `JobInv`: each job is of one call, which waits for it, and is queued or running once.
`LockInv`: which calls a `doWithLock` has made by its place, so that the one it awaits is the
one that is not over; a call by `OnTimeout` or `After` never touches a lock that somebody is in.
Then `lock[l] = "locked"`, which explains that the queue is paused, is left only by a handler
that starts the queue first (`Unpaused`): what follows is as from a queue that was not paused.
`HeldInv`, that whoever has the lock has paused the queue, needs that nobody else starts it. The
assumption of `OneLockHoldsBack`, one lock, is that; with two it is false (section 5).
What is sent is the text of the editor under a new version (`CopyStep`), because every operation
reads both in the step that sends; so `Follows` says that too.

`DocSyncProofs` proves `SyncedWhenIdle` too (`NothingUnsentWhenIdle`), for any number of locks,
edits and initializations, where the plugin sends `didOpen` (else nobody tells the server the
first text) and an edit makes a new text (else it is false: disagreement 4), as in the runs. While the server's text is old, `Covered` tells which call of `syncChanges` will
send the editor's: one that waits for the queue to be idle, one that goes on after all others
that are late, or the one whose job is current and not aborted; its job must not be found late
(`Live`: `documentVersion` is what it was). `Tidy` is what keeps it so: all jobs but
the current one are aborted (`QueueInv`), those that wait are in the order of the versions they
have read, so that the last is the freshest (`WaitersInv`, `WokenInv`), and nobody waits while
a job is queued or a call goes on (`Apart`). Each operation of the queue keeps `Sound`, as each keeps
`Follows`. The timeout of a lock calls `syncChanges` and then lets the finally clause call it once
more before the calls in between have gone on; `LeavingInv` says that only the timeout's own
call can be under way then, or else a notification is. The text that is taken for sent may be newer than
the one that was, but no edit brings it back (`TextInv`).

`DocumentIsMirrored` puts the two together: `DocSync` implements `Mirror`, where there is one lock,
didOpen is sent and no text comes back. Each step of the queue is a change, a version used up
by a notification that throws, or of no consequence (`QueueCopies`), which `CopyStep`, `HeldInv` and
`SInv` decide; `EditWrites` and `InitializeOpens` are the editor and the client, whose steps send nothing
or a didOpen.

`EditorProofs` proves `LastRequestShows` and `HintsAreInOrder`, for any set of editors. Lemma
`StepParts` takes the extensions apart: a step of `Editor`, whoever makes it, changes the
variables of signature help by an update, a step of a request or not at all, and so for the hints.
Then of all requests only the last may be live (not over and not dropped), it is
`activeRequest`, and nothing was selected since it began; and of the queue's jobs at most
one runs, which asked about a text no older than that of the hints shown.

`EditorProofs` also proves `SelectionInText`: what is selected is in the text, but for a word to
rename that comes too late (`astray`). A transaction's selection is in the document it comes with because
what it is computed from is a position of the text *now*, however old the answer:
`PlacesInv` says so of what the completions, the extra edits of an accepted one, the finds and
the rename's input hold, each of which is mapped, clamped or converted again by whoever
uses it. Under it are lemmas about the document: what changes make of a text's length
(`JoinedLength`, `ApplyAllType`), that mapping through them (`UpTo`) keeps an offset within it, and that
a position's conversion (`posToOffset`) ends within the text or gives none.

And `TooltipIsThere` (`TooltipStays`). Characters are compared by where they come from: one that
a transaction inserts has never been in the document (`Fresh`), so that `TextInv` can say that no
character but the line break is there twice. Then a character that changes keep ends where the offset
behind it is mapped to (`CharacterStays`, by induction over the changes). `TooltipInv`: the
tooltip and the active request, unless it was dropped, mark their character (`Marks`): their
position is in the document, and behind that character if the document has it. Only the active request is
mapped, so that of the others, and of one that was asked for where there is no text
(`Placeless`), nothing is known; it is enough because only the last request that is not dropped changes the
tooltip (`SignatureInv`, of `LastRequestShows`), and that is the active one.

`EditorTypes` (`TypeOK`) adds to these invariants what only types need (`TypesInv`): that a request that
still waits has an attempt left (`RequestsInv`), that a language server that was sent all
changes has the document and that who waits in the queue is an extension's call (`LockInv`), and that a query CodeMirror has given up keeps its range.

`CompletionsAreInOrder` (`BetterItemsFirst`), for any number of items and texts. Each `StableSort` moves the
items (`Puts`): a bijection from the places after it to those before it, by which none comes
before an item it should follow and of two that compare equal the first stays first. So a bijection
loses and doubles none (`PutsKeepsCount`), the order of one sort outlives the next
wherever that one does not decide (`SortedPuts`), and of three sorts comes the order of prefix, text and
preselection (`ListInOrder`), in which an item that is better than another is never behind it. Because the comparisons are orders (`AreOrders`),
counting the items that come before one gives each a place of its own. What filtering leaves is an
induction over the list (`KeptCount`).

`EditsAreAsAtOnce` (`EditsAsIfAtOnce`), for any text and the two edits an item may have here. A change that is clear of others, made with
them, is the same as that change made after them, at the places where its ends are then
(`OneAfterOthers`, from what changes leave of a text, `Splices`). An edit finds its places by
position. One before the item's own changes, or on a line below them, stands for the
same place in every text that begins as those changes make the document (`PlaceThen`): what is
before them stays (`FrontKept`), what is behind moves alike, and so do its lines, because the
changes stay on one line (`BehindKept`, `StaysOnLine`). Such places keep their order
(`BesideInOrder`), so that the sort (`EditsPut`) puts the edit that ends later first
(`EarlierSecond`), and what is made first does not move the places of those still to come
(`BeforeChange`). `GoalInv` is then inductive: the edits that are left lead from the text to the
goal (`Leads`), as long as nobody else edits.

`ClientProofs` proves `NoSocketLeaks`, `FirstServerAskedWhenInitialized` and `EverythingGoesOut`, for every
number of transports, sockets and calls.
`connect()` tests `#connectingPromise` and the state of `connection` only; the invariant
`Known` says that this is enough: a socket that is connecting is the one
`#connectingPromise` stands for, and one that is connecting or open is the `connection` of
a transport that is not disposed.
That the first language server is asked nothing before it has answered initialize needs to know
where the first initialize is. `ThereInv`: nowhere but with the first transport. `PhaseInv`:
until it is answered it is `Alone`, that is, of the first transport's buffers, writers and wires
one at most holds anything but notifications, and that one nothing else than it; a lost connection may take it away. Afterwards it is
what the first wire with more than notifications began with, but for those (`Leads`), and stays so because only
the latest socket of a transport can be open (`SocketInv`), so that no earlier wire is written
to. `CallInv` says why nothing is given to the first transport before: the client is made
ready only by an answer, and another initialize than the first goes to another transport.
`EverythingGoesOut` (`NothingLost`) compares what a transport was given with what is in its
buffers, the writer and the wire (`Delivered`) while it is not disposed and has the one WebSocket it
made (`Attached`). That nothing else is there is `BufferInv`: no message is in a writer before its
WebSocket opens, none in a buffer after, so that a WebSocket that opens sends all there is and
nothing more. `Only`, which picks out the notifications or the requests, is a recursive function;
`OnlyConcat`, by induction on its second sequence, lets it pass through every concatenation.

`FramingProofs` proves all of `Framing`'s properties, for any messages, cut anywhere, and any
`chunkSize`. `Right` says where the parser stands when it was given a number of bytes: before
the header of the first message it has not pushed, between that header and its body, or,
failed, behind 21 bytes of a header that has more. Every `Round` keeps it, and either takes
something more of the source (`Taken`) or changes nothing now or later (`Still`); so `Parse` ends with
nothing left to take, and a message whose bytes have come cannot be left. Messages that begin in
the order of the source (`SourceGrows`) come from what `Begin` computes (`BeginIsSum`). The pieces of
`chunkByteArray` are cut by multiplication and division (`PiecesInOrder`), and appended to what
was sent they go on where it ended (`SendPieces`), because the buffer of a socket that is
not closed begins there. `FramingImplementsRelay` says what this is of messages: all that was written
is the messages passed so far (`RelayInv`, `Target` being where each ends), only a dropped one
takes no room (`TargetGrows`), and so the frames, which are `Chained`, bring exactly the messages that end where they
end or before (`ArrivedIsSent`). The library's induction theorems take an operator; `NatSetInduction`
and `RecursionExists` say the same of sets and functions, from the well-foundedness of `<`.

`LSProxyProofs` proves `MessagesAreConverted` (`PassedOnConverted`) and `CancelledIsFinal`, for any set of messages
and any callbacks. Both need to know in which form a message's callbacks have its value,
and that it has not been passed on while they run: `Right`, one message at a time; what is returned to the
language server keeps the client's form (`Unconverted`). Lemma
`OneMessage` says that a step of one activation leaves the others right, and
`ForwardIsRight`, `ChangeIsRight`, `OverIsRight` are the ways a step may end.

`Linting` itself proves `LastDiagnosticsShown`, for any number of notifications, versions
and diagnostics: since every notification takes the controller, even one that is ignored,
the controller's notification is the last, and only its promises lead to a dispatch.

Assumptions are those named in the modules: kinds of messages are disjoint, bounds are
natural numbers, switches Booleans, the absence of a message is no message, a lock is no call.

Model-checked only: all liveness. Liveness under fairness and ENABLED are beyond the prover.

## 14. Not modelled

* A command that cannot be spawned; errors of the process's streams; the log files.
* Hovers and window messages: one request, or none, for what is shown at once and not kept.
* Resolving completion items and hints, the fields of snippets, matching the token: what they
  change is what is rendered, or inside CodeMirror. Two completion popups at a time do not exist.
* Applying a code action of the linting extension, which is `applyWorkspaceEdit` again.
* More than one reference or definition in a panel, and edits in other files, which are passed to
  the application.
* Incoming notifications and requests in the client, and request timeouts: `LSClient` passes none.
* `codemirror-ls`'s formatting, markdown and error classes; the mock transport; the logger; the demo.
