# Verification of the Universal Zalo gateway

TLA+ models of the gateway, the TLC runs that check them on small instances, and
TLAPS proofs of what matters most. `PROJECT.json` maps every definition to the lines it
models and lists the runs, the findings, the hazards and the theorems.

    tlc -workers 2 -config HubStorage.cfg MCHubStorage      # a run: see the table below
    tlapm HubStorageProofs.tla                              # the proofs of a module

## 1. The system

A headless Chromium is logged in to Zalo Web. The **gateway hub** (Node, one event loop,
`services/gateway-hub`) talks to it over the Chrome DevTools Protocol, logs in to Zalo's
network API with the same session, keeps a copy of contacts, conversations and messages,
and serves any number of **web clients** (Next.js, `apps/web-client`), each with a local
Dexie store. A set of **Rust crates** (`crates/`) holds the frame-level proxy, the
sequence NAT, the cryptography and a storage layer.

| Component | State | Operations | Hard behaviour | Correct when |
|---|---|---|---|---|
| Storage engine (`storage.ts`) | tables, staging tables, high-water marks, hydration state, four JSON files | `addMessage`, upserts, staging, swap, flush, load | media download awaits inside a write; overlapping resyncs; flush failing or interrupted | ids unique, senders known, marks cover, files equal tables, only a swap regresses |
| Queue engine (`queue_writer.ts`) | realtime and bulk queue, `isProcessing`, outbound map | `enqueue*`, `processNextBatch`, worker interval, `registerOutboundPending` | one flag against re-entry at every await; a write that throws | one worker, no task lost or doubled, FIFO per tier, realtime overtakes, every task ends |
| Resync (`crawler.ts`) | none of its own (staging) | IndexedDB and sidebar extraction, scraping, swap | swap during writes, empty extraction | the gatekeeper is always released |
| Outbound path (`index.ts`, `page.tsx`, `in_context_hook.ts`, `zalo_network_client.ts`) | client status, pending map, timers, dispatches | send, retry, accept, rate-limit, settle, time out | timer against late answer, retry with the same id, fallback after a partial send, disconnect | no entry without a timer, no false DELIVERED, an outcome is shown |
| CDP client (`cdp_client.ts`) | `this.ws`, flags, pending commands, timeouts | `connect`, `send`, `destroy`, socket events | handlers of an old socket act on `this.ws`; reply, timeout and close race | map = promises = timers; `isConnecting` never sticks; always a way back; one session |
| Rate limiter (`token_bucket.ts`), clock (`hlc.ts`) | tokens and last refill; physical time and counter | `tryConsume`, `getAvailableTokens`; `now`, `update` | fractional refill, wall clock set back or standing still | bounded windows, no lost refill; strictly growing stamps |
| Sequence NAT, ACK router (`sequence_nat.rs`, `ack_router.rs`) | three atomics, pending table | transform, allocate, translate, register, resolve, clean up | atomics combined without a lock; duplicated and late acknowledgements | wire numbers unique and rising, acknowledgements routed to their frame |
| Hub server (`index.ts`) | client, streaming and SSE sets | REST and WebSocket handlers, CDC fan-out | sync endpoints overlap; events and answers carry different versions | its clients converge to its tables |
| Network client (`zalo_network_client.ts`) | `api`, `isConnecting`, one interval | login from the browser session, listener, synchronisation | a timer starts logins that overlap; partial failures | one listener, a failure costs its own rows only, login happens in the end |
| In-context hook, chunked sync (`in_context_hook.ts`, `chunked_sync.ts`) | `isInitialized`, listeners; in the page a buffer and a timer | initialise, capture, flush, scan | CDP session closed or page reloaded between any two steps | what was captured arrives; a scan that succeeds is complete |
| Normalizer (`normalizer.ts`) | none | `cleanMessageContent`, `parseTimestamp` | regular expressions applied one after the other and twice; midnight | nothing lost or counted twice; a time of day is the latest one |
| Web client store and views (`page.tsx`, `dexie_db.ts`) | Dexie tables, sync dialog, hydration state | CDC and fan-out handlers, polls, uploads, sync dialog | every answer is a snapshot put some time later; socket and EventSource end at any time; syncs overlap and fail | stale rows heal, conversations arrive, dialogs end, the overlay goes away |
| Proxy, arbiter (`crates/zalo-proxy`) | sockets, read-ahead bytes, capture channel | handshake, relays, frame capture | two tasks share a bounded channel; read-ahead cuts the request anywhere | streams intact, capture complete, no relay blocked for ever |
| Ratchet, idle-session hub | chain keys, indices, skipped keys; map and counter | encrypt, decrypt; register, unregister | loss and reordering; map and counter changed apart | every arrival opens; the count covers the sessions |
| Session auth, Rust storage, canary, presentation | cookies, SQL, one flag | – | – | left out (section 8) |

Components meet in four places: every ingestion path ends in `addMessage` (queue, send
endpoints, scraper); the resync replaces the tables under all of them; the queue engine
emits `cdc_event` and `outbound_status`, which the server fans out to the clients; and
the page-level paths (resync, headless send, hook) all go through `CdpSessionClient.send`.

## 2. Modules

| Module | Models | State and actions |
|---|---|---|
| `HubStorage` | `storage.ts`, the write of `queue_writer.ts`, the resync of `crawler.ts` | One action per stretch of code between two awaits. `AddDirect`, `WriteQueued` are writes without a download; `AddDirectMedia`, `WriteQueuedMedia` suspend before the tables are read and `MediaArrived` goes on. `StartResync`, `IdbExtracted`, `IdbEmpty`, `SidebarExtracted` are the resync. Every action that calls `flushToDisk` ends with it. `Crash` and `Restart` lose memory and load the files. |
| `DurableStore` | what `storage.ts` promises | The abstract store: rows and the resyncs that run. No disk, staging, download or crash. `HubStorage!ImplementsStore` is the refinement; the mapping reads the files while the hub is down. |
| `WriterQueue` | `queue_writer.ts` queues and worker | Each invocation of `processNextBatch` is a worker with its own place in the loop, so that two could overlap if the flag were wrong. |
| `Outbound` | the outbound path across client and hub | `HandleSendMessage` … `ReceiveStatus` in the client, `RateLimited`, `Accept*`, `Network*`, `Headless*`, `TimerFires` in the hub. `sent` counts what Zalo took. |
| `CdpClient` | `cdp_client.ts` | Every socket ever made, because handlers refer to `this.ws` and not to their socket; every call of `send()` as a promise. |
| `TokenBucket`, `Hlc`, `HubClocks` | `token_bucket.ts`, `hlc.ts` and their two instances in `index.ts` | `HubClocks` interleaves both: handlers call either at any time. |
| `NetworkLogin` | `zalo_network_client.ts`, login timer of `index.ts` | Each login call and each synchronisation has its place at an await; the timer starts another call whenever `SessionCheck` lets it. `SetupNetworkListener` starts the listener or, in silence, does not. |
| `PageHook` | `in_context_hook.ts`, `chunked_sync.ts`, session ends of `cdp_client.ts` | The page as an earlier life of the hub left it (`LeftInPage`), the hub's set-up step by step (`BindEvent` … `EvaluateHook`, `SetupFails`, `Retry`), the document (`Write`, `FlushBuffer`), the scans (`ScanChunk`, and `ScanSkips` for the errors of IndexedDB), the frames between, `SessionOpens`, `SessionCloses`, `Navigate`. |
| `Normalizer` | `normalizer.ts` | The two algorithms as operators, with the ciphertext test in front and the `String.replace` that puts the urls back; the state enumerates messages piece by piece and clock readings. |
| `SequenceNat` | `sequence_nat.rs`, `ack_router.rs` | Each atomic access is a step of a task; `Serialised` makes operations run to their end. |
| `Ratchet` | `ratchet.rs` | Sender, receiver and a transport that loses and reorders. A key is the number of derivation steps that lead to it. |
| `IdleHub` | `epoll_hub.rs` | The map and the counter are changed in two steps; the counter wraps at `UsizeMax`. |
| `ProxyRelay` | `main.rs`, `ws_arbiter.rs`, `ipc_bridge.rs` of the proxy | One connection: SOCKS5, TLS, the first read, then the transparent relay, the HTTPS relay or the arbiter's two tasks with the capture channel. |
| `Crates` | – | Composes `SequenceNat`, `Ratchet`, `IdleHub`, `ProxyRelay`. |
| `ClientRows` | messages table of a web client, the endpoints and events that feed it | The hub is `INSTANCE DurableStore`. `GetMessages` serves the newest `Limit` messages of a conversation; answers are snapshots that wait in a slot until `PutAnswer`. No action deletes a row, as nothing in the client does. |
| `ClientGate` | conversations, poll, sync dialog, hydration stream | Each request for a resync has its place in the hub (waiting for `syncNetworkData`, staging) and the way it came (socket, REST, somebody else's); they overlap. Hub side: `ChatComesUp`, `OtherSync`, `StartStagingSession`, `CommitStagingSwap`, `SyncFails` with their `Answer`, `HubRestarts`. Client side: `OnFrame`, `OnClose`, `HandleTriggerLiveSync`, `SyncRequestBreaks`, `DialogCloses`, `PollGoesOn`, `Stream*`. `lost` is a history variable: since the last sync was started, one ended and the client was not told. |
| `SafeParts` | – | Composes `HubClocks`, `NetworkLogin`, `PageHook`, `Normalizer`, `ClientGate`: what they may never do. |
| `LiveParts` | – | Composes `NetworkLogin`, `ClientRows`, `ClientGate` with the fairness of their scheduling: what they must do in the end. |
| `MCHubStorage`, `MCWriterQueue` | – | inputs for TLC |
| `*Proofs` | – | the theorems: a module each for `HubStorage`, `WriterQueue`, `Outbound`, `CdpClient` and `HubClocks`; `SafePartsProofs` for login, synchronisation, hook, scan and normaliser, `CratesProofs` for the four crates, `ClientGateProofs` for the client's gate |

`SafeParts`, `LiveParts` and `Crates` put parts side by side that share no variable. A
property of one part does not depend on the steps of another, so these modules choose a
`part` in the initial state and explore it alone: the sum of the parts' states and not
their product. The dependencies that matter are inside modules: `HubStorage` joins the
engine, the writer and the resync; `Outbound` joins client, hub and dispatchers;
`ClientRows` joins the client to the store that `HubStorage` implements; `PageHook` joins
hook, scan and session.

Names follow the source. Data is abstracted to what the properties tell apart: a message
is its id, conversation, sender and timestamp; a contact is absent, a stub or real; a
task is a token; an extraction is an arbitrary dump from a small set; a row of the client
is a message and whether it has the details that only some paths carry; a byte stream is
numbered units. Message order in the table is not modelled, because every reader sorts it.

In each module the operators commented "A bug:" are the mutated forms of the definition
after them. They are used by nothing; replacing the definition by one of them must make
its property fail, which shows that the property depends on that line of code.

## 3. Runs

| Run | Module, cfg | Checks |
|---|---|---|
| `storage` | `MCHubStorage`, `HubStorage` | `UniqueMsgIds SendersKnown OnlySwapRegresses StagingEnds ImplementsStore` |
| `storage_parent` | `MCHubStorage`, `HubStorageParent` | violation of `ParentExists` |
| `storage_crash` | `MCHubStorage`, `HubStorageCrash` | violation of `SendersKnown`, with failing flushes |
| `queue` | `MCWriterQueue`, `WriterQueue` | `SingleWriter Conservation FifoPerTier RealtimeOvertakes EveryTaskEnds` |
| `outbound` | `Outbound`, `Outbound` | `DeliveredIsReal FourPerPress PendingEnds OutcomeShown` |
| `outbound_ack` | `Outbound`, `OutboundAck` | violation of `TimeoutMeansNoAck` |
| `cdp` | `CdpClient`, `CdpClient` | `MapMatchesPromises Recovering EverySendSettles` |
| `cdp_one` | `CdpClient`, `CdpClientOne` | violation of `OneSession` |
| `hook_capture` | `PageHook`, `PageHook` | violation of `WriteIsCaptured` |
| `safe_parts` | `SafeParts`, `SafeParts` | clocks: `TokensExact IssuesLater`; login: `LoginAccounted SyncKeepsGoing`; hook and scan: `CaptureConserves SyncedMeansAll`; normaliser: `PiecesAccounted CleanedOnce TimeIsLatest`; client: `DialogHasWay StreamCurrent` |
| `live_parts` | `LiveParts`, `LiveParts` | login: `LoginHappens`; client: `RowHeals ConversationsArrive SyncEnds GateOpens` |
| `crates` | `Crates`, `Crates` | NAT: `WireAscends AcksResolve`; ratchet: `EveryArrivalOpens`; session hub: `CountCovers`; proxy: `StreamIntact CaptureComplete EveryUnitArrives` |

The liveness properties of `LiveParts` begin with `part = "..." =>`: each is about the
behaviours in which its part runs, and holds of the others because nothing happens there.
One part runs at a time, so that fairness of a disjunction of one action per part is fairness
of each.

What the less obvious ones say:

* `ImplementsStore`: while no flush fails, a write that awaited a download, a swap over
  what was written meanwhile, a crash and a restart are each one step of the abstract
  store or none.
* `FourPerPress`: the fallback after a network failure may repeat a message that Zalo took;
  and `__INJECTED_SEND__` itself tries a store dispatch, an Enter key and a click in one call;
  one press of the button never makes more than four copies.
* `RowHeals`: late snapshots, refused versions and events without details all overwrite
  newer rows, but once the hub has settled on a version of a message, and that message is
  among the newest it serves, a user who comes back to the conversation gets the hub's
  version and keeps it, whatever goes on with other messages. Messages that the hub has no
  more, and those beyond the limit, are outside it (section 4).
* `DialogHasWay`: an open dialog has its timer, an answer over REST, a sync of the hub or
  a closing frame to wait for, also when two syncs overlap and one's timer closes the
  dialog of both. The exception is `lost`: the socket closed, or the sync ended with an
  error over the socket, which does not close the dialog (section 4).
* `SyncEnds`, `GateOpens`: no combination of restarts, failing syncs, empty answers and
  broken connections leaves the dialog or the overlay up, but for a dialog whose sync was
  lost in that sense.
* `LoginAccounted`, `DialogHasWay`, `StreamCurrent` (and `GateHeld`, which is proved only):
  the safety under `StagingEnds`, `LoginHappens`, `SyncEnds` and `GateOpens`. Whatever waits
  (a closed API, a held connecting flag, an open dialog, an overlay) has something under way
  that will end the wait; what is left to fairness is that it takes its next step.
* `CaptureConserves`: a message that the hook saw while the session had its binding and the
  hub its listener reaches the queue, or is lost with its document or session, never in the
  buffer or the timer.
* `SyncedMeansAll`: a scan that succeeds has handed over all but what an IndexedDB error
  made it skip; the reply does not overtake the last chunk.
* `PiecesAccounted`: of a text that is not taken for ciphertext, words and plain urls stay,
  urls with `$$` or `$&` are there though changed, and each reaction is in the text or counted.
* `TokensExact` joins two facts that are proved apart: no token is made (`WindowBound`) and
  none is lost (`IdleRefills`).
* `AcksResolve`: an acknowledgement finds the request of its own frame, if it was not cleaned
  up, and is translated to the browser's number less one for each injection that followed the
  frame: exact as long as none did, short afterwards (section 4).
* `EveryUnitArrives`: a side that stops reading leaves the proxy's write to it waiting for
  ever, and with it its own direction; not the other one, although both share the capture
  channel.
* `CleanedOnce`: the send path cleans a text before `addMessage` cleans it again.
* `StreamIntact`: the bytes read ahead to recognise a WebSocket request are neither lost
  nor overtaken, however the first read cut them.

**Bounds.** `storage`: two ids, one in two versions, two senders, a dump that lists an id
twice with the older version last, two overlapping resyncs, two suspended writes; that is
enough for a write to be overtaken by a newer version, by the swap, and by the swap of
another resync. `queue`: three realtime tasks, a chunk longer than the micro batch and a
short one, one malformed task per tier, and room for a second worker that must never appear.
`outbound`: one id with three attempts, so that the timers of two earlier attempts are still
armed during the third (ids share only the FIFO of status events). `cdp`: two sockets, so
that a late close of the first hits the second, two commands of the hub and two of each open
handler (the code sends four, one after the other); `cdp_one` has a third socket.
`safe_parts`: refills of 2/3 of a token, so that rounding matters, clocks set back by two
units, counters that meet and pass each other; two logins and two synchronisations that
overlap, with one friend list and two groups that fail apart; two messages seen by the hook,
one scan in chunks of two, two sessions, one retry, two documents, and every state in which
an earlier life may have left the page; every message of up to five pieces, which leaves room
for a smiley between blanks and words and for a burst of reactions after it, and every pair
of times within three days of twelve minutes; one conversation of the client, two requests
for a resync at a time, so that the timer, the error or the swap of one meets the other, two
ended syncs, two states and a frame under way, and one restart. `live_parts`: two logins that
overlap; a message in two versions and another one, with a limit of one, so that a message
can be beyond it; one resync, one answer held while two frames arrive, so that an old answer
overtakes newer events and an event arrives between the two; of the gate one request at a
time, which others may follow. `crates`: two injectors,
two injections, three browser frames; four ratchet messages, so that two can be passed over
and arrive in either order; three threads over two accounts with a counter of three bits;
five units up and two down, a request of three units whose `Upgrade` header ends in the
second, one text frame, and a capture channel of one slot, so that it fills.

**Fairness.** `storage`: an extraction ends, because its CDP command has a timeout and every
exception becomes an empty result. `queue`: the event loop runs what is scheduled, the
interval fires, and a write returns or throws (its download is caught and has an end).
`outbound`: timers fire and frames of an open socket are handled; nothing is assumed of the
network or the dispatchers. `cdp`: timers fire and the `/json` request ends, by its own 5 s
timeout if not otherwise; replies, sockets and the supervisor owe nothing. `live_parts`
(`LiveFairness`): of the client, frames that arrived are handled, an answer is put, the 10 s
poll and the dialog's timer go on, a request for a resync ends with its swap or with an error
(`StagingEnds` shows it; requests to Zalo end); `RowHeals` also assumes of the user, strongly,
that he returns to the conversation, as no code fetches it otherwise. Of the login, the 4 s
timer ticks and awaits end; `LoginHappens` assumes strongly that not every cookie query and
not every login fails, which is up to Zalo. `safe_parts` needs none. `crates`: the relay tasks
and the logger run; a write ends only while the side it goes to reads, and no side owes that
it does.

**Deadlock** is checked in `storage`. The other systems may stop: all tasks written, all
attempts used, the client destroyed, the connection ended, a bound reached.

## 4. Findings

Each is a run in which TLC refutes what the repository says of itself.

* `storage_parent`: the writer ensures the parent conversation, then awaits a download; a
  swap in between removes the conversation, and the message is stored without it.
* `storage_crash`: the four files are replaced one after the other. After a failed or
  interrupted flush and a restart, a message may have no contact.
* `outbound_ack`: nothing removes a pending entry when the send succeeds
  (`registerIdMapping` has no caller), so 10 s later every successful send is reported as
  FAILED, with "Timeout waiting for server ACK".
* `cdp_one`: `send()` during the closing handshake opens a second socket; the late close
  of the first makes the client forget the second, which stays open, and open a third.
* `hook_capture`: `initialize()` runs once and its bindings end with the CDP session.
  After the client has reconnected, no write of Zalo's page reaches the hub any more.

Facts that the models show or assume, and that are no run of their own:

* Storage. The swap replaces the messages by the dump alone; what was stored and is not in
  the dump is gone (`OnlySwapRegresses` says that nothing but the swap does this).
  `addMessage` returns a message it refused as older, so the change event carries the stale
  version to the clients.
* Sending. The hub's own copy of a sent message stays SENDING, and the next fetch brings
  that back over DELIVERED. A rate-limited send is answered without its id.
* Client. `MESSAGE_FANOUT` follows the change event and replaces its row by one without
  sender name, reactions or media. Nothing deletes a row: a message that a swap dropped from
  the hub stays in the client, and a stale row beyond the newest 500 of its conversation is
  not fetched again. The socket is opened once: a dialog started over a socket that closes
  stays, with its button disabled. So does one whose sync ends with an error over the
  socket: the frame is `LIVE_SYNC_PROGRESS` with the stage ERROR, which is only logged,
  while over REST an error closes the dialog. The second sync button, under an empty list,
  is not disabled while a sync runs: several overlap, and the timer of the first to end
  closes the dialog of all. A failing `reconcileFullState` keeps no dialog open: it catches
  what its puts throw, puts the rows one by one, and catches each of those too
  (`dexie_db.ts:129-153`). The JSON answer of the status route for an
  unreachable hub ends the EventSource for good. The scrape that `SELECT_CONVERSATION`
  starts answers nothing.
* Network client. An api without a listener, or one that fails to start, is passed over in
  silence: the client is ready, so no login is tried again, and realtime messages come only
  through the hook. A failed profile request leaves `myUid` empty. `syncNetworkData`
  overwrites the previews of conversations every 30 s.
* Hook and scan. A page that an earlier life of the hub left hooked sends its events as soon
  as `addBinding` is done; until the listener is registered nobody takes them. An IndexedDB
  error at a store, a database or the whole skips messages, and the scan reports success.
  A failed set-up leaves its listener, and the retry adds another. A scan
  before the hook is initialised, or after a reconnect, enqueues nothing and succeeds;
  chunks that arrive after the command's timeout are dropped.
* Normaliser. The urls are put back with `String.replace`, which takes a url as a replacement
  pattern: one with `$$` or `$&` in it is stored and sent changed, where the comment above
  (`normalizer.ts:216`) speaks of restoring all the original urls. One word of 20 or more
  base64 letters is taken for ciphertext and replaced by a notice, also when it becomes so by
  the first cleaning: the second one then replaces it. A text such as "12/05 10:30" matches
  the time-of-day branch. Of two adjacent smileys with one blank between, the second is not
  converted. Positions of mentions refer to the text before cleaning.
* Proxy. SOCKS5 success is answered before the upstream connection exists. After a clean
  close by the client the upstream task waits for the server's close.
* Crates. The NAT translates an acknowledgement with the delta of now, so that of a browser
  frame which an injection has followed comes back lower than the browser's own number
  (`AcksResolve` says by how much), although the README of the repository promises injection
  "without state desynchronization"; its test translates a frame that follows every
  injection. With `Serialised = FALSE` the NAT gives one wire number to two frames, because
  the delta and the browser's highest number are read one after the other; no caller shares
  the NAT between tasks yet. With
  `Duplicates = TRUE` a second copy of a packet advances the receive chain and all later
  packets fail. Registering an account again counts it twice.

## 5. Proofs

Each theorem is for every value of the constants: any number of messages, tasks, sockets,
attempts, any capacity and rate.

| Module | Theorems | Argument |
|---|---|---|
| `HubStorageProofs` | `TypeCorrect`, `UniqueMsgIdsHolds`, `FaultFreeIntegrity`, `GateHeldHolds`, `OnlySwapRegressesHolds`, `ImplementsStoreHolds` | `IInv` (types and unique ids in memory and on disk) is inductive for any flush faults. `Faithful` adds, when no flush fails, that the files are a sound copy of the tables, which is what a restart needs; it is the strengthening without which `SendersKnown` and `MarksCover` are not inductive. The refinement uses both and `FromInputs` (a suspended write still carries a caller's message): every action maps to one step of `DurableStore` or to none. `GateHeld` is inductive with the types: every step that sets a resync back to idle also opens the gate, and an empty extraction goes on to the sidebar. |
| `WriterQueueProofs` | `TypeCorrect`, `SingleWriterHolds`, `FlagMeansWorkerHolds`, `ConservationHolds`, `FifoPerTierHolds`, `RealtimeOvertakesHolds` | See below. |
| `OutboundProofs` | `TypeCorrect`, `PendingHasTimerHolds`, `DeliveredIsRealHolds`, `FourPerPressHolds` | `WireHonest` (every SENT event under way belongs to an accepted message) carries `DeliveredIsReal`. `Budget` carries `FourPerPress`: a press buys four deliveries, a request or a network send under way still owns them all, a headless send three. |
| `HubClocksProofs` | `TypeCorrect`, `WindowBoundHolds`, `IdleRefillsHolds`, `HlcTypeCorrect`, `ClockCoversHolds`, `IssuesLaterHolds`, `HubClocksCorrect` | The window bound is inductive together with the capacity; the proof is linear arithmetic once the products are named. `compare` is transitive and every operation advances the clock past its own value and the remote's. |
| `SafePartsProofs` | `LoginAccountedHolds`, `SyncKeepsGoingHolds`, `CaptureConservesHolds`, `SyncedMeansAllHolds`, `PiecesAccountedHolds`, `CleanedOnceHolds`, `TimeIsLatestHolds` | Login: a call under way holds `isConnecting` and is the only one; interval and listener start between the login and the end of that call, the listener perhaps not; so a call that throws or returns early has set no api. Synchronisation: what a call asked for and got is listed, and no step takes a row away. Hook and scan, and the cleaning of a message: see below. Clock: a number is whole days and a time of day. |
| `CratesProofs` | `WireAscendsHolds`, `AcksResolveHolds`, `EveryArrivalOpensHolds`, `CountCoversHolds`, `StreamIntactHolds`, `CaptureCompleteHolds` | NAT: assuming `Serialised`: the last wire number is at most the browser's highest plus the delta, also in the middle of an operation, a table entry belongs to the frame of its number, and `Shifted` says how far a frame's wire number is from the browser's own and from the delta, an injection counting before its frame is numbered. Ratchet: keys stay in step with indices, and a packet that is still to arrive is ahead of the receiver or has its key set aside. Session hub: `Balance` counts the registrations that no removal has taken back, as a whole number that the threads between their two steps and any wraps of the counter correct. Proxy: see below. |
| `CdpClientProofs` | `TypeCorrect`, `MapMatchesPromisesHolds`, `Reconnects` | Map, timeouts and promises change together in every action; for `Recovering`, a socket that is `this.ws` never closes without a timer or an attempt taking its place. |
| `ClientGateProofs` | `DialogHasWayHolds`, `StreamCurrentHolds` | `GateInv`: the types, `StreamCurrent`, and `Way`: a timer, a request of this client in the hub, a closing frame, or `lost`. Every step that ends one of them turns it into another: a sync into its closing frame, its answer or its loss, a frame or an answer into a timer, and the timer closes the dialog. `Closes` is followed through the queue of frames, and a restart turns the requests over REST into as many timers, for which they are counted. |

**The queue.** Neither `SingleWriter` nor `FlagMeansWorker` is inductive alone: the flag
keeps a second worker out, and being the only worker makes `Finish` entitled to clear the
flag; `WorkerOK` says what a worker holds at each place of the loop. `Conservation` and
`FifoPerTier` come from two lines, one per tier (`LinesInv`): the realtime line is the task
in the worker's hands, if it is a realtime one, followed by the realtime queue; the bulk
line is the bulk task being written, the rest of the spliced batch and the bulk queue. Each
line is in the order of enqueueing, everything written of a tier comes before what is in its
line (`InLine`), and lines, written and lost tasks partition what was offered
(`Partition`). Every action then only appends to a line, takes its first element, cuts a
front off it, or moves elements between the places that make it up, and the lemmas about
sequences say what each of these does. For `RealtimeOvertakes` the bound alone says nothing
of tasks that still wait; `Waiting` charges a task at position p with the p − 1 bulk writes
the tasks before it may still cost, and `Slack` with the one that is certain once the worker
is past the top of its loop.

**Hook and scan.** `ListenerHeard`: nothing is heard without a listener in the hub, and
listeners stay. `HeardIsSafe`: a message heard and still in the page has a binding and an
armed timer. `ScanSafe`: while a scan runs, each message it owes (`Owed`: the store but for
what it skipped) is still to be read, on the wire ahead of the scan's reply, or enqueued; so
the reply cannot overtake the last chunk. `HookInv` is their conjunction with the types.

**Proxy.** `Placed` says where the units the proxy has read are at each stage: still in the
prefix, delivered, or held by a task of the arbiter (`InArbiter`). The prefix begins at the
next unit to forward, which is what makes the read-ahead bytes neither lost nor overtaken.
`CaptureInv` adds, for each direction, that the frames in the log and the channel are the
binary ones up to the unit the task has sniffed, ascending (`Catches`).

**Cleaning a message.** `cleanMessageContent` is one loop and two replacements over a text of
any length. The filters are written as recursive functions over positions (`KeptUpTo`);
`KeptExists` shows that such a function exists, without which nothing follows from its
recursion. Facts about every position are
proved by the least counterexample: the least number of a nonempty set of naturals
(`LeastNumber`) is not 0 and its predecessor satisfies the claim (`UpTo`). Each step of the
cleaning is then a lemma about what it keeps: the trims and the loop cut pieces outside the
set that is kept (`TrimRightIs`, `StripTrailingIs`), the legacy filter drops one kind
(`DropLegacyIs`), and the inline replacement maps a smiley to an emoji, position by
position (`InlineIs`). For `CleanedOnce` the cleaned text has no legacy token, and does not
end in one of the pieces that the trailing loop takes, which is all that a second cleaning
looks for.

Assumptions are the named `ASSUME`s of the modules: bounds are natural numbers, inputs have
the types of messages, a micro batch and a chunk of a scan are not empty, scans and the
requests for a resync are finitely many, and tasks are distinct: no chunk lists one twice
and no task is in both tiers (a task stands for one call and one array element, not for its
content). Where a theorem says so it also assumes `FlushFaults = {}` (`storage_crash` shows
what happens otherwise), `Serialised = TRUE`, or `Duplicates = FALSE` (section 4). The type
invariants and `MarksCover`, `DiskMirrorsTables`, `FlagMeansWorker`, `PendingHasTimer`,
`NoWedge`, `ClockCovers` and `GateHeld` are parts of these proofs and are not checked again
by a run.

Only model-checked: the liveness properties (`StagingEnds`, `EveryTaskEnds`, `PendingEnds`,
`OutcomeShown`, `EverySendSettles`, `LoginHappens`, `EveryUnitArrives`, and `RowHeals`,
`ConversationsArrive`, `SyncEnds` and `GateOpens` of the client), which are outside what the
prover handles. Every invariant and every action property of the passing runs is a theorem.

## 6. Hazards without a property

* A rate-limited send is answered without its id; the client's message stays SENDING, with
  no timer that would end it. A property would only restate the missing field.
* The NAT under concurrent tasks (section 4): no caller shares it between tasks.
* Events of a page left hooked that come before the listener (section 4): nothing in the
  repository promises otherwise for a restart.
* Rows of the client that a swap dropped from the hub: a property would only restate that
  the client deletes nothing.
* IndexedDB errors that the scan swallows: `SyncedMeansAll` says what holds apart from them.

## 7. Plan

1. Safety lemmas under the liveness properties that have none yet: `RowHeals` and
   `EveryUnitArrives`. Under the others lie `GateHeld`, `FlagMeansWorker`, `PendingHasTimer`,
   `Recovering`, `LoginAccounted`, `DialogHasWay` and `StreamCurrent`.
2. The screencast and the contacts endpoints, if they come to keep state.

## 8. Not modelled

* Presentation: rendering, input widgets, stickers, sounds, push registration, the session
  page and the screencast it shows (two idempotent commands and a stream of pictures).
* The API routes other than what they make of failures: they forward a request and keep no
  state, or call endpoints the hub does not have.
* I/O of the hub: media files, avatars, health; the contacts endpoints go the way of the
  conversations and are not repeated. Session auth: a cookie header cached for some seconds.
* What the injected page scripts find: an arbitrary dump.
* Mentions and the other date formats of the normaliser: single regular expressions without
  interaction. Urls with `` $` `` or `$'`, into which `String.replace` pastes the text around.
* X3DH and the identity vault (straight-line use of primitives), the Rust storage (single SQL
  statements and a configuration stub), the protocol canary (one flag, set by a comparison),
  deployment files.
* Code without a caller: `registerIdMapping` and its id cache, `start_unix_socket_relay`,
  `updateCursor`.
