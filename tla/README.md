# SKALL: verification project

SKALL is a terminal chat for a local network and for libp2p peers. One process
holds an identity, an SQLite store, a group manager, a libp2p node with
bootstrap, DHT and mDNS discovery, a chat service on top of them and a Bubble
Tea user interface; a TCP relay with its own client is the older transport.

This directory holds TLA+ models of its stateful parts, the TLC configurations
that check them on small instances, and TLAPS proofs of every invariant and step
property that the runs check.
`PROJECT.json` maps definitions to source lines, properties to mutations that
break them, and lists the hazards of the code with the properties that watch
them.

## 1. Inventory

| Component | State | Operations | Talks to |
|---|---|---|---|
| chat service, groups (`chat/p2p_service.go`, `groups/`, `storage/store.go`) | `Manager.groups`, tables `groups`, `group_memberships`, `peers` | CreateGroup, JoinGroup, LeaveGroup, DeleteGroup, LoadFromStore; `skall groups create` in another process | calls the store one SQL statement at a time |
| chat service, event bus | `subs`, one buffered channel per subscriber | Subscribe, SubscribeE, Unsubscribe, publish, Close | written by stream handlers, senders, monitorPeers; read by the UI |
| user interface (`ui/app.go`, `ui/chatview.go`, `ui/sidebar.go`) | open conversation, shown messages, input line, lists with a cursor, focus, the listener command | listenEvents, Update with its messages and keys, openSelected, doSend, quit | bus, GetMessages, the lists, SendDirect, SendGroup |
| messages (`chat`, `p2p/host.go`, `protocol`, `storage`) | table `messages` with direction and status; streams on their way | SendDirect, SendGroup, SendMessage, handleStream, handleInbound | two nodes over libp2p streams |
| history (`storage`, `chat`) | table `messages` | GetMessages, ListConversations, ListDirectConversation, ListGroupConversation | read by the UI |
| connection manager (`network/connection`) | `peers`: one state per peer; one goroutine per dial | Connect, run, markState, Disconnect, Forget | called by the connector |
| mDNS discovery and connector (`network/discovery`) | `entries`, `events` channel | scan, applyDiff, loop, Connector.handle | events channel, connection manager |
| backoff, bootstrap (`network/p2p`) | delay, attempts; loop position, connections | NextDelay, Reset, Sleep, ConnectAll, maintainLoop, Close | libp2p host |
| DHT rendezvous (`network/p2p/dht.go`) | provider records with expiry, per node | Advertise, FindPeers, discoverOnce, loop, handleStream, Close | the same manager at other nodes |
| TCP relay server (`network/tcp.go`, `client.go`) | `clients`, `peers`, per connection a queue, a reader, a writer | Serve, readLoop, broadcast, enqueue, writeLoop, close, removeClient, Shutdown | its clients |
| group message routing (`groups/group.go`) | duplicate table `seen` | RouteGroupMessage, MarkMessageSeen, pruneSeen | only its tests |
| identity and configuration files (`identity/store.go`, `config/config.go`, `cmd/skall/main.go`, `storage/store.go`) | `config.json`, `identity.json` and the schema and table `identities` per data directory | LoadOrCreate and Save of both, overrides, Open with its migration, UpsertIdentityMetadata, `identity set-name`, `config init` | every command of every process |
| TCP client, framing, rendering, version | | | not modelled, section 8 |

What is hard here, and what makes each part correct:

* **Groups.** A call changes memory and then the store, with no lock around both
  and several statements in the store. Statements fail, the process ends between
  them, calls overlap. Memory and tables must agree whenever nothing is going on,
  and the tables must never refer to what is not there.
* **Bus and UI.** Channels are closed by one goroutine and written by others; a
  write to a closed channel is a panic. Events are late: they describe a
  conversation that may not be open any more, or that is being loaded. Lists are
  replaced under the cursor, and a text is typed in one conversation and sent by
  a command that runs later.
* **Messages.** Row, stream and event are three steps on each of two nodes; any
  can fail or be cut off. A status must not claim what did not happen.
* **History.** Two names for the local user, rows with whatever sender and recipient
  the message claims or with none, text timestamps, a limit.
* **Discovery and dialing.** Events are dropped when nobody reads; a dial ends
  after its peer was removed, or was added again.
* **Bootstrap.** Losses, retries and connections made by others interleave with
  a loop that must neither give up early nor sleep through Close.
* **DHT.** Records of a stopped node are repeated by others; several goroutines
  merge answers; nodes that share a neighbour must find each other.
* **Files.** Processes share them without a lock, writing is not atomic, and what
  one of them reads half-written it must not take for missing. The key pair must
  survive whatever happens.
* **Duplicates.** Recording an ID, reading the members and delivering are not one
  critical section, and the table forgets.
* **TCP server.** Flag and channel of a connection are two things; clients
  reconnect under the same name, or join again under another one; Shutdown waits
  for everybody.

## 2. Modules

| Module | Models | Runs |
|---|---|---|
| `GroupDirectory` | abstract specification: which groups and members a restart would bring back | refined by `GroupService` |
| `GroupService`, `MCGroupService` | group calls of the chat service, manager, tables | `GroupService_calls` |
| `GroupServiceProofs` | theorems about it | |
| `EventBus` | subscribers of the chat service | in `ChatUi` |
| `Sidebar` | lists, tabs and cursor of the left panel | in `ChatUi` |
| `ChatUi`, `MCChatUi` | extends `EventBus` and `Sidebar`: the UI as a subscriber, the service as its publisher, the keys of the user | `ChatUi`, `ChatUi_listen` |
| `ChatUiProofs` | theorems about the bus, alone and under the UI, the input line, the lists and the view | |
| `MessageFlow`, `MCMessageFlow` | messages between nodes | `MessageFlow` |
| `MessageFlowProofs` | theorems about `MessageFlow` and, in a second part, about `History` | |
| `History`, `MCHistory` | reading messages back | `History` |
| `ConnectionManager` | connection manager | in `Discovery` |
| `Discovery` | extends `ConnectionManager`: scanner and connector | `Discovery` |
| `DiscoveryProofs` | theorems about the connection manager, alone and under discovery, and about `Backoff` and `Bootstrap` | |
| `Backoff` | delays and retries | in `Bootstrap` |
| `Bootstrap` | extends `Backoff`: the maintenance loop | `Bootstrap` |
| `TcpServer` | relay server | `TcpServer`, `TcpServer_panic` |
| `TcpServerProofs` | theorems about it | |
| `Dht`, `MCDht` | rendezvous of several nodes | `Dht` |
| `DhtProofs` | theorems about it | |
| `DataFiles`, `MCDataFiles` | configuration, identity and its database row, shared by processes | `DataFiles` |
| `DataFilesProofs` | theorems about it | |
| `GroupDedup`, `MCGroupDedup` | routing of group messages and the table of seen IDs | `GroupDedup` |
| `GroupDedupProofs` | theorems about it | |

How state and steps correspond to the code:

* **GroupService.** `memGroups` and `members` are `Manager.groups`; `dbGroups`,
  `dbRows`, `dbActive` and `dbPeers` are the rows of the tables and the `active`
  flag. A call is a step on memory (`Mgr...`, under the manager's mutex) followed
  by one step per SQL statement (`UpsertGroup`, `UpsertPeer`, `UpsertMembership`,
  `DeleteGroupRow`); `pc`, `grp` and `who` are the caller's position and
  arguments. `ForeignKeyFails` and `StatementFails` are the error returns. `Exit`
  loses memory at any point, `Start` is LoadFromStore. `tainted` is a history
  variable: groups whose two sides may differ because a statement failed, calls
  on the group overlapped, or another process wrote.
* **EventBus and ChatUi.** Every bus operation holds `subsMu` and is one step.
  The store and the publication of a message are separate steps. Update runs on
  one goroutine, commands on others, so `updates` is a set: results come back in
  any order. `listening` is the channel the listener command waits on; what is
  published when there is none, or left behind in its channel, is in `missed`.
  `HandleInbound`, `MonitorRound` and `DoSend` are the service's own goroutines;
  `known` is the table of peers, from which the lists are read again. A key is one
  step of Update. The lists are sorted, so a list is the set of its entries with
  `SortKey`, and the entry under the cursor is the one with as many before it; the
  view is the set of what it shows, and a page is any set of rows as large as the
  limit, because a sender chooses the timestamps they are sorted by. The keys:
  `KeyTab`, `KeyMove` (sidebar), `KeyType`, `KeySend` (input line), `KeyFocus`,
  `OpenSelected`, `Quit`. A text is a number, and `input` and `typed` remember the
  conversation it was typed in.

  A message carries what handleInbound makes of it: `conv`, the conversation of its
  event (the authenticated sender, or whatever group the message names, `Unknown`
  for one the process does not know); `row`, the conversation its row is found
  in, which is another one, or none, when the message claims another sender or
  recipient, when its ID is a duplicate, or when the insert fails; `peer`, the
  sender if its row in the peers table was written. handleInbound, SendDirect and
  SendGroup log a failed statement and go on to publish; so do `HandleInbound` and
  `DoSend`. Reading the lists or a page can fail too (`UpdateListsFails`,
  `OpenSelectedFails`). `faults` bounds all of these in the run; the theorems hold
  for any bound.
* **MessageFlow.** A node sends one message at a time; `send[n]` is the position
  in SendDirect or SendGroup, `wire` the streams written and not yet handled,
  `handling` the handlers under way with their next statement. Each SQL statement
  may fail while `faults` lasts. `Crash` drops what is in memory. The names a peer
  has (libp2p and SKALL ID) are kept apart, because skallToLibP2P decodes only
  one of them.
* **History.** The table only; the queries are operators. The timestamp column is
  text, and `Text` is what RFC3339Nano writes, with two digits of fraction
  instead of nine. A row has any sender, any recipient or none (`NULL`, as the TCP
  client stores what it sends to everyone), in a group or not: Validate asks for no
  more, and handleInbound stores what the message claims. `Rank` is the place of a row under ORDER BY, `RowAt` the row at a
  place, and `Page` the places up to the limit.
* **ConnectionManager and Discovery.** `dial` holds the run goroutines, each with
  whether the entry of its peer is still the one it was started for (`own`);
  markState does not look at that, and neither does `MarkState`. `events` is the
  bounded channel.
* **Bootstrap.** One loop, the connections, and the two contexts. `Sleep` uses
  only the manager's own context. `failedRounds` is history: it counts the rounds
  of dials since one succeeded or a peer was seen connected, by what happened and
  not by the counter of the backoff, so that it can be compared with that one.
* **TcpServer.** Serve handles one connection at a time, in steps of one critical
  section each: `Accept`, `CheckLimit` counts the clients, `AddClient` enters the
  new one, `Spawn` starts its goroutines. A reader delivers a message in two steps per recipient: `Enqueue`
  finds the connection open, `Send` uses its channel. `panicked` is a send on a
  closed channel. A client may join with any message, under any ID (`Read`, then
  `RegisterPeer`): `peerId` is c.peerID, which the last join sets. removeClient is
  `RemoveClient`, the maps under the lock, and close() a step later: `ReaderEnds`,
  `WriterEnds` and `CloseRemoved` for the three that call it. `latest` is history: the
  last connection that registered under an ID.
* **Dht.** One module for all nodes, because the properties are about records
  that travel. One round is `Round`, one `Query` per neighbour and `DiscoverPeer`
  per peer found; `find[n]` is the FindPeers call with the channel it fills. Time
  is counted in poll intervals. `Close` removes the handler and lets the loop end
  at its next select; a call between running nodes may fail while `MaxFaults`
  lasts.
* **DataFiles.** A process is a record with its position: `config`, `identity`,
  `open` and `write` (the two halves of os.WriteFile), `openStore` and `migrate`
  (storage.Open), `metadata`, `renamed`, `running`. `why` says who called Save. A
  file is absent, whole or bad; a configuration may also be `misleading`, refused by
  Validate with an error that quotes "no such file" from it, which LoadOrCreate takes
  for a missing file. A file has the size that was written last, so that
  two writers can leave the tail of the longer text. `broken`, `contended` and
  `rivals` are history: files hit by a fault, files two processes were busy with at once,
  directories for which two processes created an identity at once.
* **GroupDedup.** `RouteGroupMessage` is the first critical section, `ViewMembers`
  the second, `Deliver` the callback per member. `forgotten` remembers what
  pruning or DeleteGroup dropped.

## 3. Runs

Each run is bounded by the constants of its cfg; the bounds are named in the
modules' CONSTANTS.

| Run | Shows | Instance |
|---|---|---|
| `GroupService_calls` | `RowsHaveGroups`, `RowsHavePeers`: the tables never refer to a group or peer that is not there. `Coherent`: an untouched, idle group is the same in memory and tables. `HistoryKept`: a membership row goes only with its group. `ImplementsDirectory`: the service refines `GroupDirectory`. | two callers, two groups, two peers, failing statements, restarts, a group created by another process |
| `ChatUi` | `OpenIffSubscribed`: no channel is open that nobody would close, and none is closed that is written to. `ViewIsOpenConversation`: late events do not get into the wrong view. `NothingOverlooked`: a message stored in the open conversation whose event met a listener is shown or on its way, wherever loading, events and keys fall. `SendersAreListed`: whoever wrote, also in an unknown group, and is in the peers table, is listed or about to be. `TextStaysInConversation`: a text is sent where it was typed, or dropped. `CursorInList`: the cursor is in its list, although lists are replaced under it. | one peer, one group and an unknown one, two messages or changes of the peers, one failed statement or row elsewhere, a text, three channels for a cap of two, buffer two; 3.6 million states |
| `ChatUi_listen` | **violated**: `KeepsListening` | one conversation, cap of two |
| `MessageFlow` | `NoPhantom`: an inbound row is the copy of an outbound row that outlives its sender's crash. `InboundIsListed`, `AnnouncedIsStored`: upsert, insert and event come in this order and none is skipped. These three hold as long as no SQL statement fails (the code logs such a failure and goes on); the others hold with failures too. `StatusTellsTheTruth`, `RowsAreFinal`: sent means written to a stream, and a final status stays. `PendingResolves`: a pending row ends as sent or failed unless a fault hit it. | two nodes, direct and group messages, one fault, one crash |
| `History` | `PageIsOfConversation`: a page has rows of its conversation only, each once. `NeverEmpty`: a conversation with rows under either name of the user is not shown empty. `SameWidthInOrder`: pages are chronological among timestamps of one width. | every table of three rows over four times (each width of the format), any sender, any recipient or none, a peer, a group, two local names |
| `Discovery` | `TracksDiscovered`: with no event dropped, the manager has entries exactly for the discovered peers once the events are handled. `ConnectingHasDial`, `ConnectingEnds`: no peer is stuck in "connecting". | the local peer, an invalid one, a valid one, three dials at once, three buffered events |
| `Bootstrap` | `DelayIsExponential` against a closed form. `EndsForAReason`: the loop ends when told, or when as many rounds as allowed have failed in a row, none more and none fewer. `Maintains`: without a limit of retries a peer that stays reachable is connected again. `StopsWhenTold` | two peers, retry limits none and two |
| `TcpServer` | `RoutesAreServed`: the route under the ID that a connection has goes with the connection. `RoutesAreKept`: the connection that registered last under an ID keeps the route until it is removed. `ShutdownReturns` | two connections, two IDs, each joined at any time and again, limit two, queue one, two messages; 1.2 million states |
| `TcpServer_panic` | **violated**: `NoPanic` | two connections |
| `Dht` | `ForgetsTheGone`: a stopped node is offered by nobody once a record lifetime is over. `FoundOnce`: a search yields a peer once and never the searcher. `ConvergesInTime`: nodes that share a neighbour are connected in the third round after the last fault, if the limit of a search does not cut it short and records live that long (`SmallRendezvous`). | a star of three, one node stops or closes or one call fails in the first of four intervals |
| `DataFiles` | `KeyIsKept`: a directory never gets a second key, unless two processes created the first one at once. `ReadableAtRest`: an identity file that nobody is saving can be decoded, unless a save ended half-way or met another. `EditsKept`: the configuration that the user wrote or asked for stays, or, if its own error says "no such file", is replaced by the defaults as a whole. `MetadataFollows`: the row has the name that the file has. | two processes, three starts (TUI, set-name, config init, SKALL_DATA_DIR or not), two directories, two names of different length, one edit (usable, not usable, or misleading), one fault; 5.1 million states |
| `GroupDedup` | `SeenBounded`: the table is bounded. `DeliveredOnce`: a member gets a message once, unless its ID was dropped. | two goroutines, one group, three IDs for a cap of two, two members |

Why the bounds are enough for what they ask: every limit in the code (subscribers,
buffers, connections, queue, events, retries, page size, search limit) is set
so low that it is reached; every race needs two actors, and there are at least
two; a third node is there where a property needs it (an answer repeated by
another neighbour). The limit of connections is the one that is not reached: it
would take a third connection, and the theorem `ClientsAlwaysBounded` covers it. Numbers of
messages bound the depth, not the kind of steps: the passing runs take every
action of their modules.

Symmetry is used only in runs of invariants and step properties, and only over identities that no
definition tells apart (processes, message IDs, the leaves of the star). New channels
of `ChatUi` are taken in a fixed order instead (`FreshChan`).
`CHECK_DEADLOCK FALSE` stands where a program may really come to rest: the user
has quit, the server has shut down, the table is full, the loop has ended.

### Fairness

* `MessageFlow`: a send or a handler under way goes on (a goroutine that can
  run does run; libp2p calls have timeouts). Nothing makes a user send or a node
  restart.
* `Discovery`: a dial ends, as DialContext has a timeout of five seconds, and its
  result is written.
* `Bootstrap`: the loop's timer, sleep and dials end. A Go select chooses among
  ready cases at random, so the case of a cancelled context is strongly fair. The
  network is under no obligation.
* `TcpServer`: while some goroutine can run, one does; readers have a deadline of
  thirty seconds. This is weaker than fairness for each goroutine and is enough
  because connections and messages are finite.

`Dht` has no liveness property: `ConvergesInTime` bounds the time instead. Its
clock does not advance while a round that began an interval ago is unfinished
(`MaxDelay`): RPCs have timeouts of four and five seconds and a search of ten,
well below the interval of thirty. A dial to a found peer that is down can take
longer, which the instance with `MaxDelay = 0` does not show and the theorem
covers: the bound grows by five delays. Records must outlive those rounds
(`RecordTTL >= 1 + 5 * MaxDelay`; in the code thirty intervals, so delays of up to
five), and a search must not be cut short (at most `Limit + 1` nodes; twenty-one in
the code). One round without faults is not enough: each of two nodes may ask before
the advertisement of the other has arrived. The property says what happens when
rounds end in time, not that they do.

## 4. What is proved

TLAPS proves the following for every value of the constants that satisfies the
assumptions of section 4.2: any number of nodes, processes, connections and
messages, any limit, any number of faults.

| Module | Theorems | That is |
|---|---|---|
| `GroupServiceProofs` | `TypeCorrect`, `StoreIntegrity`, `RowsAlwaysHavePeers`, `HistoryIsKept`, `CoherentAlways`, `Refinement` | `RowsHaveGroups`, `RowsHavePeers`, `HistoryKept`, `Coherent`, `ImplementsDirectory`: the service implements `GroupDirectory` |
| `ChatUiProofs` | `BusTypeCorrect`, `BusSafe`, `UiBusSafe`, `TextAlwaysStays`, `ViewAlwaysOfOpenConversation`, `NothingIsOverlooked`, `SendersAlwaysListed`, `CursorStaysInList` | `OpenIffSubscribed`, the cap and the buffers of the bus by itself and in the composition with the UI; `TextStaysInConversation`, `ViewIsOpenConversation`, `NothingOverlooked`, `SendersAreListed`, `CursorInList` |
| `MessageFlowProofs` | `NeverPhantom`, `AlwaysListed`, `AlwaysStored`, `AlwaysTrue`, `AlwaysFinal` | `NoPhantom`, `InboundIsListed`, `AnnouncedIsStored`, `StatusTellsTheTruth`, `RowsAreFinal` |
| `MessageFlowProofs`, on `History` | `PagesOfConversation`, `ConversationsNeverEmpty`, `SameWidthAlwaysInOrder` | `PageIsOfConversation`, `NeverEmpty`, `SameWidthInOrder` |
| `DiscoveryProofs` | `AlwaysHasDial`, `DrivenHasDial`, `AlwaysTracks` | `ConnectingHasDial` of the manager by itself and under discovery; `TracksDiscovered` |
| `DiscoveryProofs`, on `Bootstrap` | `DelaysAreExponential`, `LoopEndsForAReason` | `DelayIsExponential`, `EndsForAReason` |
| `TcpServerProofs` | `ServerTypes`, `AlwaysServed`, `AlwaysKept`, `ClientsAlwaysBounded` | `RoutesAreServed`, `RoutesAreKept`, and that maxConnections holds |
| `DhtProofs` | `AlwaysForgets`, `AlwaysFoundOnce`, `AlwaysConvergesInTime` | `ForgetsTheGone`, `FoundOnce`, `ConvergesInTime` |
| `DataFilesProofs` | `KeyAlwaysKept`, `AlwaysReadable`, `EditsAlwaysKept`, `MetadataAlwaysFollows` | `KeyIsKept`, `ReadableAtRest`, `EditsKept`, `MetadataFollows` |
| `GroupDedupProofs` | `SeenAlwaysBounded`, `AlwaysOnce` | `SeenBounded`, `DeliveredOnce` |

### 4.1 The arguments

* **Groups.** `Coherent` speaks of idle groups only, and is not inductive: while a
  call is between its step on memory and its last statement the two sides differ.
  `HalfDone` says how they differ for each position of the call (a group in memory
  and not yet in the table, a member added and its row not yet active, and so on),
  `GroupInv(g)` that an untainted group has at most one call at work on it and is
  then half done, otherwise equal. With `TypeInv` and `StoreInv` (what the tables
  guarantee by themselves, for tainted groups as well) this is the inductive
  invariant `IInv`. An action on one group leaves the invariant of another alone
  by `BeginElsewhere` and its like. `Refinement` maps each statement that commits
  to the abstract operation and everything else to a stutter.
* **Bus and UI.** `closed` contains no subscribed channel and every channel made is
  in one of the two; each operation moves a channel from one side to the other.
  `UiBusSafe` shows first that every step of the UI, the service and the user is
  a step of the bus or leaves it alone, so that the invariant of the bus carries
  over. For the input line: an empty line needs no conversation, opening another
  one clears the line, and a request takes conversation and text at the moment of
  enter; a new text gets a number that no request has.
* **Lists and view.** `ListInv`: a list shows what the service would answer now or
  less, because the table of peers only grows, and what is open came from a list;
  so no list shrinks under the cursor. `StoreInv`: what is announced has been taken
  up, whether its statements failed or not, and a sender whose peer row was written
  is known, so that a page loaded while an event is on its way contains its message
  if the message has a row there. `ListenInv`: the UI waits on
  one channel or handles one event, never both, so that an event is in the channel,
  in `updates`, handled, or counted in `missed`. `NothingOverlooked` and
  `SendersAreListed` are preserved given these three and the invariant of the bus.
* **Messages.** `RowOK` relates the row of a receiver to the one of the creator,
  which needs the same of everything on the way: `Carried` of the streams,
  `HandlingOK` of the handlers and `SendOK` of the calls, which also says what
  `written` has for each position of the call - that is why "sent" and "failed"
  are true when the update comes two steps later, or never. The parts that need
  working statements are conditional on `faults = 0`; the others are not.
  `AlwaysFinal` is an action property: it follows from `SendOK`, by which a call
  updates only a row that is pending.
* **History.** The work is in the order, not in the table (`HistoryInv`: one row per
  ID). `TextOrder` and `TextTotal`: the order of
  texts is strict, and total on texts none of which begins another; times differ
  in their texts, so `RowOrder` has a strict total order of rows. Then ranks are
  distinct (`RankGrows`) and, the set being finite, every place has exactly one row
  (`RowAtPlace`), which is what a page is made of. `SameWidthLess` compares the
  digits of two texts of one width with the times.
* **Connections and discovery.** `ConnectingHasDial` is inductive with its type:
  Connect is the only step that makes an entry "connecting" and it starts an
  attempt that owns the entry; an attempt that ends, its own or a stranger's, takes
  the entry out of "connecting". `TracksDiscovered` speaks of the last event of a
  peer in the channel: `SendDecides` and `TakeDecides` say how sending at the back
  and taking at the front change which event that is, and with them each step of
  the scanner and the connector changes both sides alike.
* **Backoff.** `BackoffInv` has the delay as the capped power of the number of
  attempts; the step is `CappedProduct`: capping the product of a capped value
  gives what capping at the end gives. `EndsForAReason` counts failed rounds and
  the loop counts attempts; `CountsRounds` says that the two agree wherever the loop
  decides, and that between a dial that succeeded and the Reset at the end of its
  round it is `reconnected` that remembers to reset.
* **TCP server.** A connection may have been registered under several IDs, and
  removeClient looks at the last one. `RoutesAreServed` is inductive because it speaks of
  that one: registerPeer enters the connection under the ID it has, by its own
  reader, and the reader's end takes this entry away. `RoutesAreKept` needs that a
  removal under way ends with the connection closed (`GoesOn`): between the two halves
  of removeClient the route is gone and the connection still open. `Prepared` says
  that a connection Serve has not spawned yet has no goroutines, and that a reader
  in the middle of a delivery or a registration has its recipient or its ID.
  The bound on clients is not
  inductive because count and insertion are two critical sections; `CountHolds` adds
  that between the two there is room, as only Serve adds clients.
* **DHT.** A record at any node expires at most a lifetime after the last time it
  can have been stored (`LastStored`): now, while its peer runs, and `MaxDelay` after
  the peer stopped. An advertisement that is late would break this, so `TimeInv`
  bounds the age of advertisements too, and `Tick` is the step that needs it. For
  searches, `FindOK` says that what is or was in the channel is marked as seen, and
  the searcher too before any goroutine merges; `MergeOK` is the step that counts.
  `ConvergesInTime` bounds progress, so its invariant says for every node how far it
  has come. `NotYet(n, t)` is "n has begun no round since t" with the time that this
  can last (two delays: the rest of the old round, then the tick that waits).
  `Remembered(p, q)`: after the faults, p has begun no round yet, or its advertisement
  is on its way to q, or q has a record that outlives the argument. One round and
  its messages later, at `Second`, only the last is left (`AllStored`). From there
  `Meets(n)`: n has begun no round yet, or its search `Yields` every peer it is not
  connected to (it is in the channel, or was not seen and a neighbour that knows it
  has still to answer), or n is connected to all. Nodes that serve now always did
  (`ServedBefore`), so connections are not lost and no call fails for want of one.
* **Files.** Two histories excuse a file: without a fault (`broken`) and without
  an overlap (`contended`), `AloneInv` has at most one process busy with a file, and
  `DirOK` says for each position of it what file, memory and row have in common.
  `ConfigInv` says that nobody is about to create a default over a configuration
  that the user wants, unless there is nothing usable in it (`NothingUsable`: its error
  says "no such file"), and that then the defaults replace it whole; `KeyInv` that whoever holds or is about to write an
  identity has the first key of the directory, or is recorded as a rival.
* **Duplicates.** `SeenBounded` rests on arithmetic: half of one ID too many is at least
  one. `DeliveredOnce` counts deliveries; `OnceInv` adds that of an ID that was not
  dropped at most one call is in progress, and that whoever is still on its list has
  got nothing.

### 4.2 The assumptions

Each is an ASSUME of the module that declares the constants and is evaluated
by TLC in the run of that module. Limits, bounds and lengths are natural
numbers, and not zero where the code has a positive constant (`SubscriberBuf`,
`MaxSeen`, `EventsBuf`, `RecordTTL`). "No value" (`None`, `NoDir`, `NoGroup`, `NoName`) is not one
of the values; in `DataFiles` no directory is the string that names the
configuration file, and in `TcpServer` no connection is one of the strings for a
position of Serve. `Members` of `MessageFlow` are names of nodes; `Messages` and `OtherEvents` of `ChatUi`
are events of the bus, and an unknown group is none of the known conversations.
In `Sidebar` peers and groups are finite and `SortKey` gives no two entries the same
place. `PowerAssumption` of `Backoff` says
what `^` means for the factor and the exponents that occur, as the prover does not
know it.

### 4.3 Only model-checked

* Liveness (`PendingResolves`, `ConnectingEnds`, `Maintains`, `StopsWhenTold`,
  `ShutdownReturns`): fairness and ENABLED are out of the prover's reach.

All other properties of the passing runs are theorems. What the model takes from
library operators is proved from what they contain: where the code sorts or
selects, the models use sets and ranks instead of recursive sequences, which no
prover here can reason about by induction.

## 5. Mutants

Beside the definitions that model the code stand variants with a plausible
mistake (`CloseTwice`, `RemoveKeepsRoute`, `FinishSendForgetsFailure`, ...).
No run uses them. `PROJECT.json` pairs each property of a passing run with one
variant which, put in place of the original, makes TLC find the property
violated.

## 6. Where code and text disagree

* **The listener** (`ChatUi_listen`). `ui/app.go:164`: "keep listening". Every
  event subscribes again and nothing unsubscribes. At the cap, Subscribe returns
  a closed channel and the UI hears nothing more.
* **Send on a closed channel** (`TcpServer_panic`). `tcp_security_test.go:11`:
  the server "does not panic or deadlock". enqueue tests the flag and then sends;
  close may come between.

Remarks from reading and modelling, without a run of their own:

* `chat/service.go:11`: "All methods are safe to call concurrently." JoinGroup and
  LeaveGroup of one peer may change memory in one order and the table in the
  other; memory and table then differ after both have returned, and a restart
  changes who is a member. `Coherent` excuses such groups (`tainted`).
* `chat/service.go:32` "fetches the last `limit` messages": the query is
  ascending and returns the oldest (`store.go:650`); the preview of a conversation
  is for the same reason the oldest message, where `types.go:24` says most recent.
  `Page` models the query as it is, and no property claims either.
* GetMessages asks under the SKALL ID only when there is nothing under the libp2p
  ID (`p2p_service.go:218`): where a conversation has rows under both, those under
  the SKALL ID are never shown. A row without recipient and group, which the TCP
  client writes for what it sends to everyone, is in no conversation.
* `store_test.go:512` asks for chronological order; text without trailing zeros
  sorts "…05.12Z" before "…05.1Z" and "…05.1Z" before "…05Z".
* `p2p_service.go:433` makes the authenticated peer the sender; the row stored at
  line 456 keeps the sender that the message names. The two differ when a message
  claims another sender or recipient: the message is shown while its conversation
  is open and is missing, or in another conversation, after a reload.
* A failed insert is logged and the message published or sent all the same
  (`p2p_service.go:239`, `:273`, `:456`): what the user saw is gone when the
  conversation is opened again. `NothingOverlooked` is about stored messages.
* A message for a group that the process does not know is stored and announced
  (`p2p_service.go:461`); nothing lists the group. A sender whose upsert failed
  (`:453`) is not listed either, until a later upsert.
* An event published between two subscriptions of the listener is not seen, and
  a second event in a listener's channel is never read (`ui/app.go:307`): for the
  first peer, monitorPeers publishes a status and then a change of the peers, and
  the second is usually the one that is lost. `missed` is what
  `NothingOverlooked` and `SendersAreListed` leave out for this reason.
* A message stored before its conversation is opened and announced after it is
  shown twice (`chatview.go:174`).
* The sidebar never gets MsgConversationsUpdated (`sidebar.go:62`), so
  clampCursor does not run; `CursorInList` holds because no list shrinks. An entry
  inserted above the cursor moves the cursor to another one.
* h and l switch the focus also while a text is typed (`app.go:195`), so these
  letters cannot be typed.
* A configuration that cannot be decoded sends a process to the default
  directory (`main.go:41`), where it may create another identity; a first start
  with SKALL_DATA_DIR set writes that directory into the new configuration
  (`config.go:184`).
* `config.go:177` recognises a missing configuration by the words "no such file" in the
  error. Validate quotes the user's values in its errors (lines 208 and 223): a
  configuration with a refused value that contains these words is overwritten with
  the defaults. `EditsKept` names this exception.
* A display name set by `identity set-name` is undone by the next start when the
  configuration has one (`main.go:442`).
* Two processes that open a new database at once: applyMigrations reads the
  version outside its transaction (`store.go:254`), and the second start fails.
* monitorPeers compares the number of peers (`p2p_service.go:516`): one leaving
  and another joining within two seconds is not announced.
* The limit of FindPeers is applied to local records only (`dht.go:315`).
* `connector.go:11` calls Connect a no-op while connecting; after Disconnect and
  Connect the result of the first attempt may end up in the entry of the second
  (`manager.go:123`), and a third Connect then dials again.
* `backoff.go:18` calls MaxInterval the upper bound; jitter is added after the cap.
* `bootstrap.go:22` "continuously maintains": with a retry limit, as in the
  default configuration, the loop ends for good after that many failed rounds.
* A connection that joins a second time under another ID leaves its first entry in
  `peers` for ever (`tcp.go:165` looks at the last ID): the entry leads to the closed
  connection, and every message to that ID fails in enqueue, until somebody joins
  under it again. `RoutesAreServed` leaves out IDs given up in this way.
* `client.go:77` writes c.peerID without the lock under which removeClient reads it,
  possibly on another goroutine: a data race, which the model takes as atomic.
* A connection accepted while Shutdown copies the client map is served after it
  (`tcp.go:115`).
* `group_security_test.go:115` expects the most recent ID to be a duplicate after
  pruning; pruneSeen deletes in map order (`group.go:361`), possibly that one.
* SendGroupMessage reads the member map after unlocking (`group.go:263`).

## 7. Abstractions worth knowing

* Names, bodies and times of groups and messages are left out except where a
  property reads them (History keeps times).
* `MessageFlow` assumes that two messages are not made in the same nanosecond, as
  message IDs come from the clock.
* `Dht` has one namespace and no routing table, which the program writes and
  never uses.
* `DataFiles` keeps of a configuration the data directory and the display name,
  of an identity the key and the name. SKALL_CONFIG_PATH, SKALL_IDENTITY_PATH and
  SKALL_DB_PATH are not set. A process is not killed while it runs, when it has
  nothing to lose.
* `TcpServer` keeps of a queued message only that it is there.
* `Dht` reads the neighbours of a round once, where Advertise, getLocalProviders and
  FindPeers each ask for them; no link breaks while both nodes run. The loop's
  parentCtx is the program's, so `Stop` stands for its end. In the run `MaxDelay` is 0.
* `Backoff` has the jitter in the delay that is slept, and no property about it.
* `ChatUi` leaves out the help screen (a user who presses no key), scrolling and
  the status bar. The groups do not change while the UI runs, as it has no
  command for that. Its GetMessages looks under one name of the user; the second
  one is in `History`.
* Several properties leave out what a history variable records (`missed`, `tainted`,
  `broken`, `contended`, `rivals`, `forgotten`, a dropped event, a failed statement).
  In those cases the code does lose or mix up what the variable names, as section 6
  says; the properties show that it happens in no other case.
* `Maintains` says something only for a configuration without a retry limit; the
  program uses five (`main.go:699`).
* `GroupDedup`: the members are served in any order and the connected ones are
  any subset, as the caller passes them in.

## 8. Not modelled

* Rendering, styles, help, version: text and layout.
* Argument parsing, addresses, building the libp2p host: no state of their own.
* Wire framing: a codec over an ordered byte stream, without state between frames.
  What could go wrong with it is about bytes and sizes, which every model here
  abstracts from.
* TCP client (`StartClient`): a legacy mode. It stores, sends and updates the
  status like SendDirect in `MessageFlow`; the map it keeps is written by its
  reader and printed on demand.
* `skall p2p`, `connect`, `peers` and the other commands that only print or keep
  nothing; RenameGroup; mDNS Announce and Close; corruption of the database.

## 9. Plan

Done: the modules above, in the order groups, bus and UI, messages, history,
dialing and discovery, backoff and bootstrap, TCP server, DHT, files, duplicate
suppression.

Proved: every invariant and step property of the passing runs, and the refinement
of `GroupDirectory` (section 4). Left to TLC: liveness.

What could follow:

1. RenameGroup with the names of groups, and the routing table of the DHT should the
   program come to use it.
2. The status of the service (`monitorPeers` with the number of peers), so that the
   change it does not announce becomes a property.
3. The legacy TCP client, if it is kept.
