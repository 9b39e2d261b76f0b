# Pando: TLA+ models, checks and proofs

Pando is an end-to-end encrypted terminal chat written in Go. Clients exchange
encrypted envelopes through a self-hosted relay, which delivers them live to
subscribed devices and queues them for the others. This directory models the
relay, the clients' connection, message, contact, room, device and storage logic
and the voice recorder: the parts whose correctness depends on interleavings,
failures, time and limits. TLC checks small instances; TLAPS proves the main
safety results, and one refinement, for every instance.

## 1. The system

### Components, their state and operations

| Component (under `internal/`) | State | Operations | What makes it correct |
|---|---|---|---|
| Relay websocket service: `relay/server.go`, `websocket.go` | per connection `mailbox`, `challenge`; the registry `Server.mailboxes` under `Server.mu` | `handleSubscribe` (verify, unregister, register, drain, ack, backlog), `handlePublish` (limits, stamp, snapshot, enqueue or fan-out, ack), `close` | no acked envelope disappears, none is delivered twice to a connection, none reaches a session that was not accepted for its mailbox; the registry holds live sessions only |
| Queue stores: `relay/bolt_store.go`, `memory_store.go`, `store_helpers.go` | one queue per mailbox | `Enqueue`, `Drain`, purge of expired envelopes | limits hold, order is kept, what is drained is not stored any more |
| Directory and mailbox claims: `relay/directory.go`, `store_helpers.go` (`mailboxOwnerSync`), both stores | directory entries, accounts by mailbox, claims by mailbox | `PutDirectoryEntry`, `LookupMailboxAccount`, `GetDirectoryEntry`, `AuthorizeMailbox` | one owner per mailbox; owner and claim mirror the entries; nobody takes a mailbox over |
| Rendezvous slots: `relay/http_handlers.go`, both stores | payloads of a slot | PUT (check, then store), GET, DELETE | live payloads stay; a slot takes two |
| Rendezvous exchange: `rendezvous/exchange.go`, `crypto.go` | one running `Exchange` | PUT, poll, wait, give up | two sides that keep polling both find each other |
| Rate limiter: `relay/limits.go` | counters by key and window | `allowRateLimit` | at most the limit per window |
| Websocket client: `transport/ws/client.go` | `conn`, `closed`, event channel | `Connect`, `Send`, `Disconnect`, `Close`, read loops | one reader per connection, one disconnect event |
| Relay HTTP client, short-lived publisher: `relayapi/` | none | HTTP calls, `PublishEnvelopes` | every envelope is acked or an error is returned |
| Messaging: `messaging/incoming.go`, `outgoing.go`, `content_handlers.go` | seen set, contacts, history through the store | `HandleIncoming`, outgoing batches, delivery acks | at-most-once processing; delivered means taken, that is marked seen by the recipient |
| Attachment assembler: `messaging/incoming_attachments.go` | pending transfers | accept a chunk, expire | a file is assembled once, complete, within the limits |
| Contact requests and imports: `messaging/contact_requests.go`, `contact_imports.go` | request records, contacts | request, accept, reject, import | both sides agree; accepted means imported; trust never drops silently |
| Default room: `messaging/room_*.go` | members, history | join, merge, sync | the merge converges |
| Identity, enrollment: `identity/` | account, devices, pending enrollment | approve, complete, revoke | approvals and revocations leave every identity valid; nobody lists a device that did not found or join the account |
| Client store, passphrase: `store/client.go`, `protected_files.go`, `passphrase/` | encrypted files | load, save, migrate, change passphrase | files open under one passphrase |
| Message history, sweeper: `store/history.go`, `sweeper.go` | history file | append, mark, expire | no message is lost to a concurrent rewrite |
| Chat UI: `ui/chat/` | connection and message state | connect, reconnect, idle disconnect, send status | a lost connection is noticed; every send is answered; idle stays idle |
| Voice: `ui/audio/` | recorder process | start, stop, cancel | no process runs that Stop, Cancel and Close do not reach |
| CLI, configuration, presentation | - | sequential | out of scope |

`PROJECT.json` lists every component with its files and its status.

### How they interact

A client opens a websocket, gets a challenge and answers it with a signed
subscribe request. The relay looks the mailbox up in the directory, checks the
device key against the account's entry and claims the mailbox (three store
transactions), registers the session (under `Server.mu`), drains the store (one
transaction), then writes the ack and the backlog. A publisher's handler takes a
snapshot of the subscribers under `Server.mu`; after the unlock it writes to each
or enqueues. Sessions share the registry, the store and each other's connections:
a publisher's goroutine writes to its subscribers' connections itself. Bundles are
exchanged over plain HTTP through a rendezvous slot that both sides poll.

### Which behaviours are hard

- Publish against subscribe: the subscriber snapshot, the registration, the
  drain and the enqueue are separate critical sections.
- Failure inside a handler: a failing `Drain`, a full or failing `Enqueue`, a
  write to a dead or stalled connection (logged, otherwise ignored), a restart
  between drain and write.
- Check, then act: the PUT handler of a rendezvous slot; the ownership check
  before `AuthorizeMailbox`; `Recorder.Start`, which starts its process after the
  lock section that looked for one.
- Aliasing: the in-memory queue filters its slice in place and may return
  before it stores the shorter one.
- Goroutines that outlive their purpose: read loops that take `c.conn` anew for
  each message, waits for events that pile up, results of recorder calls that
  arrive late.
- Files without locks: contacts, requests, history and identity are read whole,
  changed and written back by the window's goroutine, its commands, the sweeper
  and `pandoctl`; `os.WriteFile` truncates before it writes.
- Marks before deeds: an envelope is marked seen before it is handled, acked
  before it is saved; a request is published before it is saved.
- Lists that travel: member lists and device lists are copied between accounts
  and machines in any order, several times or not at all.

The hazards in `PROJECT.json` give each of these its line and the properties that
would catch it; those without a property say why.

## 2. Modules

| Module | Models | Extends |
|---|---|---|
| `RelayServer` | sessions, registry, publish and subscribe handlers, queue store, connections, restarts | - |
| `RelayCustody` | abstract: who is responsible for each envelope, and who has received it | - |
| `RelayDirectory` | publications and the three transactions of a subscribe request | - |
| `Rendezvous` | `Exchange` and the slot handlers, composed over one slot | `Filtering` |
| `MemoryQueue` | one mailbox of `MemoryQueueStore`, slice by slice | `Filtering` |
| `WsClient` | the websocket clients of a window, per goroutine and lock section | - |
| `ChatConnection` | the window's connection logic, composed with its clients | `WsClient` |
| `Delivery` | texts and files from one account to another: sending, relay, seen marks, assembler, acks, history files, sweepers | `Filtering` |
| `ContactRequests` | asking, answering, importing and verifying over two unlocked files | - |
| `Rooms` | joins, member lists, room messages, history requests | - |
| `ProtectedStore` | the three encrypted files: unlock, migration, passphrase change, every writer, crashes | - |
| `Enrollment` | enroll, approve, complete, revoke, compact; the list a contact keeps | - |
| `Recorder`, `Player` | the voice recorder and the player | - |
| `VoiceNotes` | the window's commands and result handlers, composed with both | `Recorder`, `Player` |
| `MC...` | constant values and symmetry for TLC | the module named |
| `Filtering` | the loop that drops what has expired, from the relay's stores and from a history | - |
| `...Proofs` | theorems and proofs; `RelayStoreProofs` extends `RelayDirectory`, `MemoryQueue` and `Rendezvous`, and `ChatWindowProofs` extends `VoiceNotes` and `ChatConnection`, whose names are therefore distinct (`QueueInit`, `SlotInit`, `WindowInit`) | the module named, `TLAPS` |

`RelayServer` refines `RelayCustody` by the mapping at its end: `StageOf` computes
the stage of an envelope from the queues, backlogs and hands. `Delivery` stands on
that promise: its network hands an envelope over in any order, perhaps late,
perhaps again, perhaps never.

Definitions called mutants in their comments are plausible mistakes in the
definition named. No specification uses them; `PROJECT.json` names for each property
a mutant that must violate it. Variables called history variables record what
happened and guard nothing but the bounds.

### RelayServer

An action is one critical section, one store transaction or one write to a
connection; `pc[s]` says where the goroutine of connection `s` is.

| Code | Model |
|---|---|
| `sess.mailbox`, `sess.challenge` | `mailbox[s]`, `challenge[s]` (expiry, 0 for nil) |
| `Server.mailboxes[m].subs` | `subs[m]` |
| stored queue of a mailbox | `queue[m]`, a set, with the append position `pos[e]` |
| local variables of the handlers | `hand[s]`, `targets[s]`, `backlog[s]` |
| `handleWebSocket`, start of `run` | `Open` |
| `ReadJSON` fails, deferred `close` | `Close` |
| `handleSubscribe` | `SubscribeReject`, or `SubscribeAccept`, `Register`, `Drain` or `DrainFails`, `SubscribeAck`, `SendBacklog` |
| `handlePublish`, `publish` | `RefusePublish`, or `Publish`, then `Enqueue` or `EnqueueFails`, or `Fanout` per subscriber; `PublishAck` |
| process ends and starts again | `Restart` |
| clients, network, clock | `Open`, `Drop`, `Stall`, `Tick` |

`sent`, `grants`, `outcome` and `lost` record what happened and guard nothing but
the bounds.

Abstractions:

- An envelope is an element of `Envelope`: `uuid.NewString` gives each a fresh ID,
  so each is published at most once.
- The clock value `handlePublish` and `handleSubscribe` read is taken in the same
  step as the critical section that follows it. The instances that depend on time
  are small enough that the difference is one tick; the reordering it allows in
  the in-memory queue is modelled in `MemoryQueue`, where `Stamp` is a step of
  its own.
- A rate-limited subscribe request changes no state and is a stuttering step.
  `verifySubscribeRequest` is one verdict; `RelayDirectory` has what it reads.
- `Stall` is a client that stops reading: a write misses the 10 second deadline of
  `send` and gorilla/websocket fails every later write, while reads go on.
- Requests still buffered behind a connection that has been closed are not
  distinguished from requests never sent.
- `NewServer` replaces limits that are zero or less by defaults, so the branches
  of `validateQueueLimits` for "no limit" are unreachable and left out.
- Store errors exist for bbolt (`StoreMayFail`) and leave the store unchanged,
  because a failed transaction is rolled back.

### RelayDirectory

`directory`, `accounts` and `claims` are the three buckets of the store. A
publication is one transaction (`PutDirectoryEntry`, with the check of
`mailboxOwnerSync.sync`, its deletions and its writes). A subscribe request goes
through `Subscribe`, `LookupAccount`, `LoadEntry`, `AuthorizeMailbox`, `Return`.
An entry is its account, the account's signing key and the map that
`activeDirectoryDevices` computes; signatures and proofs are valid, as the
handlers turn others away before they reach the store.

### Rendezvous

An element of `Party` is one call of `Exchange`. `Start` encrypts and sends the
PUT; `CheckSlot` and `StorePayload` are the two store calls of the PUT handler;
`Poll` is the GET and `Exchange`'s loop over its result; `PollAgain`, `GiveUp` and
`RequestFails` are the ticker, the context and an error. `EmptySlot` is a DELETE
(which no client in the repository sends) or the restart of a relay without a
bbolt store. Slots share nothing, so one is enough.

### MemoryQueue

`stored` is what the slice in the map shows. `Live` is what `filterExpired` keeps
(`Filtering` states the loop by the rank of each kept place, without recursion),
`Compacted` what an unshortened slice shows after it. `EnqueueFull` stores
`Compacted`: the code returns `ErrQueueFull` before it assigns the shorter slice.

### WsClient and ChatConnection

`go` is a bag of goroutines, each a record of its kind (`connect`, `send`, `wait`,
`loop`, `idle`), client, place, connection and outcome; a lock section of
`transport/ws/client.go` is one step.

| Code | Model |
|---|---|
| `Connect` | `Dial` or `DialFails`, `ReadChallenge`, `WriteSubscribe`, `ReadSubscribeAck` or `HandshakeFails`; the relay may `Refuse` |
| `readLoop`, `sendEvent` | `LoopTop`, `LoopReads`, `LoopFails`, `SendEvent` |
| `Disconnect` | `Disconnect` |
| `waitForEvent`, `Update` | `TakeEvent`, `HandleEvent`, `HandleConnectResult`, `HandleSendResult` |
| `sendCmd`, `Client.Send` | `UserSends`, `StartSend`, `SendWrites` |
| idle timeout, `switchRelay` | `IdleTimeout`, `SwitchRelay` |
| network, relay | `Cut`, `Refuse`, `DialFails` |

The relay acks publications and subscriptions alike (`websocket.go:134`, `174`), so there
is one word `"ack"`: `readSubscribeAck` takes any for its own, and one that a read loop
of an earlier connect reads marks a connecting window connected.

`LossIsNoticed` says that a window that shows itself connected does not overlook the loss
of its connection: of the read loops that overlap after reconnects one reports it, and
a wait is there to take the report. It excepts a loss while a goroutine is about to
take the connection away itself. Two do so without an event: a `Disconnect` decided
while idle that runs after a send has reconnected (`client.go:146`), and a send whose own
`Connect` fails under a window that was connected meanwhile (`client.go:83`; it takes two
faults, one more than the run has). Both leave a window shown as connected with no
connection and no read loop until the idle timeout; sends fail meanwhile.
`EarsCorrect` proves what it rests on: the ears of a client are the goroutines that
wait for its events or for a connect of it, and the last one goes only when the window
stops, nor are there ever more than two. `IdleUntilSent` sets a second send aside: of
two that dial at once, one may break the connection of the other, and the window then
connects again by itself.

Two bounds stand for durations and are named where they are used: the backoff
before a reconnect outlasts what runs without blocking (`Dials`), and so does the
idle timeout (`IdleTimeout`).

### Delivery

Account A sends, B receives. `send[m]` is the goroutine of `sendCmd`; `job[s]` what the
Update goroutine of a side is in the middle of; `sweep[s]` its sweeper. Rewriting a
history file is three steps: read, truncate, fill. `Compose`, `SendPart`, `SendFails`,
`HandleSendResult`, `HandleSendError` are A; `Receive` (the seen mark first), `Refuse`,
`HandleText`, `HandleChunk`, `HandleAck` are the incoming side; `SweepRead`,
`SweepTruncate`, `SweepFill` the sweeper; `Lose`, `Quiet`, `Expire`, `Crash` the
environment. A file that cannot be read is the sequence `Torn`, of a record that no
message has: hence the assumption that `"unreadable"` is not a message. `excused`
collects the messages that a reported failure, or the sweeper's lost update, struck.

### ContactRequests

A job of a goroutine or of `pandoctl` is the sequence of file and network steps
that `Script` lists for its kind, taken one at a time: `Publish`, `LoadRequest`,
`ReadRequests`, `WriteRequests`, `ReadContacts`, `WriteContacts`. `Ask`, `Decide`,
`CliResolve`, `Verify` and `Receive` start jobs; `Finish`, `StepFails` and `Crash` end
them. `mergeStoredContactTrust` is the trust merge of an import.

Every account runs this program: it answers only requests that reached it, and a
request or an answer carries the invite bundle of its sender. What
`handleContactResponse` (`content_handlers.go:83`) does with a response nobody asked for,
or with the bundle of a third account, which it does not check, is therefore outside
the model, and no property claims that consent is needed to become a contact.

### Rooms

Each handler runs in the Update goroutine and is one action: `Join`,
`HandleMembership`, `HandleMessage`, `HandleRequest`, `HandleChunk`, `RequestHistory`,
`SyncTimeout`; a room message leaves one envelope at a time (`SendMessage`,
`SendEnvelope`, `Sent` or `SendFails`). `mergeRoomMembers` and `MergeRoomHistory` are
the merges, `cut` the accounts that missed an envelope or dropped one at the cap.

### ProtectedStore

A file is under a passphrase, in the clear, missing or torn (truncated). A process
is idle, migrates, reads for a change, writes (`Truncate`, then `Fill`) or is ready. `Unlock` is
`PrepareClientStore` with `validatePassphrase`, `MigrateRead` and `Migrated` the
migration; `LoadOrCreateIdentity`, `SaveIdentity`, `SaveContact`, `CreateEnrollment`,
`CompleteEnrollment`, `Finish` and `Eject` are the writers. `ChangePassphrase` is
`BeginChange` (the state of the store), `ReadForChange` once per file, `SwitchPassphrase`
and a `Truncate` and a `Fill` per file. `WriteFails` and `Crash` are the failures. A value
of 0 is no content at all: of a torn file, or of one that `ReadForChange` found torn and
`Fill` sealed all the same.

### Enrollment

A device is `[id, key, mailbox, revoked, at]`; it is signed when `id` and `key` still
belong together, because they are made and signed together. Every `pandoctl
device` command is one action (`Complete` has the crash between its two files),
`Start` is `messaging.New`, `SendUpdate` and `ReceiveUpdate` carry the list to the
contact. `FromActiveDevice` is `session.Decrypt`, which looks at the signature and the
revocation of a sealed envelope only: one without `BodyEncoding` is handed on as it is
(`messages.go:60-62`). The programs here seal whatever they send, but that is theirs to
do, so no property claims that a revoked device cannot reach a contact.

### Recorder, Player, VoiceNotes

A call is a goroutine with a place: `check`, `spawn`, `register` for `Start`; `take`,
`end`, `wait`, `cleanup`, `clear` for `Stop`, `Cancel` and `Close`; `result` when its message
waits for `Update`. A process is unused, running, ended, or loose: the signal or the
kill failed, and `Stop` or `Cancel` cleared the recorder all the same (`GivesUp`). `overlapped`, `contested` and `strayed` are history variables for
the three races that the code leaves open (see the findings).

## 3. Runs

All twelve runs pass. `CHECK_DEADLOCK FALSE` is set throughout because a finite
instance really stops: connections end, messages are sent once, budgets run
out.

| Run | Instance | Shows |
|---|---|---|
| `relay_bolt` | two connections (one publishes, the other subscribes up to twice), two mailboxes, two envelopes, bbolt store that may fail, one tick, restarts | `AckedIsAccountedFor`, `StoredOrderIsKept`, `DeliveredToGrantedOnly`, `NoDuplicateDelivery`, `DeliveredIsNotRetained`, `KeepsCustody` (refinement of `RelayCustody`) |
| `relay_liveness` | two connections, one of which may stall, a bbolt store that may fail, a queue of two places and two bytes, so that either envelope fits but not both, one tick, restarts, `FairSpec` | `QueueWithinLimits`, `HandlersReturn`, `DeadSubscribersLeave`, `StoredReachesSubscriber` |
| `relay_directory` | two accounts with two signing keys, two mailboxes, two device keys, two subscribe requests, no bound on steps | `OwnershipMirrorsDirectory`, `NeverChangesHands` |
| `rendezvous` | one user calls `Exchange` twice, the other once, two ticks, failures and deletions, `FairSpec` | `LivePayloadsStay`, `BothSidesMeet` |
| `memory_queue` | four envelopes of two sizes, three places, four bytes, four ticks | `AcceptedIsKept`, `NothingComesBack` |
| `chat_connection` | two relays to switch between, four connections, an event channel of one, one fault, one send, `FairSpec` | `LossIsNoticed`, `IdleUntilSent`, `SendsAreAnswered` |
| `delivery` | two of a text, a file of two chunks and one of one chunk, room for one transfer, a sweeper at B, one failure or crash, one extra copy | `SavedAtMostOnce`, `NothingVanishes`, `RecordedFilesAreWhole`, `DeliveredWasTaken`, `TextsSettle`, `ExpiredLeavesDisk` |
| `contact_requests` | two accounts that ask each other, a third with an earlier request, overlapping jobs and a failure or crash at one of them, `pandoctl` at the other | `AcceptedIsImported`, `ContactsAreMutual`, `TrustOnlyRises` |
| `rooms` | three accounts of which two do not know each other, a cap of two, one message, three ticks, records that live for one, one history request, one loss or restart | `MembershipIsSound`, `HistoryIsSound` |
| `protected_store` | the chat and a `pandoctl` process, two passphrases, four stores to start from (new, plain, half migrated, encrypted with a pending enrollment), four sessions, two failures | `UnlockedIsEncrypted`, `OnePassphrase`, `SealedIsSomething`, `NeverStartsOver` |
| `enrollment` | two machines, three devices, two approvals, two updates to the contact, a month, a crash | `EnrollmentWorks`, `DevicesWereApproved` |
| `voice_notes` | three recordings, one of which a signal or a kill may fail to end, and two calls beside the window's own, or three playbacks and two Plays | `RecordingsAreTracked`, `MicrophoneIsShown`, `QueuedRecordingExists`, `PlaybackIsTracked` |

### What the models show the code to do otherwise than the repository says

`findings` in `PROJECT.json` has thirteen places where a doc, a comment or a test says
something else than the code does. Where a property would fail for one of them
alone, it names the exception, in most cases as a history variable, so that it holds
for everything else. What an exception covers is not claimed: the last column says
what that is.

| Exception | Where | What happens |
|---|---|---|
| `Ghost` (`RelayServer`) | `websocket.go:130` | a session whose `Drain` failed stays a subscriber that nothing removes: `DeadSubscribersLeave` speaks of the others |
| `lost` (`RelayServer`) | `websocket.go:86`, `bolt_store.go:80` | a copy written to a dead connection, or drained before a crash, is gone |
| `excused` (`Delivery`) | `sweeper.go:58`, `update.go:275` | the sweeper writes back what it read; a transfer beyond the limit is refused, a stale one is dropped; the item of a failed attachment stays pending |
| `struck` (`ContactRequests`) | `content_handlers.go:83` | an answer that overtakes the saving of the request is dropped, a failed step is reported and not repeated, unlocked files lose updates |
| `cut` (`Rooms`) | `room_incoming.go:27` | a list beyond the cap is dropped as a whole |
| `struck` (`ProtectedStore`) | `client.go:104` | a passphrase set or changed beside another session, or a change cut short as it rewrites: files under two passphrases, or sealed around nothing |
| `reenrolled` (`Enrollment`) | `device.go:111` | a mailbox enrolled again keeps its old id with new keys: no identity that holds it validates |
| `overlapped`, `contested`, `strayed` (`VoiceNotes`) | `recorder.go:47`, `recording.go:67`, `76` | two Starts, two calls with one recording, or a late result |
| `TakesAway` (`ChatConnection`) | `client.go:83`, `146` | a late `Disconnect`, or a send whose own `Connect` fails, leaves a window that shows itself connected |
| `loose` (`Recorder`) | `recorder.go:131` | a process whose signal or kill failed runs on without being the active one |

The other findings concern the relay: an envelope stored though its recipient is
online (`server.go:151`), a live envelope before the subscribe ack
(`server.go:116`), a session that stays registered after a failed drain
(`websocket.go:130`), an overfull rendezvous slot (`http_handlers.go:145`), and a byte
limit that a refused `Enqueue` breaks (`memory_store.go:43`). They follow from the
steps of `RelayServer`, `Rendezvous` and `MemoryQueue`. The properties there hold although
the steps occur, for they do not speak of what goes wrong in them, but for the ghost
of a failed drain, which `DeadSubscribersLeave` excepts in so many words.

### Bounds, and why they are enough

- Two envelopes are the least for order, for one overtaking another and for a
  queue limit. One of them is large: in `relay_liveness` the two fit by number
  and not by size, so that the bytes refuse the second, and in `memory_queue` the
  bytes refuse a third envelope that the places would take. That the number of
  places binds by itself takes more envelopes than a run has:
  `QueueWithinLimitsCorrect` proves both halves for all limits. Two connections give
  every pair of handlers. The theorems of section 4 remove both bounds for all
  safety properties of the relay.
- One tick lets an envelope and a challenge expire (their lifetimes are 1). Two
  mailboxes let a session change its mailbox while a publisher holds a snapshot.
- Two accounts, mailboxes and keys suffice for a dispute over a mailbox, for one
  moving between accounts, and for a key replacing another; two requests for two
  claims in the same gap.
- In `rendezvous` a payload lives two ticks, so one can expire while another
  does not; two calls by one account fill the slot with payloads it must skip.
- In `memory_queue` envelopes stamped at different times can be enqueued in another
  order than they expire in, which makes the compaction move live envelopes over
  expired ones; four are one more than fits.
- `chat_connection`: with one connection current, one superseded, one of the other
  relay and one being dialed, four are enough for every loop to read from a
  connection that is not its own. A full channel needs a capacity of one.
- `delivery`: two messages share the files and the assembler, whose one place makes
  a transfer block another; two chunks can come in either order, twice, with a
  cleanup in between. One failure at any step of either side.
- `contact_requests`: crossing requests need a pair; the third account gives the
  file a second entry that an unlocked write can lose.
- `rooms`: the cap of two makes the third account overflow it; a record of the
  first tick is older than the maximum age of one at the third. `Contacts` is no triangle, so lists travel through a third.
- `protected_store`: two failures allow a crash within the recovery from a crash; two
  processes let one read what the other is writing.
- `enrollment`: three devices are one to approve, one to re-enroll, and the
  original.
- `voice_notes`: three recordings are one that runs, one that starts and one whose
  result is still under way.

### Fairness

- `RelayServer`: weak fairness of `HandlerStep(s)` for each connection. The Go
  scheduler runs every runnable goroutine; locks are held for a few map
  operations; a write ends within its 10 second deadline (`websocket.go:85`).
  `HandlerStep` includes `Close`: a read from a dead connection returns an error.
  Clients, the network and the clock are not fair.
- `Rendezvous`: weak fairness of `Exchange(x)`: a call that was started goes on, the
  relay answers, the ticker fires. Nobody has to start, give up or fail.
- `ChatConnection`: weak fairness of each kind of goroutine step and of `Update`. The
  user, the idle timer and the network owe nothing.
- `Delivery`: weak fairness of the sending goroutine, of the handling of its result,
  and on each side of the write in progress, the envelope in progress and the
  sweeper, which a ticker runs for as long as the program does. Nothing obliges
  the relay to deliver or the user to send.

## 4. Proofs

The theorems hold for every value of the constants that satisfies the named
assumptions of the modules, which TLC evaluates in the passing runs. They are in
eight modules; each result rests on the inductive invariant named beside it, shown
to hold initially and to be kept by each action, with one step per action and, below
it, one per conjunct the action can disturb.

| Theorem | Shows | Inductive invariant, and why it is needed |
|---|---|---|
| `RelayServerProofs`: `TypeCorrect` | `TypeOK` | `TypeInv` adds `ControlInv`: what each `pc` value implies of the handler's variables. Without it `queue[mailbox[s]]` has no type. |
| `DeliveredToGrantedCorrect` | `DeliveredToGrantedOnly` | `GrantInv`: subscribers, snapshots and backlogs belong to accepted sessions. The snapshot is stale, but `grants` only grows. |
| `DeliveredIsNotRetainedCorrect` | `DeliveredIsNotRetained` | `CustodyInv`: an envelope is in one place, and no place it can still be sent from has sent it to that connection before. |
| `NoDuplicateDeliveryCorrect` | `NoDuplicateDelivery` | `CustodyInv` and the property itself |
| `AckedIsAccountedForCorrect` | `AckedIsAccountedFor` | `AccountInv`: the account is already given when the handler is about to reply |
| `KeepsCustodyCorrect` | `KeepsCustody`: `RelayServer` implements `RelayCustody` | `StageInv`: `CustodyInv`, and what was refused is in no store; one lemma per stage says where a step can take an envelope |
| `StoredOrderCorrect` | `StoredOrderIsKept` | `OrderInv`: a drain takes all of a queue, so what has left the store was appended before what is in it, and a backlog after what its session has written |
| `QueueWithinLimitsCorrect` | `QueueWithinLimits` | `LimitInv`: a queue is a finite set; its size in bytes is the number of pairs of an envelope and one of its bytes, so that one more envelope adds its own |
| `RelayStoreProofs`: `TypeCorrect`, `OwnershipCorrect`, `ClaimsCorrect`, `NeverChangesHandsCorrect` | `OwnershipMirrorsDirectory`, `NeverChangesHands`, and that every claim was published | with `EntriesAreFiled` the mirror is inductive: `sync` deletes exactly what the previous entry listed, and a late `AuthorizeMailbox` writes only where nothing is claimed |
| `AcceptedIsKeptCorrect`, `NothingComesBackCorrect` | `AcceptedIsKept`, `NothingComesBack` | `QueueInv`: the two together. A compacted slice shows live envelopes first and, behind them, what the slice held there before: nothing else, and no live one less |
| `LivePayloadsStayCorrect` | `LivePayloadsStay` | the type of the slot; `FrontStays`: what a filter keeps whole at the front stays at the front, so a purge of a purged slot, or of one with a payload appended, moves nothing |
| `DeliveryProofs`: `SavedAtMostOnceCorrect`, `NothingVanishesCorrect`, `RecordedFilesAreWholeCorrect`, `DeliveredWasTakenCorrect` | the four invariants of `delivery` | `Inv`: a record, in a file or in the hands of a goroutine that is to write it, says what its send goroutine, the seen marks and the disk say too (`Histories`); an ack on its way was earned (`Earned`); what B took of a message is in its history, about to be written there, in the assembler or being handled (`NothingLost`), where the assembler never holds a whole file (`Assembling`) and a goroutine that is to write over the other's file takes nothing away unnoticed (`Overlap`) |
| `ContactRequestsProofs`: `TypeCorrect`, `TrustOnlyRisesCorrect` | `TypeOK`, `TrustOnlyRises` | `Inv`: a job imports what was asked for and accepted, or publishes the acceptance first, and writes only what it has read (`Sound`); the files and messages of a request or an acceptance come from one (`Files`, `Messages`) |
| `ContactsAreMutualCorrect` | `ContactsAreMutual` | `MutualInv` adds `Bonds`: an acceptance binds both sides, each of which has the other as a contact, a job still to write it, or the acceptance on its way, unless the pair was struck; and `AcceptancesImport`: a job that handles an acceptance imports |
| `AcceptedIsImportedCorrect` | `AcceptedIsImported` | `AnswerInv`: a job that holds a request of its own as accepted, to write it or among what it writes back, found its peer imported or has yet to import it first (`HeldJobs`) |
| `RoomsProofs`: `MergeCommutes`, `MergeIsAssociative`, `MergeIsIdempotent` | the member merge is a join | - |
| `MembershipIsSoundCorrect`, `HistoryIsSoundCorrect` | `MembershipIsSound`, `HistoryIsSound` | `Inv`: lists in files and envelopes name accounts that joined (`ListsAreGenuine`), a contact's join is known or on its way (`JoinsArrive`), messages go to accounts that had joined (`MessagesAreTimely`) |
| `ProtectedStoreProofs`: `TypeCorrect`, `UnlockedIsEncryptedCorrect`, `OnePassphraseCorrect`, `SealedIsSomethingCorrect`, `NeverStartsOverCorrect` | `UnlockedIsEncrypted`, `OnePassphrase`, `SealedIsSomething`, `NeverStartsOver` | `Inv`: what is in the clear beside a session is still due in its migration (`ClearIsDue`), a file that held data is not missing (`KnownIsThere`), and only what a change has yet to write is under another passphrase (`OneKey`); `Contents`: what a job is about to write says something, and a file that a change has yet to read is sealed or missing, since nobody else writes |
| `EnrollmentProofs`: `EnrollmentWorksCorrect`, `DevicesWereApprovedCorrect` | `EnrollmentWorks`, `DevicesWereApproved` | `Inv`: every approval is sound for its target, whatever is pending when it arrives (`ListsAreSound`). `Provenance`: the lists on disk, in memory, in approvals and in updates have the same origin, for any of them may become an identity or reach the contact; device ids are never used twice |
| `ChatWindowProofs`: `RecordingsAreTrackedCorrect`, `PlaybackIsTrackedCorrect`, `MicrophoneIsShownCorrect`, `QueuedRecordingExistsCorrect` | the four properties of `voice_notes` | `VoiceInv`: numbers in use were started (`ProcessesProgress`), what a Start holds is nobody else's (`Fresh`), Starts that do not overlap find the recorder empty (`StartsAlone`), who contends for a recording is known (`Contention`) |
| `EarsCorrect` | the waits and connect attempts of a window's clients never run out and never pile up; no run checks it, `LossIsNoticed` builds on it | `EarsInv`: the bag `go` holds records of goroutines, nobody listens to a client the window has not made, no client has more than two ears. Every step puts goroutines in the place of one and hands its ear on to one of them at most (`HandsOn`, `EarsKept`), so the ears, counted as a set of copies, never grow except with a new client, and the last one is handed on unless the window stops (`RoutineStep`) |
| `IdleUntilSentCorrect` | `IdleUntilSent` | `IdleInv`: the budgets are in range and, as long as no fault and at most one send was used (`Calm`), `CalmInv` holds: there is at most one connect and one send (`Singles`); the connection in `c.conn` is open (`CurrentIsOpen`), so a read loop that finds its own one closed ends silently; a handshake finds what the relay sent unless a `Disconnect` took its connection (`Handshakes`); read loops of a connection about to be replaced have nothing to read (`QuietWhileDialing`, `QuietWhenIdle`); the first connect is alone (`FirstConnects`) |

Lemmas state what several steps need: what `send` does to `Delivered`, where an
envelope in a hand, a queue or a backlog came from, what a merge keeps.

Model-checked only:

- liveness (`HandlersReturn`, `DeadSubscribersLeave`, `StoredReachesSubscriber`,
  `BothSidesMeet`, `LossIsNoticed`, `SendsAreAnswered`, `TextsSettle`, `ExpiredLeavesDisk`): out of the
  prover's reach, as is `ENABLED`. Every safety property the runs check is a theorem.

No module declares a `RECURSIVE` operator. What would be recursion over data is
stated without it where a proof needs it: a filter by ranks (`filterInPlace`), a
sum of sizes by a cardinality (`TotalBytes`).

## 5. Not modelled

- Cryptography: signatures, the AEAD, key and code derivation are ideal, and
  payloads are elements of a set.
- The rate limiter's windows (`relay/limits.go`): its verdict is nondeterministic, so
  every property holds whatever it says.
- HTTP authorization, origin checks, landing page, health handlers: no shared
  state.
- Typing indicators, unread counts, themes, layout, rendering, the file picker, key
  bindings, the command palette (presentation): no state another component
  depends on.
- Configuration, flags, logging, invite codes and text formats: sequential code
  whose correctness is in its formats.
- Copies of an envelope for further devices of an account, and the limits per
  peer and in bytes of the attachment assembler: `Delivery` has one device and one
  sender, for which they coincide with what is modelled.
- Sessions of a revoked device: the code has no step that links a directory entry
  to a running session, so `RelayServer` and `RelayDirectory` are checked apart.
