# Verification of plasmatix-agent

TLA+ models of the agent in `src/cmd/plasmatix-agent`, the TLC runs that check
them on small instances, and TLAPS proofs for instances of every size.
`PROJECT.json` maps each definition to the lines it models and lists the runs,
the hazards, the findings and the theorems.

Names: BD is `biometric_delivery.go`, RO `biometric_result_outbox.go`; other
files are named in full.

## 1. Inventory

The agent stands between ZKTeco scanners on a local network and Plasmatix (the
"cloud"). Scanners talk to its HTTP server (ADMS, `/iclock/...`); the agent talks
to Plasmatix and to a ZKBioTime server. Everything is one process with many
goroutines; almost all shared state is in `ADMSServer` under one mutex, `s.mu`.
Only one file is written, the outbox of biometric results.

| Component | State | Operations | What is hard | What makes it correct |
|---|---|---|---|---|
| Biometric result outbox (RO, end of BD) | records in memory and in a file, reservations, held results | admit, hand over, flush, post, retry, delete, disable, reopen | writes that fail before or after the rename, crashes, wake-ups, a shared capacity | no owed result is lost or changed, a finished command always has room, every result is reported in the end |
| Biometric command delivery (BD, `handleGetRequest`) | queue and pending object per scanner, payload bytes, timers, worker goroutines | intercept, claim, supersede, fetch, render, queue, serve, acknowledge, expire, fail, shut down | five ways to take one object away, two locks, several requests of one scanner, restarts | settled once, one object per scanner pending, bytes never zeroed while written, no leaked reservation, shutdown ends |
| ZKBioTime relay (`zkbiotime.go`) | cursor, checkpoint at the bridge | load, fetch a page, relay, repeat | lost, late and duplicated requests, passes that fail half-way | no transaction is passed over, all arrive |
| Attendance uploads (`adms_attlog.go`, `handleCData`) | none of its own: the scanner's memory is the state | read, batch, fall back to rows, answer | failures in the middle, repeated uploads | the scanner is told OK only when all is stored |
| Device command queue (`main.go`, `adms_clock.go`) | `cmdQueue`, `cloudCmdID`, `pendingCmd` | fetch the list, queue, serve, refuse, answer, report, clock tick | concurrent requests, results sent once, lost writes, unread answers, lists of ten | in hand once, never shut out, no clock set back |
| Template capture (`main.go`, `biometric_capture.go`) | `captureCmd`, `importQuery`, upload queue, workers | remember, forget, capture, queue, upload, shut down | the command of a row changes while the row waits; shutdown | filed under the right command or none, bytes wiped |
| Query replies (`adms_limits.go`, `handleQueryData`) | `queryBuffers` | join a pack, complete, refuse, expire | limits shared by all scanners, expiry driven by other scanners' packs | limits hold, an undisturbed reply is whole |
| Clock packing (`adms_clock.go`) | none | encode, decode | ends of days, months, years | can be unpacked, keeps the order |
| Write-back of new templates (`main.go`) | none of its own | look the command up a third time, queue a command for the scanner | the table has changed since the row was filed | written back exactly if it does not answer an import |
| Handshake and full synchronisation (`main.go`) | a flag at Plasmatix | read the flag, answer with a stamp, acknowledge | the answer may be lost, two handshakes overlap, the agent restarts | a request is cleared only when the scanner was told, and every one reaches it |
| Device tracker, heartbeat, protocol detection (`heartbeat.go`, `adms_protocol.go`) | `devices` | note a contact, observe a protocol, probe, post | snapshots used late, scanners that move or change their firmware, late heartbeats | profile and view settle on the scanner as it is |
| Long-poll command channel (`main.go`) | handlers | poll, handle, answer | handlers overlap, restarts end them | no command is left waiting |
| Web session (`SessionManager`, `withZKBio`, `postGrid`) | one cached session, one login channel; the query ZKBio keeps with a session | log in, wait, fetch, invalidate, repeat | sessions end at any time, callers race, the query is shared | one login, a newer session for the repetition, the right answer |
| Self-update (`selfUpdate`, `platform_*.go`) | the binary and the one moved aside | download, move aside, move in, roll back, restart, clean up | two renames on Windows, failures and restarts between them | there is a binary to start |
| ZKBioTime client, error dampener, log buffer, extraction and redaction, migration tools, service protocol, mock device | | | | not modelled; section 8 |

How they interact: `handleGetRequest` first drains the cloud's list into the
command queue, then serves a biometric object if there is one, and else the head
of the queue; a biometric reference at the head starts a delivery instead.
`handleDeviceCmd` sends an answer to the delivery or to the command queue.
Serving an enrolment or an import enters it in the capture table, and a failure
removes it. The last pack of a query reply stores attendance, captures templates
and ends the command. Deliveries hand their results to the outbox, against whose
capacity they were admitted. Every request of a scanner updates the device
tracker, whose profile decides the dialect of commands and acknowledgements and
whose snapshot the heartbeat, the probes and the clock tick use. Commands of the
long-poll channel use the web session, queue commands for scanners, or replace
the program.

## 2. Modules

| Module | Models | Run by |
|---|---|---|
| `ResultLedger` | abstract: the life of a biometric command id, no file, lock or thread | property of the runs `outbox` and `delivery_liveness` |
| `ResultOutbox` | the outbox, its file, its worker, its callers | `MCResultOutbox` |
| `SecretDelivery` | the deliveries | `MCSecretDelivery` |
| `BioTimeRelay` | the relay | itself |
| `ScannerIDs` | the scanners | `AttendanceUpload`, `DeviceTracker` and `FullSync` extend it |
| `AttendanceUpload` | attendance uploads | `MCAttendanceUpload` |
| `DeviceCommands` | ordinary commands and the clock tick | `MCDeviceCommands` |
| `CaptureUploads` | capture table, upload queue, workers, write-back | `MCCaptureUploads` |
| `QueryReplies` | joining of packs | `MCQueryReplies` |
| `DeviceClock` | packed dates | `DeviceCommands` extends it |
| `DeviceTracker` | device tracker, probes, heartbeat, protocol detection | through `Handshake` |
| `FullSync` | the flag for a full synchronisation | through `Handshake` |
| `Handshake` | extends both by the requests of scanners | `MCHandshake` |
| `WebSession` | the shared ZKBio session and the grids | through `CommandChannel` |
| `CommandChannel` | extends it by the long-poll channel and self-update | `MCCommandChannel` |
| `CData_proofs` | theorems about `AttendanceUpload` and `Handshake`, the two halves of `handleCData` | TLAPS |
| `DeviceCommands_proofs` | theorems about `DeviceCommands` and `DeviceClock` | TLAPS |
| `CommandChannel_proofs` | theorems about `CommandChannel` and `WebSession` | TLAPS |
| other `*_proofs` | theorems about the module they are named after | TLAPS |

Definitions whose names have a suffix after an underscore (`Pick_ignoresFound`)
are mutations: each is the definition it precedes with a plausible mistake, and
is there to show that a property notices it. No specification uses them.

### ResultOutbox and ResultLedger

One action per critical section of `s.mu`; `flushPendingBiometricResults` keeps
the lock over several writes and is a run of actions (`FlushStart`, `FlushOne`,
`FlushEnd`) during which no other action that needs the lock is enabled. The file
is `disk`; `older` are files a crash may bring back after a rename whose
directory sync failed, and a restart picks any of them. The worker is `pc`; its
one-slot wake-up channel is `wake`. A failing write of a retry or a removal and
the disabling that follows are one step. Times of retries are abstracted: a
record is due or backing off.

`ResultLedger` says: a command is idle, in flight, held, durable or reported; a
crash forgets what is in flight or held and nothing else; what is durable can
only become reported, with its value. Both `ResultOutbox` and `SecretDelivery`
are checked to implement it (`ImplementsLedger`), the first with its file, the
second with the objects, goroutines and locks of the deliveries and an outbox
that is a set of records and a flag (`working`).

### SecretDelivery

A worker goroutine per command id (`wpc`), a handler per getrequest (`hpc`), and
objects with local ids. Local ids grow under the lock under which an object is
queued, so a queue is the set of queued ids and its head the smallest. Whoever
detaches an object zeroes it under `payloadMu` and then settles the command;
those steps are modelled per object (`fate`). What the cloud answers, what
rendering finds and whether a deadline has passed are choices; one answer of the
cloud (`deployment_cancelled`) makes a worker give its command up without a
report. The two tests for a shutdown at the start of a worker are one.

Of the outbox this module has the records, and `working`: a removal or a retry
that cannot be written ends the worker and disables the outbox until the next
start, and then what is held stays held and nothing is admitted. `sent` and
`written` are history: the commands of which some bytes, or all, were written
since they were last taken in.

### BioTimeRelay

ZKBioTime and the bridge are external: ids grow, and the bridge stores a batch
together with its last id, or keeps the larger one it has; either is a choice
(so a late request can move the checkpoint back). Two identical requests on
their way are one.

### AttendanceUpload

The scanner's memory, Plasmatix' store, and any number of handlers at once. Rows
of a batch are taken in any order. Lines without a pin or a time, which
`parseATTLOGRows` drops because they can never be stored, are left out of the
set of punches. A crash in the middle of an upload is `NoAnswer`. `QueriedATTLOG`
is the answer to a query for punches: its rows are stored one way or another, and
the scanner's memory is not touched. What it fails to store is asked for again by
Plasmatix, which is outside the agent, so no property relies on it.

### DeviceCommands

The code counts local ids up; the model gives out an id that no entry of this
process has, which makes the state finite, and keeps in `scanner` the ids a
scanner may still answer, also those of an earlier process. The cloud lists a
command until it has its result, and gives at most `ListLimit` of them at a time
(10 in the code), in an order that is its own choice. Results of one command on
their way are one. A scanner's answer may go unheard: its body breaks off, is too
large or names no id, or the last pack of a query reply is not taken. Then, as
after a write that was lost, the command stays pending; `mislaid` remembers both.
Time passes through a given list of dates (`now`); `since` remembers when a
request came in, and `filled` is the packed time `fillClockCommand` puts into a
clock command when it is taken from the queue.

### CaptureUploads

Time is in ticks, so that of two recorded commands the older expires first. A
handler's two critical sections (look up, queue) are two actions, and the worker
looks up a third time. `live` is the set of templates whose bytes are in memory.
The shutdown runs when the HTTP server has failed, with handlers still running.
`echo` is the write-back of the first row of a BIODATA upload: due from the
capture on, and decided by a third look at the table. What an upload achieves is
left out: nothing depends on it.

### QueryReplies

A scanner sends the packs of a reply in order, may repeat one and may go on
after a refusal. The code never looks at pack numbers; the model keeps them in
the buffer to say which packs a reply is made of. `steady` is a history variable.
Replies in `Unkeyed` have no command id; their packs are not joined, and only the
last one is used. The bytes of all unfinished replies, which the code adds up in a loop, are
counted (`Total` is the size of the set `Buffered` of all single bytes): the same
number, in a form lemmas about finite sets apply to.

### DeviceClock

`encodeZKDateTime` and `decodeZKDateTime` as operators on records of fields. The
scanner's zone is a fixed offset without daylight saving, so later stays later
in it.

### DeviceTracker, FullSync and Handshake

A request is recorded with the firmware that sent it, because its handler looks
at it later: first it notes the address, then, in a second critical section, what
the request tells. Attendance firmware shows itself by its push version,
access control firmware by its routes, both tell capabilities in their options.
Only the versions 2.2 to 2.4 are taken for attendance firmware
(`adms_protocol.go:101`); a scanner that announces another one, such as the 3.1.2S
quoted in `adms_options.go`, has no profile until it uses a route of access
control, which is what the firmware `AC` of the model does.
A request of the old firmware that is handled after the change brings the old
profile back; the code cannot tell, and `ViewSettles` says that it does not last.
Versions, evidence and times are left out, and confidence, which follows from the
profile. `mergeCapabilities` works key by key, so a capability other firmware
has reported stays until a restart; `ViewSettles` is about the keys the scanner
reports. The flag for a full synchronisation is Plasmatix'; `waiting` and
`swallowed` are history variables that say whether the scanner has been told and
which of the two exceptions has happened.

### WebSession and CommandChannel

A handler per command; `pc` says where it is and `task` what it knows. Sessions
are numbered by completed login. All fetches of an instance are of one endpoint,
which is the case that matters: ZKBio keeps one query per session and endpoint
(`query`, pairs of a session and the command whose query it keeps).
The first request of a grid states the query; `postGrid` does not look at the
status of its answer, so it goes on to the pages also when ZKBio has refused the
query and keeps an earlier one. The grid is then `disturbed`, as it is when another
command replaces the query; `disturbed` and `after` are history. An update is its file operations, each of
which can fail; on Windows also because the image is running. The process may
stop at any moment: by a crash, by the restart after an update, by an
uninstallation; every handler at work ends with it.

## 3. Runs

| Run | Bounds | Checks |
|---|---|---|
| `outbox` | 3 commands, two of them never settled, 2 places, 2 faults, 2 crashes | types, owed results on disk, places, kept results, reservations, no earlier result of what is being executed in any file; owed results are reported, held ones flushed; implements `ResultLedger` |
| `delivery_safety` | a deployment and its deletion, 1 scanner, 2 requests at once, 2 attempts, 1 fault | reservations, one hand, one pending, one writer and no more attempts than allowed, writes before settlement, shutdown final, an applied deletion was written to the end |
| `delivery_liveness` | the same, 1 request at once, 1 attempt, 1 crash | reservations end, shutdown ends; implements `ResultLedger` |
| `delivery_stale_ack` | 1 crash | violation, section 6 |
| `relay` | 4 transactions, pages of 2, 2 faults, 1 crash | `NoGaps`, `EveryPunchArrives` |
| `attendance` | 2 ATTLOG punches, batches of one row, 1 rtlog punch, 2 uploads at once, 2 faults | `ForgottenIsStoredOrUnread`, `EveryPunchIsStored` |
| `attendance_unread` | 1 fault | violation |
| `commands` | 1 scanner, the clock, 1 fault, a list of one; either 1 cloud command, 2 requests at once and 1 crash, or 2 cloud commands, 1 request at once; the last second of January and the next one | `TrackedExactlyWhileLive`, `NeverOlderThanTheRequest`, `EveryCommandEnds` |
| `capture` | an enrolment and an import of one slot, 2 templates, 2 workers, 1 place, a tick after which a command has expired | `DownMeansWiped`, `NoStaleNorNewerCommand`, `EveryTemplateIsWiped`, `WriteBackFollowsFiling` |
| `replies` | 3 replies in packs and one without a command id, each limit binds, a minute is 2 ticks | `WithinBudget`, `SteadyRepliesAreWhole` |
| `channel` | 2 or 3 commands at once: a fetch and two updates on Windows; two fetches and an update on Unix; an update, an uninstallation and another command on Windows; a paged and a direct fetch; grids of 2 pages, 2 faults | `OneLogin`, `RetryUsesANewerSession`, `WholeUnlessReplaced`, `ImageToRestartFrom`, `EveryRequestIsAnswered` |
| `handshake` | 1 scanner, 2 requests at once; six mixtures of a fault, a change of address or firmware, one or two requests for a full synchronisation, a restart | `ClearedMeansTold`, `ViewSettles`, `FullSyncIsServed` |

Why the bounds are enough to be interesting: each has one party more than the
resource it competes for (three commands for two places, two rows for one place,
two requests for one scanner, two punches for a batch of one, two commands for a
list of one, a deletion against the deployment it supersedes),
at least one failure of every kind the code handles, and one restart after which
the agent still runs. A batch of several rows of which some are stored is in the
theorem, which holds for any size of batch. `PROJECT.json` names for every property a mutation of the
mapped code that the same run catches. Deadlock is checked except where the
system may really stop: after a shutdown or an uninstallation (outbox,
deliveries, channel), when all bounded punches, packs or commands are used up
(attendance, replies, channel, handshake).

## 4. Fairness

* Goroutines and handlers are scheduled (`WF` on their steps): the Go scheduler.
  Every wait in them is bounded by an HTTP timeout or a deadline.
* Outbox: `SF` on `BecomeDue` and on `PostSettled` for commands outside `Poison`.
  A back-off is a timer of bounded length, and a cloud that is tried again and
  again answers at some time; commands in `Poison` are those it never settles.
* Relay: a pass goes on, and requests on their way arrive while the bridge is up.
* Scanners: `SF` on their polls and uploads, because they repeat them for ever;
  `WF` on their answers to what they have received. The properties except lost
  writes and unreadable bodies.
* Deliveries: `WF` on the flush of a held result, which is enabled only while the
  outbox works; `ReservationsEnd` excepts the results held when its worker has ended.
* Handshake: the two loops run, what is late arrives, and a scanner repeats each
  kind of request for ever (`SF`, because while another of its requests is being
  handled the bounded slots may be taken).
* Channel: the loop polls, each request of a handler ends (all have time-outs),
  and the service manager starts the service again (`Restart=always`, the
  recovery actions of the Windows service).
* Never assumed: that anybody issues commands, that a scanner answers a biometric
  command, that a shutdown or a restart happens, that faults happen or stop
  (faults are bounded by a constant, so in these runs outages end).

## 5. Proofs

Every invariant and every action property of the passing runs, and both
refinements, are theorems: TLAPS proves them for all values of the constants
within the named assumptions (`OutboxAssumption`, `DeliveryAssumption`,
`RelayAssumption`, `UploadAssumption`, `CommandAssumption`, `FieldAssumption`,
`CaptureAssumption`, `ReplyAssumption`, `WebSessionAssumption`,
`ChannelAssumption`). They say that bounds are natural numbers and limits not
zero, that the marker `none` is not a command, that kinds of commands do not
overlap, that the sets a proof counts are finite, and that the moments of a run
are in order; TLC evaluates all of them on the runs too. `Handshake` and
`DeviceTracker` need none. The run shows that the property is not vacuous and
what breaks it; the theorem, that the bounds of the run do not matter.

Each proof is an inductive invariant `IInv`, one lemma or step per action, and
the theorems as consequences. The parts of `IInv` that are not themselves
properties were checked with TLC before they were proved.

* `ResultOutbox_proofs`: `TypeCorrect`, `OwedResultsSurvive`, `ResultsFit`,
  `HandedResultsAreKept`, `NoReservationLeaks`, `NoEarlierResultOnDisk`. That owed results
  are in every file is not inductive by itself: a file kept from before a failed
  sync matters only if the write that failed did not drop something owed, which
  depends on where the worker is (`Untouched`, `FilesAgree`), on its record not
  being in the queue (`Queue`), and on admission having kept records and
  reservations apart (`Apart`, `Reservations`, `Room`).
  `OutboxImplementsLedger` adds one fact, `Unanswered` (the cloud has answered
  nothing the agent is still working on), and shows for each action which step of
  `ResultLedger` it is.
* `SecretDelivery_proofs`, in two layers. The lower one is about objects and
  goroutines: `OneCommandAtAScanner`, `OneHandlerAtAnObject`,
  `NoWriteAfterSettlement`, `NothingServedAfterShutdown`,
  `DeletionsAppliedWereWritten`. It needs that what was detached has a fate and
  nothing else has (`FatesAgree`), that a deletion is detached as applied only when
  it is marked as served (`AppliedDeletionWasServed`), that what a supersession has detached is its
  own (`VictimsAgree`), and that a handler has an object that was claimed
  (`HandlersClaimed`). The upper one forgets objects: every step is an admission,
  the abandonment of some commands, the settlement of one, or a step of the outbox
  (`Moves`). From the moves alone follow `OneOutcomePerCommand` (strengthened by
  `OneStage`: also what the cloud has been told of is in no other hand),
  `NoReservationIsEarlyOrLeaked` and `DeliveriesImplementLedger`.
* `CommandChannel_proofs`: `LoginsDoNotOverlap`; `RepetitionIsNewer` from what is
  known of a session before it is used (`Sessions`: nobody has one still to come,
  and what a repetition finds cached is newer than what it invalidated);
  `GridsAreWhole` from what is known of a grid before it is complete (`Grids`:
  ZKBio keeps its query or another has replaced it); `AnImageRemains` from
  `Images`: the running image can be set aside by one update only, and it is
  where that one has put it. Types are not enough for the steps: a handler is
  where a command of its kind can be, in a process that is up (`Kinds`).
* `DeviceCommands_proofs`: `EveryDateSurvives` and `ClocksNeverGoBack` (a packed
  date is a number in mixed radix), and from the second, with what a request at
  work has (`Busy`), `TimesAreNotOld`. `MarkedExactlyWhileInHand` needs that no
  two places of a process hold the same local id (`UniqueIDs`): removing an entry
  would otherwise leave a second one unmarked.
* `CaptureUploads_proofs`: `NothingIsLeftBehind`, from where the bytes in memory
  can be (`Held`) and what workers that have stopped leave (`Stopped`); the action
  properties `FiledUnderItsOwnCommand` (`Tags`: a waiting row has the command its
  handler found, or none) and `WriteBackAgrees` (`Echoes`).
* `QueryReplies_proofs`: `BuffersAreBounded`, from lemmas on how the number of
  bytes changes with one reply (`BytesAdd`, `BytesFewer`, `BytesSame`);
  `RepliesAreWhole`, from what the buffer of a steady reply holds between two
  packs as long as it has not been silent for a minute (`Steady`), which the packs
  of others do not disturb.
* `CData_proofs`: `NoPunchIsForgotten`, from what a handler knows at each point
  (`Progress`: what it has crossed off is stored). `ClearedRequestsWereServed` is
  about the instance `Hs` of `Handshake`; `ClearedMeansTold` becomes inductive with
  what is known while a handshake is about to acknowledge (`Acknowledging`: the
  scanner has been told since the flag was last raised, or an exception has
  happened).
* `BioTimeRelay_proofs`: `RelayHasNoGaps`. `NoGaps` needs to be strengthened by
  what requests on their way contain (`Requested`: everything between what was
  acknowledged and their last id) and what the cursors stand on (`Cursors`). The
  key lemma is that a page has no hole.

Type correctness is a theorem of every module that states a type invariant
(`TypeCorrect`, or a part of the inductive invariant).

Only model-checked: the liveness properties (`OwedResultsAreReported`,
`HeldResultsAreFlushed`, `ReservationsEnd`, `ShutdownCompletes`,
`EveryPunchArrives`, `EveryPunchIsStored`, `EveryCommandEnds`,
`EveryTemplateIsWiped`, `EveryRequestIsAnswered`, `ViewSettles`,
`FullSyncIsServed`), because the prover reasons neither about fairness nor about
`ENABLED`. The two findings are counterexamples, which need no proof.

## 6. Findings

Each is a run that TLC is expected to refute.

1. `delivery_stale_ack`: local ids start at 1 in every process, and an answer is
   matched by scanner and local id alone; the late answer to the previous process
   completes a deployment that has not been sent.
2. `attendance_unread`: an upload whose body cannot be read is answered OK, and
   the scanner forgets its punches, against the comment of the ATTLOG branch.
Exceptions the passing properties make, which a reader of the code should know:
a queued deployment for a scanner that never polls keeps its reservation
(`ReservationsEnd`); a command whose bytes did not reach the scanner is not
served again before a restart, nor is one whose answer could not be read, and as
many of them as a list is long keep the other commands of their scanner from being
listed (`EveryCommandEnds`); a result held in memory when the outbox's worker has
ended keeps its reservation until a restart (`ReservationsEnd`); a query reply that
lost a pack is still completed by its last one, and of a reply without a command id
only the last pack is used (`SteadyRepliesAreWhole`); after a relay
pass that fails half-way the next one starts at the old cursor, so pages the bridge
has acknowledged are sent again (`Fail` of `BioTimeRelay`: nothing is lost). A
row of a query reply whose command ends while the row is queued is uploaded
without a command (`Begin` of `CaptureUploads`), although untagged rows of
replies are otherwise kept back. An answer with stamp 0 that is lost is
acknowledged all the same, and a request for a full synchronisation made while
the last one is being acknowledged is cleared with it (`ClearedMeansTold`,
`FullSyncIsServed`). Two
overlapping fetches of one endpoint share the query kept with the session, and
the first may report pages of the second's answer; a query ZKBio refuses in an answer
`postGrid` does not look at leaves the pages of an earlier one to be reported (both
`WholeUnlessReplaced`). A
crash between the two renames of an update on Windows, or a rollback that fails
too, leaves no binary to start (`ImageToRestartFrom`). After a change of firmware
a scanner has no profile until it shows the new protocol again, and requests of the
old firmware that are still being handled can bring its profile back for a while
(`ViewSettles`).

## 7. Plan

Done, in this order: outbox and ledger, deliveries, relay, attendance, commands,
capture, replies, clock, web session and command channel with self-update, device
tracker and handshake, write-back; then the proofs of the invariants, of the
action properties and of both refinements. To come:

1. Action properties that say of the steps what the invariants say of the states:
   that a durable result of `ResultOutbox` never changes its value, that the
   checkpoint of the relay falls back only to what an earlier request carried.
2. Lemmas the liveness arguments rest on and that are safety: an owed record is
   always due, backing off or with the worker; a waiting caller of the web session
   always has a login to wait for.

## 8. Not modelled

* Extraction of templates, redaction, options, rendering of commands: string
  processing; the models take its outcome as a choice.
* The ZKBioTime client and the commands that use it (personnel, terminals,
  reports, `sync_employees`): requests on behalf of one command, with no state of
  the agent between them. They appear in `CommandChannel` as commands that answer.
* The way of a write-back through the command queue, as an entry without a cloud id:
  like a clock command, it is served once and its answer reported to nobody.
* The migration tools: a read-only export, one query per command.
* Error dampener and log buffer: which lines are logged and kept; nothing else in
  the agent reads them.
* Service status, host facts, the protocol of the Windows service manager, and
  the mock device of `scripts/dev`: I/O around the program.
* Wall-clock bounds (the lease of a deletion against the time of the write) and
  counters that take years to reach their limit (attempts of one record).
