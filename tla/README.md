# Touchpad bridge: a TLA+ verification project

A MacBook trackpad is made into a Windows Precision Touchpad over TCP. This
directory specifies the parts that have to agree on what is being touched, checks
them with TLC on small instances and proves some of their properties with TLAPS
for every value of the constants. Paths such as `windows/receiver/main.cpp` are
relative to the repository.

## 1. The system

```
 MultitouchSupport          mac-touch-agent                    Windows
 +---------------+   +---------------------------+   +--------------------------+
 | contact frames|-->| contact_callback \        |   | recv -> StreamDecoder    |
 | button events |-->| button_callback  -> queue |-->|      -> TouchSession     |
 +---------------+   |        sender thread      |TCP|      -> Submit (IOCTL)   |
                     +---------------------------+   +-----------|--------------+
                                                       VHF driver -> HID stack
```

| component | state | operations | how it interacts |
|---|---|---|---|
| Mac agent, `mac/Agent/main.c` | atomic flags `running`, `connected`, `reconnect_requested`, `sequence`, `physical_button_down`; the pressure click; `latest_frame`; a queue of 256 messages | `contact_callback`, `button_callback`, `sender_main`, `stop_agent` | two callback threads and the sender share the state; one mutex for frames, one for the queue |
| MTP1 codec, `protocol/TouchFrame.c`, `Mtp1.cpp` | none | encode, decode, validate | pure |
| Stream decoder, `Mtp1.cpp` | bytes buffered, messages decoded | `Append`, `PopMessage` | called by the receiver's `main()` with what `recv` returned |
| Protocol session, `TouchSession.cpp` | handshake and sequence flags, identifier -> slot, slot -> last contact, button, time of the last frame | `Process`, `OnTimeout`, `OnDisconnect` | one object per connection; returns a frame or throws |
| Receiver process, `windows/receiver/main.cpp` | the connection, decoder and session as locals of one loop | accept, recv, process, submit, disconnect | blocks in `accept`, `recv` and `DeviceIoControl` |
| VHF driver, `windows/driver/` | VHF handle, submit lock, status of the last submission, input mode, counters | add and clean up the device, submit and query IOCTLs, feature reports | one request at a time from the receiver, feature callbacks from Windows at any time |
| Probe, tools, installer scripts | none that the others share | capture, analysis, test peers | offline |

What is hard here, and what a component must get right:

* *Session.* Contacts come and go inside one frame, two tables describe the same
  contacts, and an exception leaves the loop half done. Slots must not be shared,
  a contact must keep its slot, and nothing reported down may be forgotten
  without a lift.
* *Receiver.* Every way a connection ends (peer, timeout, bad bytes, bad
  sequence, failed submission, stop) must leave no contact behind, and the time a
  contact is held without news must be bounded.
* *Decoder.* TCP cuts and joins messages as it likes; the decoder must stay in
  step with the stream.
* *Driver.* A start that fails half way and a removal in the middle of feature
  callbacks must leave neither a dead handle nor a live device; every request must
  complete, and a status must describe one submission.
* *Agent.* Three threads over lock-free flags: frames must keep the order of
  their numbers, an overflow must end in one reconnect, nobody may be left
  waiting, and a button must not stay down. `main()` must stop the sender thread
  it has created, whatever fails after it.
* *Connections.* A path can break without a word to either side, a connection can
  wait in the backlog, and `send` can block: a lift must not get lost on the way,
  and a touch must be shown again after every reconnect.
* *Codec.* The rules for a message are written down in an encoder and three
  decoders, in three languages.
* *Descriptor.* The report descriptor and the packed report describe the same
  bits, by hand, in two files.

`PROJECT.json` lists each of these hazards at its line with the properties that
cover it.

## 2. Modules

| module | what it is |
|---|---|
| `TouchSession` | the class `TouchSession`; one action per way through a call, `output` the returned frame, `error` the exception. `SessionSpec` allows every order of calls `main()` can make |
| `Receiver` | EXTENDS `TouchSession`; the loop of `main()`, the submissions, and `host`, the last report Windows got |
| `StreamDecoder` | bytes to messages; a message is its contact count and where decoding fails |
| `MacAgent` | the agent's three threads, one atomic access or one critical section of the queue mutex per step, with the receiver reduced to what the agent can notice |
| `Bridge` | the agent's sender, the TCP connections between the programs, and the receiver's loop composed, coarser than `MacAgent` and `Receiver`: a callback, a connect and a send are one step each |
| `TouchSurface` | the abstract specification: what the receiver promises Windows, without connections, sessions or messages |
| `ReceiverSurface` | EXTENDS `Receiver` with a history variable and instantiates `TouchSurface` |
| `Mtp1Codec` | pure: the agent's frames, the encoder, the C decoder, the receiver's decoder and the reference parser, over the fields of one message |
| `HidDescriptor` | pure: the report descriptor as a sequence of items, how Windows reads it, and the packed report next to it |
| `VhfDriver` | the kernel driver under Plug and Play, the receiver's requests and VHF's callbacks, one step per access that another thread could see; WDF and VHF are the environment |
| `TouchpadDevice` | the driver's promise without threads, lock or stages: a touchpad that comes and goes, on which one whole report at a time appears together with its status; `VhfDriver` instantiates it |
| `MCTouchSession`, `MCReceiver`, `MCReceiverSurface`, `MCMacAgent` | symmetry sets and touch sets for TLC |
| `MCStreamDecoder`, `MCVhfDriver` | a component together with the pure module next to it |
| `TouchSessionProofs`, `ReceiverProofs`, `ReceiverSurfaceProofs`, `StreamDecoderProofs`, `MacAgentProofs`, `VhfDriverProofs`, `BridgeProofs`, `Mtp1CodecProofs` | theorems about the module of the same name |

How state and actions correspond to the code:

* `slots`, `previous_contacts`, `button_down` and the flags are the members of
  the class. `age` is `now - last_frame_time_` in receive timeouts of 50 ms, so
  `FrameTimeout` is 4 in the code and 2 in the runs. Ages of `AgeLimit` and more
  are not told apart. Contact positions are opaque: a lift must repeat the last
  one, and that is all that is asked of them. `Mappings` is what the loop of
  `TouchSession.cpp:50-67` leaves in `slots_`, in declarative form: it is
  determined by the order of the contacts and by `AllocateSlot`.
* `RejectOversized` keeps the half of the loop that had run before the throw.
* In `Receiver`, `pc` is the blocking call `main()` is in. `frag` counts receives
  that brought only a part of a message since the last complete one or the last
  receive timeout; its bound `MaxFragments` stands for the length of a message
  (476 bytes, so at most 475 such receives). `exposed` is a history variable: a
  submission failed or the process ended, and no RESET report has followed.
* In `MacAgent`, `frame_mutex` is a variable because it is held across several
  steps. `pc["main"]` is `main()` from the creation of the sender thread to its
  join, with every way a start can fail; touches are reported only while it is
  streaming. `Signals` switches `stop_agent` on and off, `Clicking` the button
  events: with both, all interleavings are too many for one run. `carried` is a history variable: a callback that an older session
  had let in was still running when this session was opened. `NoStuckButton`,
  `WindowsHasLatest` and `GapOnlyBeforeReconnect` speak of sessions that are not
  `carried`; of the others they are violated, see the end of section 5.
  `Reordered` allows the two stores of `main.c:171-172`, release then relaxed, to
  become visible in either order. A closed TCP connection accepts any number of
  sends before one fails. An open one may be full after any message (`stalled`): then
  `send` waits until the other end reads (`PeerReads`), closes (`PeerCloses`), or
  for ever, since `main.c` sets no time limit. `Blocked` is the sender waiting so.
  `force` is a history variable: what the fingers did, whether or not the agent
  looked.
* In `Bridge`, `line` is the sequence of connections the receiver has or will
  accept, each with the messages it can still read and with what follows them:
  more (`live`), the end of the stream (`fin`), or silence (`lost`). Only the last
  one can be live. `sock` is what the Mac knows: the receiver may have hung up
  without the Mac having noticed (`orphan`), TCP may be finding out (`failing`).
  `Send` has four outcomes: through, blocked, accepted but lost, failed. HELLO
  and RESET are one message, and a frame is how many contacts it has: none, up to
  five, or more, which the session refuses. Sequence numbers and slots are left
  to the other modules. In the receiver a message is received, processed and
  submitted in one step; `Receiver` shows what the submission can do.
* `TouchSurface` has three steps: a complete report, in which a contact keeps its
  slot and no slot changes its contact; a clear; a fault, after which a clear must
  come first. `ReceiverSurface` maps `touches` to the last report together with
  `owner`, the contact behind each slot when the report was delivered, `button`
  to the last report, and `stale` to `exposed`. Every step of the receiver is one
  of the three or changes nothing.
* In `Mtp1Codec` a message is a record of the fields the readers tell apart, and
  the contacts are what follows the header, whatever the header says of them. In
  `HidDescriptor` a logical maximum is its width in bits.
* In `VhfDriver`, `stage` is how far `MtpEvtDeviceAdd` has come and `vhf` the
  device the library keeps, which `VhfHandle` should follow. `QueueReady` is the
  sequential dispatch `Driver.c:85` asks for; `VhfDelete` starts the deletion and
  `Deleted` is its return, which waits for running callbacks because of
  `Wait = TRUE`. A request is the contacts it lists and, independent of them, the
  count `active_contact_count`: the driver bounds it (`Driver.c:10`) and copies it
  into the report and the status (`Driver.c:18`, `43`) without comparing it with the
  TIP flags, so every combination is a request here. `Report` is what is made of
  it: the slots with Tip, and the count. `screen` is the last report Windows took.
  `attempt` is a history variable, what the last submission left in the context.
  `Receiver` takes a submission as one step that replaces what
  Windows sees or fails: this is `VhfReadReportSubmit` here.
* `TouchpadDevice` has five steps: the context is prepared, the touchpad arrives,
  a report is submitted, a status is queried, the touchpad leaves. `VhfDriver` maps
  `present` to a started virtual device, `shown` to the screen, `answer` to
  `reply`, and `tally` to `attempt` except between VHF's answer and
  `InterlockedIncrement`: a submission has happened when VHF answers, and that
  moment lies inside the request. Everything else the driver does, the steps under
  the lock, the stages of `MtpEvtDeviceAdd` and the feature callbacks included, is
  a step that cannot be seen. The promise is that the report and the status have
  the count of one request, not that the count is the number of contacts touched:
  that is the submitter's part.
* Operators named `Definition_What` next to a definition are its mutations,
  plausible bugs of that code. They are used by no specification; each property
  is known to be violated when one of them replaces its original.

## 3. What TLC checks

| run | properties | instance | result |
|---|---|---|---|
| `session` | `SessionTypeOK`, `SlotsInjective`, `PreviousMatchesSlots`, `TouchOnlyAfterHandshake`, `SlotOwnershipStable`, `ForgottenIsLifted`, `SlotAlwaysFound`, `RefusedByNumberOnly` | 3 identifiers, 2 positions, 2 slots, sequence modulo 3 | hold |
| `receiver` | `TypeOK`, `GhostFree`, `HostMatchesSession`, `BoundedHold`, `ResetHeals`, `ImplementsSurface` | as above, modulo 2, frames of up to 2 contacts, 2 messages per receive, 3 fragments, 1 failure, 1 stop | hold |
| `silent_peer` | `StaleTouchReleased` | 2 identifiers, 1 slot, with fairness | holds |
| `decoder` | `TypeOK`, `InStep`, `LimitOnlyOnBurst`, `OneProtocol` | header 2, contact 2, 2 contacts, receive 16 bytes, 3 messages in flight; every single message with up to 3 contacts announced and 2 sent, 2 identifiers | hold |
| `driver` | `TypeOK`, `HandleOwnsVhf`, `NothingRunsAfterCleanup`, `ReportsAsDeclared`, `ImplementsTouchpad`, `RequestCompletes`, `RemovalCompletes` | 2 slots, every request with up to 2 contacts and every count up to 2, 2 workers, 2 callback threads, 2 submissions in the life of a device, any number of restarts, with fairness | hold |
| `agent` | `TypeOK`, `QueueOrdered`, `NoStuckButton`, `WindowsHasLatest`, `GapOnlyBeforeReconnect`, `MultiFingerNotPressed` | queue of 3, 7 numbers, one and two hard fingers and button events, `Reordered`, no signals, any failed start | hold |
| `agent_live` | `SenderNotDeaf`, `OverflowEndsSession`, `StopsInTime` | queue of 3, 8 numbers, a resting finger and frames of too many contacts, `Reordered`, any signal or failed start, with fairness | hold |
| `bridge` | `TypeOK`, `NothingLeftOver`, `LiftReachesWindows`, `TouchReachesWindows`, `LeavesUnlessHeld` | queue of 1, 2 messages in a socket, backlog of 1, 1 fault, with fairness | hold |
| `full_frame`, `lift_lost`, `burst`, `agent_press` | one each | as their passing counterparts | violated, section 5 |

Why the bounds are enough. One contact more than there are slots is what makes
slots run out, be reused and change hands in one frame; two positions tell a lift
at the right place from one at a wrong place. The wrapping of sequence numbers
happens with any modulus. Receives are only told apart by completing no message,
one, or more than one. One failed submission and one stop show everything a
second one could, since a RESET report ends the effect of the first. A queue of
three is the smallest that lets both callbacks be in flight while messages wait;
seven numbers are HELLO, RESET, a full queue, the refused frame and one more,
which may be the HELLO of the next session; `agent_live`, without button events,
affords the eighth, its RESET. A signal only clears `running`, which no callback
reads, so it is left to that run, whose questions are about it. The decoder's limit, two of its longest messages, is
exceeded by three messages. The driver gets two workers so that the sequential
queue has something to forbid, two callbacks so that a removal can wait for one
while another comes, and a second submission to overwrite the first. `Bridge` needs a
socket that can fill, a queue that can overflow, one connection that waits behind
another, a burst of two where the decoder takes one, and a fault, a broken path or
a restart. Frames of three contacts, one more than there are slots, are judged in
`session`; `receiver` adds what becomes of the answer. What these bounds still
leave open for the safety properties, section 4 closes. The codec and the descriptor
have no state: TLC evaluates their formulas once, over the listed messages and
over the descriptor of the code itself, and `OneProtocol` and `ReportsAsDeclared`
ask for them where a message is judged and where Windows has the device. Symmetry is
used over contact identifiers, which the code only compares, in runs without
liveness.

`CHECK_DEADLOCK FALSE` appears in the agent's configurations only: after
`stop_agent` and with the sender thread gone, or with all `MaxSequence` numbers
given out, the agent may really stop. The others never do; in `Bridge` the fingers
go on moving when the agent has gone.

Fairness. `Receiver!FairSpec` assumes only that `main()` takes a step when it can
(`WF_vars(Step)`): `recv` has a 50 ms timeout and nothing else but `accept`
blocks for long. It assumes nothing of the peer, of stops or of restarts.
`MacAgent!FairSpec` assumes weak fairness of the sender thread and of running
callbacks and of `main()`, and strong fairness of the three acquisitions of `frame_mutex`, since
a mutex that is released again and again is eventually obtained. Fingers,
signals and the peer are not fair; in particular nothing makes it read, so a sender
in a full socket may stay there for ever. `OverflowEndsSession` and `StopsInTime`
except that case, and that case only, by `[]Blocked`; without the exception TLC
finds both violated. `VhfDriver!FairSpec` assumes weak fairness of
the driver's own code once it has been called, and that WDF calls the cleanup
callback of a device that is going away; nothing of who calls it. `Bridge!FairSpec` assumes weak fairness of the sender thread, of
the receiver, which is started again after a stop, of TCP finding out that nobody
acknowledges what was sent, and of a touched trackpad reporting again. The liveness properties of the agent end with
`sequence = MaxSequence`, where the bound stops the model.

## 4. What is proved

TLAPS checks every theorem and lemma of the eight proof modules. The assumptions
are the named ASSUMEs of the components: at least one slot, finitely many slots at
the driver, natural numbers for the limits, the timeout not beyond `AgeLimit`,
positive sizes, an agent's queue of more than two. There is no bound on
identifiers, slots, contacts, numbers, threads, connections, failures or stops.
Every safety invariant and every action property that a run checks of a component
is a theorem, except `ReportsAsDeclared`, and so are both refinements; each
inductive invariant was checked by TLC on the run's instance before it was proved.

* `TouchSessionProofs`. `SessionInvariant`, and from it `SessionTypeCorrect`,
  `SlotsNeverShared`, `TablesAgree` and `TouchNeedsHandshake`. Type correctness,
  injectivity and the agreement of the tables are inductive only together: a lift
  is built from `previous_contacts` at the slot `slots` names, and a new slot is
  free only if every slot in use is in `slots`. The agreement is stated for
  `error = "none"` because the throw in the loop breaks it; injectivity survives
  the throw. The main lemma is `MappingInjective`: new contacts are compared by
  their place in the frame, and the later of the two excluded the earlier one's
  slot. The action properties `SlotsStayOwned` and `ForgottenAreLifted` need one
  more invariant, `PreviousInSlots`: also after a throw, whatever is remembered is
  in `slots`, which is what lets the disconnect lift it.
  `EveryContactIsPlaced` says that the map `Mappings` describes exists and is the
  only one, so the model's choice of `slots'` is the code's and the throw of
  `TouchSession.cpp:173` is dead: contacts are placed in the order of the frame
  (`PlaceOneMore`), each in the lowest slot that is free (`LowestFree`), and one is
  free because the slots in use are no more than the contacts placed
  (`SlotsCounted`, `EmplacedFirst`). `RefusalIsByNumber` counts the contacts before
  the last new one (`LastNew`): it is the one that finds the map full, if any does.
* `ReceiverProofs`. `ReceiverInvariant`, and from it `TypeCorrect`, `NoGhosts`,
  `HostFollowsSession`, `HoldIsBounded` and `ResetComesFirst`. `GhostFree` says
  nothing about an open connection and is not inductive. The invariant adds where
  an exception can be in flight (`ErrorInv`), what Windows sees at every label as
  a function of the session and of the frame about to be submitted (`HostInv`),
  that exposed contacts can only meet a RESET report (`HealInv`), and how old
  held contacts can be at every label (`HoldInv`).
* `ReceiverSurfaceProofs`. `SurfaceIsImplemented`, the refinement: every step of
  the receiver is a `Report`, a `Clear` or a `Fault` of `TouchSurface`, or changes
  nothing of it. On top of `ReceiverInvariant` it needs `OwnerInv`, who is behind
  each slot. While `main()` waits, that is the session's own table; but while a
  report waits in `Submit` the session is already ahead of Windows, and what holds
  is `ReportFollows`: owners and new table agree on every slot, or the report
  clears. `AcceptedFollows` gives it for frames, from the same lemma about the
  tables as `SlotsStayOwned`.
* `StreamDecoderProofs`. `DecoderInvariant`, `DecoderTypeCorrect` and
  `LimitNeedsBurst`; the step in between is `Leftover`: `ParseAvailable` always
  leaves less than one message. `DecoderStaysInStep` is `InStep`. Its `Total` is a
  recursive function; the invariant carries the same sum as a relation (`Bytes`:
  some table of message ends exists), which appending and removing a message
  visibly preserve, and `BytesAreTotal` shows by a least counterexample that the
  table is the recursive function. `HeaderIsOfMessage` follows: the guard
  `wire # << >>` in the parser's actions excludes nothing.
* `VhfDriverProofs`. `DriverInvariant`, and from it `TypeCorrect`,
  `HandleIsOwner`, `SubmitsInTime`, `CleanupIsLast`, `StatusTellsScreen`,
  `LockIsFree` and `SnapshotWithoutLock`. The invariant says for every stage of the device what
  `VhfHandle`, the library and the threads can be (`StageInv`, `RunningInv`), and
  for the worker inside the lock which of the status fields it has written
  already (`StatusInv`). That a query copies without the lock is harmless only
  because the queue is sequential: no worker is in `submit` while one is in
  `query`. `DriverIsTouchpad` is the refinement of `TouchpadDevice`. It needs
  `TouchpadInv` besides: a device that is not started shows nothing, one that is
  being prepared has counted nothing, and a submission is counted once. Its cases
  are `PnpFollows` (only `VhfStart` and `VhfDelete` are seen), `WorkFollows` (only
  `VhfReadReportSubmit` and `QueryStatus` are; `CountSubmit` leaves the tally as
  VHF's answer had made it) and `CallbackUnseen`. Four
  theorems say in the driver's own variables what the refinement or the invariant
  implies, and no run repeats them: `SubmitsInTime`, a report is submitted to a
  started device only; `StatusTellsScreen`, between requests the status of an accepted
  submission has the count of the report Windows has, and if every request's count
  is the number of its touching contacts (`RequestsCounted`), it counts what Windows
  shows. The driver does not check that assumption; the receiver, its only client,
  keeps it: `TouchSession.cpp:93-95` counts the contacts it writes with TIP, and a
  release (`132-147`) has neither; `SnapshotWithoutLock`, a reply is what the last submission left;
  and `LockIsFree`, no worker waits in `WdfWaitLockAcquire`, the part of
  `RequestCompletes` that is a safety property.
* `MacAgentProofs`. `AgentIsInvariant`, and the theorems for `TypeOK`,
  `QueueOrdered`, `SenderNotDeaf`, `MultiFingerNotPressed`,
  `GapOnlyBeforeReconnect`, `WindowsHasLatest` and `NoStuckButton`, signals,
  reordered stores and overflows included. The parts build on each other: types
  and who holds `frame_mutex`; `OrderInv`, the queue against the number a callback
  still holds; `ReconnectInv`, which of `connected` and `reconnect_requested` each
  label of the overflow path and of the opening leaves behind; `OpenInv` and
  `StoresInv`, what a session that no callback was carried into starts from;
  `NumbersInv`, that its receiver expects exactly the next number that is queued,
  held or given out; `WorkingOn` and `Arriving`, that the newest thing under way is
  the latest frame; `ButtonInv`, that the button of that frame is the trackpad's or
  somebody is about to correct it.
* `BridgeProofs`. `BridgeInvariant`, `TypeCorrect` and `NoLeftOvers`.
  `NothingLeftOver` speaks of a moment at which nothing is under way and is far
  from inductive. `LatestInv` follows the newest frame backwards through the
  queue, the sender, the socket and the receiver: wherever it is, it is what the
  fingers do or the RESET. It needs `SessionInv` (no frame and no socket survive a
  session) and `OpeningInv` (a receiver that has emptied the newest connection has
  taken its RESET), and `TypeOK`, of which "only the last connection is live" is
  the part that makes a broken path harmless.
* `Mtp1CodecProofs`. The codec has no state, so there is no invariant: the theorems
  are about every message, list of touches and size. `ReadersNeverDisagree` and
  `AgentIsUnderstood` are the two halves of `OneProtocol`, which
  `OneProtocolAlways` states of the stream decoder. Two more say that the modules
  next to the codec are given what they assume. `HeaderFixesMessage`: a header
  `ValidateHeader` accepts belongs to a message of `StreamDecoder`, its length is
  the one `Size` counts and never more than `kMaxMessageSize`, and once all its
  bytes are there only the contacts can be refused. `DecodedIsSessionInput`: of a
  message with any number of contacts, what is handed on has as many as its header
  says (`OneCount`: a payload is the length of one number of contacts only), no
  identifier twice, finite numbers, and nothing in a HELLO or RESET.

Only model-checked:

* Liveness (`StaleTouchReleased`, `RequestCompletes`, `RemovalCompletes`,
  `OverflowEndsSession`, `StopsInTime` and the three properties of `Bridge`): the
  prover has neither fairness nor ENABLED.
* `ReportsAsDeclared`: it evaluates one descriptor, the code's, which has no
  parameter to generalise over, so TLC's evaluation is complete; the reading is a
  fold over its items, which the provers cannot compute.
* The four properties of section 5 are violated, so there is nothing to prove.

## 5. Where code and documentation disagree

Each of these is a run in which TLC finds the documented property violated.

| run | code | what is documented |
|---|---|---|
| `full_frame` | a contact that leaves in a frame still occupies its slot while that frame's new contacts are placed: with five fingers down, replacing one closes the connection | "more than five active contacts", `TouchSession.cpp:59` |
| `lift_lost` | mappings are erased before the frame is submitted; after a failed submission the release does not cover them | `docs/WINDOWS_HANDOFF.md:171` |
| `burst` | a fault-free stream is refused when a receive of up to 4096 bytes exceeds the 952 bytes the decoder allows before parsing | `docs/WINDOWS_HANDOFF.md:26`, `43-53` |
| `agent_press` | what the pressure rule has counted survives a reconnect, during which a lift goes unseen, and a new touch presses too early | `docs/MAC_DEVELOPMENT.md:62-63` |

Met on the way and not kept as runs of their own:

* The 200 ms rule of `docs/WINDOWS_HANDOFF.md:146` is looked at only when `recv`
  times out (`windows/receiver/main.cpp:119`). Receives that bring part of a
  message postpone it; `BoundedHold` states by how much.
* The driver gives a report without a scan time, which every release is, the next
  value of a counter of its own (`windows/driver/Driver.c:17`), not the
  `capture_time_us / 100` of `docs/MAC_HANDOFF.md:78`.
* When the process ends nothing is released (`windows/receiver/main.cpp:142`),
  although `docs/WINDOWS_HANDOFF.md:143-149` asks for it, and the driver has no
  handler for its client going away, although line 190 of that page gives it the
  "fail-safe contact release". `GhostFree`
  therefore excepts a surface that is `exposed`, and `ResetHeals` says that the
  next RESET clears it.
* Without the condition `~carried` TLC finds `NoStuckButton`, `WindowsHasLatest`
  and `GapOnlyBeforeReconnect` violated: a callback that was
  stalled over a whole reconnect puts its old frame, button included, into the new
  session (`docs/MAC_DEVELOPMENT.md:54-57` promises otherwise).
* An overflow leaves a gap in the numbers, and the sender may take and send the
  frame after the gap on the old connection before it sees the reconnect request.
  The receiver then closes the connection, which is what the agent was about to
  do. `GapOnlyBeforeReconnect` states exactly this much.

* "Stop with `Ctrl-C`. The agent reconnects automatically while it remains running"
  (`docs/MAC_SETUP.md:82`), and "If the bounded queue overflows, the agent
  reconnects" (`docs/MAC_DEVELOPMENT.md:84-85`). Neither holds while the receiver's
  host is alive and nobody reads: a receiver held by a connection whose path has
  broken never accepts the next one (`windows/receiver/main.cpp:116-124` ends no
  connection for its silence), the agent streams into the backlog, and once
  the socket is full `send` blocks without a time limit (`mac/Agent/main.c:254`; no
  `SO_SNDTIMEO` at `285-288`). The sender then sees neither the reconnect request
  nor the stop, and `main()` stays in `pthread_join`. This is the exception
  "held receiver" of `TouchReachesWindows` and `LeavesUnlessHeld`, and `[]Blocked` in
  `OverflowEndsSession` and `StopsInTime`.
* The pressure rule is skipped for a frame with more contacts than fit as well
  (`mac/Agent/main.c:361`), with the same effect on the count as being
  disconnected; such a frame is no touch of `agent_press`, whose question is the
  reconnect.

## 6. Not modelled

* Of the MTP1 codec: byte order and offsets, float conversion and clamping (a
  position is opaque everywhere). Of the report descriptor: physical units, and
  the meaning of usages.
* In the driver: scan times, the feature counters and `FunctionSwitch`, the fields
  of a status that a feature callback may be writing while they are copied.
* Of the agent: what `main()` does before it creates the sender thread (arguments,
  loading the framework, finding the device), the trace file and the counters.
* The probe, which only records what the trackpad reports, and the scripts.
* In `MacAgent`, TCP's own losses: what is sent is received in the same step, or
  refused. Half-open connections and the backlog are in `Bridge`; a full socket is
  in both, here without saying why nobody reads.
* The receiver's parse/log mode without a driver.

## 7. Plan

1. *Done:* `TouchSession`, `Receiver`, `StreamDecoder`, `MacAgent`, `VhfDriver`,
   the pure modules `Mtp1Codec` and `HidDescriptor`, `Bridge` end to end, and
   `TouchSurface` with its refinement, with their runs.
2. *Done:* proofs of all safety invariants and action properties of the
   components but `ReportsAsDeclared`, of both refinements, and of the codec for
   every message (section 4).
3. Open: liveness, which stays with TLC.
