# A TLA+ verification of objtrsf

objtrsf is a transport: encrypted, connection-oriented packets (`objproto`) over UDP, WebSocket,
vsock or plain streams (`transport`), QUIC-like reliable streams and datagrams on top of a connection
(`trsf`), and remote command execution on top of a stream (`exec`). This directory holds TLA+
modules translated from that source, the TLC configurations that check them on small instances,
and proofs for the TLA+ proof system. `PROJECT.json` maps each definition to its source lines.

## 1. Inventory

| Component | State it keeps | Operations | Hard behaviour | What makes it correct |
|---|---|---|---|---|
| Packet number tracker, ACK codec (`trsf/pn_track.go`, `wire.go`) | sorted ranges of received, unacknowledged numbers; one-slot notification | `InsertUnacked`, `GenerateACK`, `TransferACK`, `ParseTransferACK` | arrival in any order with gaps; unsigned subtraction; notification shared with other wake-ups | an ACK covers exactly what it took; an owed ACK wakes the loop |
| Send stream (`trsf/send_stream.go`) | input buffer, offset, tracked ranges, retransmission queue, EOF and open-marker flags | `AppendData`, `Close`, `triggerPacket`, `onACK`, `onLost`, `Completed` | split on MTU change, ACK overtaking a loss, pointer identity of ranges | no byte or EOF misplaced, none retired before it arrived, none stranded |
| Receive stream (`trsf/recv_stream.go`, `ordering.go`, `finished_stream.go`) | sorted chunk queue, read position, EOF | `ProcessChunk`, `ReadDirect`, removal after a grace period | overlap, duplicates, EOF first, removal racing retransmission | the reader sees a prefix of what was written; EOF only at the end |
| Flow control (`trsf/flow.go`, both streams) | credit on both sides, buffer limit, requests to the loop | `UpdateWindow`, `onWindowAck`, `Cancel`, `onCancel` | updates lost, repeated and overtaken; EOF at zero credit; a writer waiting for room | the sender stays within its credit; freed credit gets there; the stream ends |
| Loss detector (`trsf/ack_handler.go`) | outstanding packets, three counters, loss/PTO timer, statistics | `OnSent`, `ReceiveACK`, `OnTimeout` | late ACKs, PTO copies, packets outside the window, changing RTT | counters equal the sums they stand for; one verdict per packet; timer armed iff needed |
| Run loop and queues (`trsf/conn.go`, `queue.go`) | trigger queues with one-slot notifications, parked streams, datagram channel, deadlines | `run`, `handlePacket`, `nextWakeDeadline`, `trySendDatagram`, `Push`/`Pop` | lost wake-ups, self-notification, congestion parking | work is never left with nothing to wake the loop; the loop does not spin |
| Path MTU (`trsf/mtu/plpmtud.go`) | search range, probe, loss counts, periods, black-hole evidence | `Probe`, `OnACK`, `OnLost`, `OnLargePacketLost`, `NextDeadline` | probes racing fall-back and re-probe; idle connections | the range stays sound; the estimate is proven and settles; probing never stops |
| Endpoint (`objproto/objproto.go`, `session.go`) | handshakes sent, active connections, proxies | handshake with retransmission, rehandshake, `SetProxy`, `Close`, `CannotSend`, collection | lost, late and repeated handshakes; several ways to end a connection | nothing ended twice or by nobody; a dial fails only if refused; no ghosts |
| Secure channel (`objproto/objproto.go`, `control.go`) | nonce ranges, send and receive phase, three receive keys | `InsertNonce`, `Seal`, `receiveApplication`, `UpdateKey` | replay, reordering across key updates, numbers consumed before they are sealed | accepted once, nothing fresh refused, the right key |
| Message channel (`objproto/message.go`) | bounded channel, reorder buffer, fallback goroutines | `SendMessage`, `ReceiveMessage`, `CloseChannel` | close racing send and receive | no send on a closed channel; all messages arrive, in order |
| Transport legs (`transport`) | address → stream map, bounded queues | dial, send loop, readers, fan-out, `CloseConnectionsAt` | locks held over blocking sends; replaced and dying streams | no deadlock; a connection rides the stream published for it |
| Command execution (`exec`) | goroutines around a child process, and of the client | start, frames both ways, kill, exit, detach | exit racing output, input and cancellation | output complete; killed for a documented reason only; session and pump return |
| Congestion, pacing, RTT (`trsf/congestion`) | window, budget, estimates | `RecordACK`, `RecordLoss` | floating-point measurements | not modelled |

Interaction: applications and the receive goroutines only push onto queues and send on one-slot
channels; one run-loop goroutine per connection pops, calls the streams (`triggerPacket`,
`ProcessChunk`), the MTU tracker and the loss detector, and hands packets to `objproto`, which numbers,
seals and queues them; a fan-out goroutine passes them to a transport leg, whose send loop writes them.
Verdicts come back as callbacks (`OnACK`, `OnLost`) made by the loss detector from inside the run loop.
Received packets go from a leg's reader through `objproto` into a connection's message channel, which
`trsf` reads. `exec` uses one bidirectional stream per command.

The hazards this gives rise to are listed, with the source line and the properties aimed at each, in
`PROJECT.json`.

## 2. Modules

| Module | Models | State | Actions |
|---|---|---|---|
| `AckRanges` | range list and wire form of an ACK | none (operators) | `InsertInto`, `TransferACK`, `decodeRanges`; unsigned arithmetic modulo `2^Width` |
| `PacketNumTracker` | `trsf/pn_track.go` | ranges, `largestPN`, `recvAdded`; history: what arrived, was taken, was decoded by the peer | `InsertUnacked`, `GenerateACK` |
| `OrderingQueue` | `trsf/ordering.go`, `recv_stream.go` | set of chunks, `nextOffset`, `eofReached`, delivered bytes | `ProcessChunk`, `ReadDirect` |
| `SendStream` | `trsf/send_stream.go` | `dataInBuffer`, `offset`, `sentRanges`, `retransmitQueue`, flags, presence on the send trigger | `AppendData`, `Close`, `Verdict`, `TriggerPacket`, `NothingToSend` |
| `StreamTransfer` | one stream end to end: composes the three above with the sender's loop, loss detector, a network and the receiver's loop | plus outstanding packets, packets and ACKs under way, the receive table entry, the payload room | application, run-loop, verdict, network and receiver actions |
| `ReliableStream` | what `trsf/api.go`'s `SendStream` and `ReceiveStream` promise | bytes written, closed, bytes read, ended | `Write`, `Read` |
| `FlowControl` | `trsf/flow.go` and the flow-control half of both streams and of the loop; composes `OrderingQueue` | writer, buffer, credit, read position, requests, packets of three kinds | writer, reader, the loops' sections, delivery, verdicts |
| `SentPacketHandler` | `trsf/ack_handler.go`, with time | outstanding packets with size, kind and sending time; counters; timers; statistics; history of what callbacks and controller were told | `OnSent`, `ReceiveACK`, `ReceiveStaleACK`, `OnLossTimeout`, `OnPTO`, `Tick` |
| `RunLoop` | `trsf/conn.go` `run`, `trsf/queue.go` | program counter of the loop, queues with their notification slot, datagram channel, parked streams, outstanding packets | one action per section of the loop, one per call other goroutines make |
| `MTUTracker` | `trsf/mtu/plpmtud.go` against a path | range, probe, counts, periods, evidence; the path and what crosses it | `Probe`, `SendLarge`, `Resolve` (ACK or loss), the periods' ends, `OnPeerActivity`, `PathChanges` |
| `NonceTracker` | `receiveNonceTracker` | none (operators) | `InsertNonce` and its dry run |
| `SecureChannel` | one direction of a connection: numbering, sealing, phases, opening; composes `NonceTracker` | counters and phases of both ends, keys kept, packets under way | `ConsumePacketNumber`, `SendMessage…`, `UpdateKey`, `sendControl`, delivery, loss, time |
| `Endpoint` | the tables of several endpoints | pending handshakes, connections and their keys, proxies, packets under way | one per API call, packet kind, collector |
| `MessageChannel` | `objproto/message.go` | channel, reorder buffer, fallback goroutines, close | `SendMessage`, its goroutines, `CloseBegins/Ends`, `ReceiveMessage` |
| `Transport` | `transport/stream.go`, `multileg.go`, `underlay_close.go` and the locks of `objproto.go`; composes `MessageChannel` | lock holders, queues, tables, streams, a program counter per goroutine | one per step of a goroutine between blocking points |
| `ExecSession` | `exec/exec.go`, `exec_stream.go`, `exec_shell.go`, `proctree_unix.go` | the stream in both directions, child and what it left, the goroutines of runner and client | one per step of a goroutine, of the child, of a timer |
| `MCStreamTransfer`, `MCEndpoint`, `MCPacketNumbers` | – | – | the application's writes; a dialer, a relay and a target; the three books of packet numbers (`SecureChannel`, `PacketNumTracker`, `SentPacketHandler`), one kept at a time, as no two share a variable |
| `StreamTransfer_proofs` (also of `PacketNumTracker`), `FlowControl_proofs`, `SentPacketHandler_proofs`, `RunLoop_proofs` (also of `MTUTracker`), `SecureChannel_proofs`, `Endpoint_proofs`, `ExecSession_proofs`, `Transport_proofs` | – | – | inductive invariants and theorems |

Choices a reader should know:

- **Bytes are identities.** Byte *k* the application wrote is the number *k*; a range or chunk is its
  offset in the stream and, separately, the position of its payload in what was written
  (`Data`). The code keeps the two apart (an offset field and a slice), and a split moves both, so
  the models do too; the properties compare them at the reader.
- **Ranges have identity.** `sentRanges` is matched by pointer in the code; a range carries a fresh id.
- **The chunk slice is a set.** `ordering.go` keeps at most one chunk per offset, sorted; "the next
  chunk" is the one with the least greater offset.
- **Time.** `SentPacketHandler` has a clock. `StreamTransfer` and `RunLoop` let an armed timer expire
  at any moment, except that a PTO while an answer is still under way is counted against
  `MaxSpurious`, and in `StreamTransfer` packets are declared lost in sending order, which
  `LossTimeIsEarliest` justifies. `MTUTracker`, `SecureChannel`, `Endpoint` and `ExecSession` abstract an
  instant to what the code compares it for: whether the interval that starts at it has passed.
- **Packet numbers.** `objproto` never delivers a packet number twice (`ReplayFilterExact`), so the
  network of `StreamTransfer` loses and reorders but does not duplicate; other packets consume
  numbers, so the receiver sees gaps without loss.
- **Keys are identities.** A connection's keys are the pair of hello and answer that made them; a packet
  opens exactly under the phase it was sealed under.
- **A pass of the loop.** `RunLoop` cuts an iteration where another goroutine can be observed: the
  pop of a received packet, the select, the timer check, the datagram pass, the pops with the
  branch they lead to, the probe. The locals of an iteration (`expired`, `isPTO`) are variables.
- **Locks.** `endpointLock` is Go's `RWMutex`: a waiting writer keeps new readers out. A critical section
  that cannot block is one step; one that can (a send on a bounded queue, `CloseChannel`) is two.
- **Shared stream.** `ExecSession` takes a stream to be what `StreamTransfer` and `FlowControl` show it to
  be: frames in order, bounded, an end, a cancel.
- **Mutants.** Operators commented "Mutant of ..." or "Seeded fault" are not part of the model; each is a
  plausible error in the definition below it, and the property it belongs to catches it.

## 3. Runs

Passing runs:

| Run | Instance | Checks |
|---|---|---|
| `transfer` | stream opened here, 4 bytes with EOF, payload room 2 or 4 with one change, one loss, one reordering and one foreign packet number of which two happen together, window 2 | `InOrder`, `EofIsLast`, `NothingForgotten` (`UntrackedHasArrived`, `CompletedHasArrived`, `NothingStranded`), `Implements`, `FairlyImplements`, `EventuallyReaped` |
| `packet_numbers` | the channel: 5 numbers, floor of 3 and limit of 4 packets, one loss, one repetition, reordering by one, two numbers reserved; the receiver: numbers 0..5, 6-bit integers, all orders, all interleavings with ACK passes; the sender: 3 packets of 4 kinds and 2 sizes, 2 RTTs, ring of 2, time 1..5 | `ReplayFilterExact` (`AcceptedOnce`, `TrackerExact`), `KeyChosenRight`, `NotStranded`; `RangesNormal`, `AcksExact` (`NeverAcksUnreceived`, `EncodedAckIsExact`), `OwedAckWakesLoop`; `BooksBalance` (`CountersExact`, `WindowConserved`, `SpuriousWasCounted`), `TimerSound` (`TimerCoversOutstanding`, `LossTimeIsEarliest`, `TimeoutHasWork`), `OneVerdict` |
| `loop` | one stream, window of 1, two requests from window updates, cancels, datagrams, arrivals and MTU probes, one expiry | `NothingStranded` (`SleepsOnLittle`, `AckIsPrompt`, `NothingOrphaned`), `StreamsFinish`, `ComesToRest` |
| `flow` | window, buffer and packets of 2, 3 bytes written in any pieces, one fault, reading or cancelling at any time | `TypeOK`, `WithinCredit`, `CreditOnItsWay`, `StreamEnds` |
| `mtu` | sizes 1..4, 2 packets in flight, 3 losses by congestion, one change of path | `SearchRangeSound`, `KeepsProbing` (`WaitsForAProbe`, `ConvergedIsTimed`), `RisesToProvenSize`, `SettlesOnPath` |
| `endpoint` | dialer, relay with two sides, target; 2 hellos, 3 connections, one retransmission each, 2 proxy exchanges, one network fault | `TypeOK`, `EndsOnce` (`NeverClosedTwice`, `NothingLost`), `ExpiresOnlyRefused`, `GhostsCollected` |
| `transport` | queues and channel of depth 1, two streams, two dials, one retransmission, two data packets, two packets of another connection, three messages, of which four happen together, a retransmission counting for three | `TypeOK`, `NoSendOnClosed`, `RidesPublished`, `MessagesArrive`, `LocksGranted` |
| `exec` | pipes, `/dev/null` or pty, with and without tree kill; 2 input frames, in any order with the end of input, 2 chunks of output and the loss of the connection, of which three happen together, the loss counting for two; room for 1 | `TypeOK`, `OutputComplete`, `KilledOnRequest`, `SessionReturns`, `PumpReturns` |

Type invariants are checked by these runs, as a property or a conjunct of one, and proved for every module with a
proof module (for `SentPacketHandler`, `PacketNumTracker` and `SecureChannel` as a part of `BooksBalance`, `RangesNormal` and `ReplayFilterExact`).

Why the bounds are enough for what they are used for: six packet numbers allow two gaps, a merge on either
side and a number above all ranges; four bytes after a change of room from 4 to 2 give a split whose head and tail
are lost and acknowledged independently; three packets allow an acknowledged one between two suspects; a window of
one packet makes every second packet meet the congestion gate; three bytes against a window of two need an update,
and one fault loses it, repeats it or delays its ACK past the next; four sizes leave a search of more than one step in both
directions, and three losses make a verdict on one size wrong; five numbers with a floor of three allow two advances
of which the first is overtaken; a relay has the only endpoint with two sides; two datagrams are the burst that shares a notification;
depth one makes every queue full, two senders are what it takes to block one behind the other, and two streams with one retransmission or
two dials what it takes to have two to one peer; one slot of room makes each direction of a session block. `CHECK_DEADLOCK FALSE` is set where
the behaviour ends because the transfer, the dials or the session are over, or a bound is used up. The bounds named `Max...` only
cut exploration, and the theorems hold for every value of them.

Two bounds also exclude a behaviour in which a property fails: `MaxRoomChanges` 1, which counts the changes a tracked range has met (run
`transfer_splittwice`), and `LongGrace` (section 4). Other failures are inside the instances, and the properties name them as exceptions: `shared` and `HoldsProbe`, `PushesBack` in `RunLoop`,
`doubled`, `Jammed` and `Stalled` in `Transport`, `Starved` in `FlowControl`, `Forgotten` in `MTUTracker`, `HeldByOrphan` and `Jammed` in `ExecSession`. `MaxReorders` 1, and `MaxTrouble` 2 for losses, reorderings and
foreign numbers together, keep `transfer` small; some finite bound on reordering is also what makes its liveness true:
with unbounded reordering a receiver can always be left with two ranges one packet apart, whose ACK cannot be expressed, and a
sender can retransmit for ever without learning anything; `NothingForgotten`'s safety parts were also checked with free
reordering and one MTU change.

Runs that show the code and its comments disagree; each is described in `PROJECT.json` with both quoted:

| Run | Statement | What happens |
|---|---|---|
| `transfer_splittwice` | `CompletedHasArrived` | with two MTU changes, chunks of different length meet at one offset; the longer is discarded yet acknowledged |
| `exec_input` | `InputHandlerEnds` | the child exits, the stdin copier ends, the next stdin frame blocks the input handler, the errgroup and the session |
| `loop_burst` | `SleepsOnNothing` | two datagrams share a notification; the second takes the pass that a queued stream's notification woke, and the loop sleeps on the stream |
| `transport_twostreams` | `ClosesOnlyTheDead` | a retransmitted hello dials a second stream; the end of one stream closes the connection that rides the other, published and working |

## 4. Observations

What was met while modelling and has no run of its own.

`trsf`:

- `InsertUnacked` (`pn_track.go:59`): a number above the last recorded range, with a gap before it, matches no branch; it is
  neither recorded nor notified, no ACK ever covers it, and its sender declares it lost. Packets 0 and 2 show it. The comment at
  `pn_track.go:99` says "the next ACK covers packets that arrive after this one". In the other order both are recorded, and
  `TransferACK`'s `begin - r.End - 2` (`wire.go:99`) wraps, so that the ACK is refused after its ranges were cleared.
- `scheduleRecvStreamRemoval` (`conn.go:604`): the grace period starts with the EOF *frame*, though earlier bytes may be missing;
  their retransmission is then acknowledged and dropped. `conn.go:516-518` calls this one of "the two events after which only
  late duplicates can still arrive". `LongGrace` keeps it out of `transfer`.
- `run` (`conn.go:880-886`): a window update or a cancel popped behind a closed congestion window is pushed back and notifies the loop's own select, so the loop
  spins until an ACK opens the window; a TODO stands beside it. Streams are parked instead, as the comment at 887 explains. `PushesBack` is the exception in `ComesToRest`, which asks no answer of the peer.
- `sendDatagram` checks the size at the call (`conn.go:1197`); `trySendDatagram` (`conn.go:1242`) does not again, so a datagram admitted before the MTU fell back is sent at its old size.
- `requeueIfMore` looks at the buffer and the EOF but not at the retransmission queue, so a stream with a second queued
  retransmission leaves the trigger until the next verdict on one of its packets; nothing is stranded all the same.
- A stream cancelled by a reader that leaves while the sender's credit is used up never sends its EOF (`send_stream.go:381`), and its sending half
  stays in the table: `Starved`, the exception in `StreamEnds`.
- `fallBackToBase` forgets a probe in flight; its late answer is taken for a later probe's, although the comment says "so neither needs an
  epoch counter". `Forgotten` is the exception in `RisesToProvenSize` and `SettlesOnPath`.
- `NextDeadline` (`plpmtud.go:300`) returns the present when a validation is overdue, because "the wake that follows issues a probe"; with
  the congestion window closed the pass does not get as far, and the loop wakes with no delay until an ACK arrives: `HoldsProbe`, the other exception in `ComesToRest`.

`objproto`:

- Where both sides dial the same id at once (mutual mode), `receiveHandshakeAck` does not look at `activeConnections` and replaces a live
  connection, against `objproto.go:939-941`. `NothingLost` is checked, and proved, where no side both dials and responds; `NeverClosedTwice` is
  proved without that restriction.
- The ack of a hello that a second dial replaced completes the newer dial with keys nobody holds; the connection is a ghost until it is collected (`GhostsCollected`). The hello whose ack was taken
  in this way may later expire without any endpoint having turned it away; it counts as `refused`. The attempt to prove `ExpiresOnlyRefused` showed that this case had to
  be named: before, the property held only because the instance was too small for it.
- `Close` while a rehandshake for a proxy is under way finds no connection in the table and does nothing.
- `addActiveConnection` (`objproto.go:918`) sends on `newActiveSess` under `endpointLock`: with nobody accepting, the 1025th connection stops the endpoint.
- `sendPacket` blocks under the lock. The packet the send loop has just taken leaves a slot for one sending goroutine; of two blocked at once the second keeps the lock
  that `CannotSend`, called by that loop, waits for, and nobody moves again (`Jammed`, in `LocksGranted`). A write to a stream has no deadline (`stream.go:232`): while a peer does not read, everything
  behind the loop waits (`Stalled`). `LocksGranted` shows that there is no third way. Nothing in the repository says otherwise of either, so neither is listed as a finding.
- A number consumed before a key update and sealed after it is opened with the wrong key and dropped; `SealedInOrder` and `tidy` are the premises that leave this out of `KeyChosenRight` and `NotStranded`.

`transport`: a dial slower than the retransmission delay (333 ms, against a timeout of 10 s) meets a retransmitted hello, which dials a second stream, and so does a second dial of the peer while a hello of
the first is under way. The connection may then ride one stream and be published on the other (`doubled`, in `RidesPublished`), and what the end of one of them does is `transport_twostreams`.

`exec`: a process that outlives its parent and keeps the output open holds up the session, with `KillProcessTree` too once the child has exited by itself
(`HeldByOrphan`); the wait goroutine closes a pty while output may still be in it, so that `OutputComplete` is stated for pipes; `PumpTerminalIO`
never reads standard error, so a runner that sends it blocks the demultiplexer. Data sent after the end of input fails the session and kills the child, with pipes too, as `exec.go:152-154` warns; so does a
lost connection (`exec_shell.go:98`: "kill-on-disconnect"). Both are reasons that `KilledOnRequest` names.

## 5. Fairness

- `StreamTransfer`: weak fairness of the sender's passes, of ACKs and timers, of receiving and acknowledging, and of the reader. The loops are
  goroutines that the Go scheduler runs; timers expire; delivery is fair because the network's drops are separate, bounded actions;
  reading is the application's duty, without which no stream finishes. Writes and `Close` are not fair.
- `RunLoop`: weak fairness of the loop as a whole, whichever ready channel its select picks; `ComesToRest` asks for no more. `StreamsFinish` has the peer's answers as its premise
  (`PeerAnswers`). Nothing the applications do is fair.
- `FlowControl`: the loops and the peer's answers, and the application closes the stream in the end; a reader that has not left reads.
- `MTUTracker`: weak fairness of probing and of verdicts; strong fairness of the two periods' ends, since the clock runs on whatever else happens.
- `Endpoint`: the collector and time only. Nothing is asked of the network.
- `Transport`: every goroutine that can go on does, but for a write to a stream, which takes a peer that reads. Streams need not break, the peer need not send, the application may stop.
- `ExecSession`: goroutines, timers, kills and the stream's cancel. Nothing is asked of the child, of what it left running, of the keyboard or the caller.

## 6. Proofs

For every value of the constants that satisfies the named assumptions (sizes and bounds are natural numbers, a packet holds at least
two bytes, the base is below the ceiling, and the few listed below):

| Module | Theorems (and the run property each states) |
|---|---|
| `StreamTransfer_proofs` | `Invariance`, `TypeCorrect`, `DeliveryInOrder` (`InOrder`), `NoEarlyEof` (`EofIsLast`), `Refinement` (`Implements`), `NeverStranded`, `ForgetsNothing` (`NothingForgotten`); of the packet number tracker: `TrackerInvariance`, `TrackerRangesNormal` (`RangesNormal`), `TrackerAcksExact` (`AcksExact`), `TrackerWakes` (`OwedAckWakesLoop`) |
| `FlowControl_proofs` | `FlowInvariance`, `SenderWithinCredit` (`WithinCredit`), `CreditArrives` (`CreditOnItsWay`), `FlowTypeCorrect` (`TypeOK`) |
| `SentPacketHandler_proofs` | `HandlerBooksBalance` (`BooksBalance`), `HandlerTimerSound` (`TimerSound`), `HandlerOneVerdict` (`OneVerdict`) |
| `RunLoop_proofs` | `StreamsStayFound`, `NeverSleepsOnWork` (`NothingStranded`); of the MTU tracker: `MTUInvariance`, `MTUTypeCorrect`, `MTURangeSound` (`SearchRangeSound`), `MTUKeepsProbing` (`KeepsProbing`), `MTURisesToProvenSize` (`RisesToProvenSize`) |
| `SecureChannel_proofs` | `ChannelReplayFilter` (`ReplayFilterExact`), `ChannelKeyChosenRight` (`KeyChosenRight`), `ChannelNotStranded` (`NotStranded`) |
| `Endpoint_proofs` | `EndpointTypeCorrect` (`TypeOK`), `EndpointNeverClosedTwice`, `EndpointEndsOnce` (`EndsOnce`), `EndpointExpiresOnlyRefused` (`ExpiresOnlyRefused`) |
| `ExecSession_proofs` | `ExecTypeCorrect` (`TypeOK`), `ExecOutputComplete` (`OutputComplete`), `ExecKilledOnRequest` (`KilledOnRequest`) |
| `Transport_proofs` | `Invariance`, `TypeCorrect` (`TypeOK`), `NeverSendsOnClosed` (`NoSendOnClosed`), `RidesThePublished` (`RidesPublished`) |

Assumptions and hypotheses worth naming. The provers know nothing about powers, so three modules assume what arithmetic says of them, and TLC
evaluates it: `2^Width = 4 * 2^(Width - 2)` (`AckRanges`), `2^CounterWidth` is a number (`SecureChannel`), `2^n` is a positive number (`SentPacketHandler`). The tracker's
numbers stay below `2^(Width - 2)`, where the code has 62-bit numbers in 64-bit integers. `NetworkAssumption` of the secure channel (losses and reordering together below
the floor of packets between key updates) is the premise the code's comment gives for its two keys. `EndpointEndsOnce` has the hypothesis that no side both dials and
responds, without which it is false (section 4), and `EndpointExpiresOnlyRefused` that a dial retransmits as often as the network fails, which is what the property is about.
`ForgetsNothing` has the hypothesis that the grace period outlasts recovery (`LongGrace`) and is about the states in which no range has met two changes of the payload room (`roomChanges <= 1`); in the others
it is false (`transfer_splittwice`). `NeverSleepsOnWork` and `RidesThePublished` have no hypotheses; the properties themselves say what a burst of datagrams and a doubled dial take away.
All of these hold of the checked instances.

**Stream transfer.** `InOrder` speaks only of delivered bytes and is not inductive: what is delivered comes out of the queue,
the queue from the network, the network from the tracked ranges and the retransmission queue, and those
from splits of one another. `Inv` therefore says the same of every place a byte can be: `Placed(c)`
(payload position equals offset, the end lies within what was handed over, and the EOF flag only on the
piece that ends at the last byte of a closed stream) for every tracked range, queued retransmission,
outstanding packet, packet in the network and chunk in the reassembly queue. It adds that `offset` never
passes `dataInBuffer` and that the EOF is handed over last. Three facts carry the weight: both fragments of a split of a
placed range are placed (`SplitFacts`); a verdict only moves ranges between places (`VerdictFacts`); reading a run of covered
bytes from placed chunks delivers the next bytes in order and leaves a trimmed chunk that is placed (`ByteAtOffset`,
`TrimmedFacts`, `AppReadInv`). Refinement follows: `delivered` is always `Prefix(nextOffset)`, so a read is a `Read`, a
write is a `Write`, and every other action leaves the four mapped variables alone.

**Nothing forgotten.** The reassembly queue ignores a chunk that starts below the read position or at the offset of a stored one, whatever its length, and the packet is acknowledged all the same. That
an acknowledged range has arrived is therefore no local fact: it needs that a chunk which is ignored has arrived already, as a whole. `TransferInv` says why it has.
`ShapeInv`: any two ranges or chunks that share a byte start a multiple of the payload room apart, and of two that end apart the one that ends first is exactly one room long
(`CutAlike`); before the room changes, ranges that share a byte are the same range. `WholeInv`: within a range, away from the points where it can still be cut, the receiver has
both neighbouring bytes or neither (`Joined`), and the EOF with the last byte. So a chunk has arrived entirely or not at all (`AllOrNone`), and the one dropped had (`DroppedChunk`). `AckInv` carries the
result: a packet whose number was recorded, in the tracker or in an ACK under way, and whose range is still tracked, has arrived; each byte handed over has arrived or is
tracked, and so has, or is, the EOF. `NumInv` keeps packet numbers and range identities unambiguous. A change of room lets a range be cut on the new grid from its start; a change that finds
nothing tracked leaves nothing to cut, and the count starts again; a second change over a tracked range would start a second grid, which is where the statement ends and `transfer_splittwice` begins. `NothingStranded` is proved without hypotheses: every verdict triggers the stream, every packet
sent leaves one outstanding, and `triggerPacket` returns nothing only when nothing is left (`NothingIsLeft`), the open marker included (`OpenInv`).

**Flow control.** `CreditOnItsWay` needs to know what updates under way can say. `UpdatesInv`: none says more than the reader has
granted by now. `KnownInv`: what was acknowledged, or received and is about to be, the sender knows of; so an acknowledgement out of order, which moves
`ackedWindow` back, never moves it past the credit the sender has, and the next read asks for an update whenever half a window is missing.
`CreditInv` ties the grant to the reader's position. `Shape` carries the types along the way of a chunk, and with them that a range is queued for retransmission once.

**Packet number tracker.** The range list is `Apart`: each range non-empty, a gap of at least one number to the next. `InsertInto` is shown to keep it so and to add
the one number or nothing, branch by branch of the code. That the peer decodes what was encoded is a statement about loops over lists of any
length: `DecodesToItself` follows the encoder and the decoder range by range, with the invariant that both are at the same position, and shows that no subtraction wraps for a list that `TransferACK` does not refuse.

**Loss detector.** The counters are sums over the set of outstanding packets, which OnSent, ACKs and losses change by sets of packets; `Departed` says
what removing a set does to each sum. `SpuriousWasCounted` needs the ring of declared losses to be followed through the loop that fills it and the loop that empties it. `TimerInv`
adds that the timer stands at the loss time while there is one, and that `ptoCount` lags behind the clock, so that the back-off stays within the range its power was assumed for.
`LossTimeIsEarliest` is what justifies the order of losses in `StreamTransfer`. `Heard` keeps, for each packet, the history of callbacks: only PTOs
while it is outstanding, and one verdict at the end.

**Run loop.** `SleepsOnLittle` is about the moment the loop is asleep; what keeps it true is who still owes a wake. `WakeInv` says that, until two datagrams share a notification, outside a pass every queue that holds something has its notification set, with one exception: a
pass that was woken for a queue and spent on a datagram leaves the queue without one, and then the datagram's own notification is still set with the datagram gone, so that the next pass finds no datagram and comes to the
queues, where each `Pop` notifies again (`PopFacts`, `PassQueues`). A second datagram would fill that pass too, which is the only place where `shared` is needed. `ParkInv` carries what the loop looked at before it parked: no packet
received since without a notification, and streams parked only behind a packet in flight, whose timer is armed, because a window without packets in flight is open. `OwedInv` says that an owed ACK has its notification or a pass that will take it. `NothingOrphaned` is inductive with the types: the
stream a pass takes off the trigger is finished, parked, put back or behind the packet the pass sends (`PassFinds`), and a verdict that takes that packet away puts the stream back (`LossesFacts`).

**Path MTU.** The range is sound because each verdict narrows it around the probe it is about: `ProbeAbove` says a search probe that is awaited lies
above the estimate and within the range. A fall-back forgets the probe together with the range, and what its answer does later is covered by the
same statement about the probe that replaced it. `RisesToProvenSize`, an action property, rests on `AwaitedInv`: while the tracker waits, the probe it waits for is in flight with the size it
remembers, because any answer to a probe, a forgotten one's too, ends the wait; with no forgotten probe about, the one that is answered is that probe.

**Secure channel.** The replay filter keeps the largest number and the ranges of unused numbers below it; `Exact` says that these are exactly the numbers not accepted yet. `InsertNonce` keeps it so: taking a number out of
a range (`TakeFromFacts`) and joining neighbours (`JoinedFacts`) change the numbers covered by that one. `KeyChosenRight` follows from where phases begin: numbers sealed in order give increasing phases, and the receiver's
`recvPhaseFrom` is the number of a packet of its own phase. `NotStranded` is not inductive in the variables of the model: it counts packets of a phase the receiver has not seen. `StoryInv` therefore says
that there is a `Story`: a first number for every phase and a set of lost numbers that explain the present state, with at least the floor's worth of
numbers in each finished phase. Losses and reordering cannot account for all of them, so one is still under way. The story is not a variable: the proof finds the next one at each step.

**Endpoint.** A connection in the tables is in one place only and has not been closed, `ConnsHeld`, and a hello pends at one side exactly until it is answered, `HellosPending`. The actions are grouped by
their effect (closes, abandons, parks, makes or resumes a connection; answers or dials a hello), and the two invariants are proved once per effect. That nothing is lost adds `Roles`
and `ConnsKept`: exchanges run only at responders, and a dialer that waits for an ack has no connection that the ack could push out. `ExpiresOnlyRefused` is a counting argument: while a hello waits and was not turned
away, one token of it is on its way (the hello, an exchange or the ack). Only a fault makes it vanish or doubles it, and a retransmission replaces a vanished one; `AllAccounted` says that retransmissions never outnumber
faults, and are fewer unless there is exactly one token. `KeysAcked` says that a connection made with a waiting hello still answers its repetition.

**Command execution.** `Asked`: input is cancelled, and the errgroup fails, only when the child has gone, the connection is lost, data followed the end of input or, with a pty, one of the endings that kill it has come; so nothing that follows
from them kills a child for another reason. `InputInOrder` is what excludes the refused write otherwise: unless the client wrote after the end, nothing but ends follow an end on the stream, nor a pipe that was closed. `Flow`: the end of the output is the last frame of a stream its writer has closed, and what the client has, is under way and is in the kernel never exceeds what was
written. `PipesDeliver` adds that with pipes, unless the client cancelled, they are equal until the client sees an end: only the session's return ends the stream, it waits for the waiter, which waits for the copy of the output. For a pty
it fails, as section 4 says.

**Transport.** `Invariance` counts: every message number belongs to a message the peer sent on the connection's own stream, so the message channel and its reorder buffer stay
within what arrived; a closed channel is cancelled and has no goroutine left, `ChanInv`. For `RidesPublished`, `Published` says that the table's stream is open or broken, never ended, and that, unless a dial was doubled, an open stream is
the one in the table and a stream that is dialing is the only one dialing or open.

Two things about the prover shape these modules. The library's induction theorems take an operator as a parameter, which no installed prover can instantiate; facts about loops and
lists of any length are proved from well-foundedness of the natural numbers stated for sets (`LeastNatural`, `IntervalInduction`, `LoopExists`), and the loops themselves are written as
recursive functions. And `SelectSeq` and `SortSeq` are opaque to it, so definitions that use them are not reasoned about.

Every property was checked by TLC before it was proved. Only model-checked: all liveness (fairness and `ENABLED` are out of the prover's reach). `MessageChannel` is covered
as far as `Transport` uses it.

## 7. Not modelled

- Congestion window growth, pacing arithmetic and RTT estimation (`trsf/congestion`): a fixed window, a pacer that may or may not
  hold back, an arbitrary estimate stand for them; they are floating-point arithmetic on measurements.
- Sizes of datagrams, frame headers and the fixed overhead: `room` is what is left for payload. The receiving side of datagrams.
- The auto-receive goroutines, accept queues, context cancellation and shutdown of a connection; statistics; logging.
- `SendProbe` and probe answers of unconnected peers; `DeleteProxyBefore`, which removes what `DeleteProxy` removes.
- Ciphers, key derivation, header masking: external, and assumed to open a packet under its own key only.
- The websocket leg's own map (which deletes an entry without looking whether it is its own, `websocket.go:116`), UDP, vsock and browser sockets; more than one leg.
- Standard error, window sizes, terminal modes, the scan for the detach key, Windows consoles and jobs.
- Generated codecs (`trsf/wire/stream.go`, `objproto/packet/packet.go`, `exec/frame/frame.go`), which are a third of the implementation's lines.

## 8. Plan

In order of importance:

1. A second leg in `Transport`; the websocket leg's map as a variant; standard error in `ExecSession`.
2. `NewReno` with integer arithmetic against the loss detector; the receiving side of datagrams; shutdown of a connection.
