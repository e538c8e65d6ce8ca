# A TLA+ development for go-daq/ipbus

`go-daq/ipbus` is a Go client for IPbus: it turns reads, writes and
read-modify-writes of the registers of an FPGA into control packets, sends them
over UDP, and recovers lost datagrams with the protocol's status and resend
packets. This directory holds TLA+ modules for the parts that carry that logic,
the TLC configurations that check them on small instances, and proofs that TLAPS
checks for every value of the parameters. `PROJECT.json` maps definitions to
source lines and lists runs, mutants, findings, hazards and theorems.

## 1. The system

| component (source) | state | operations | talks to |
|---|---|---|---|
| `Target` (target.go) | `requests`, `dispatch` channels; packets under construction | `Read`, `Write`, `RMWbits`, `RMWsum`, `...Now`, `Dispatch`, goroutine `preparepackets` | users by channels, `hw` by `h.incoming` |
| packets and transactions (transaction.go) | request bytes, reply space, transactions | `add`, `parse`, `send` | called by `preparepackets` and `hw.Run` |
| `hw` (hw.go) | `nextID`, `configured`, packet logs `tosend`/`flying`/`replied`, id logs `queuedids`/`flyingids`, `inflight`, `timedout`, `timeoutid`, `handlinglost`, `resent` | goroutines `Run`, `receive`, `ConfigDevice`, `handlelost`; methods `sendnext`, `updatetimeout`, `returnreply`, `nextid` | device by UDP; its goroutines share the struct **without a lock** |
| `idlog`, `packetlog` (hw_stuff.go) | ring buffer of ids; map kept by a goroutine | `add`, `remove`, `oldest`, `secondoldest`, `sorted`; `add`, `get`, `getall`, `remove` | `hw` |
| codecs (ipbus.go, hw_stuff.go) | none | encode and decode headers, status replies | everything above |
| registers and masks (register.go) | masks of a register | `newmask`, `ReadMask`, `WriteMask`, `MaskedWrite` | `Target` |
| address tables (parser.go) | per call of `parseregfile`: the name so far, base and local address, the current block and register; `Target.Regs` | recursive parse of XML tokens | start-up only |
| connection manager, dummy hardware, license | none | look-up, process control for tests, a string | start-up, tests |
| the device and the network (outside the repository) | id expected next, packets executed, history of headers and replies | execute, answer, report status, resend; lose, copy, reorder | `hw` |

A packet's life: a user's request goes to `preparepackets`, which splits it into
transactions and packs these; `Dispatch` moves the packets to `h.incoming`; `Run`
gives each an id and queues it; `sendnext` writes it when fewer than `maxflight`
(4) are in flight; the device executes it if its id is the next one; `receive` puts
the reply into `h.replies`; `Run` matches it by id, parses it and hands packets
back to the users in order. Every tick of `h.timedout` starts a `handlelost`, which
asks the device for its status and asks for the reply again (the device has sent
it), writes the packets again (the device has not received them), or panics.

What is hard here:

* `Run`, `ConfigDevice` and any number of `handlelost` goroutines read and write
  the same struct unlocked; `handlelost` waits for a status in the middle and
  then acts on fields that `Run` has changed meanwhile;
* `select` evaluates `h.timedout.C` once per turn, so a ticker that `handlelost`
  stores is not seen by a `Run` that is already waiting;
* the timeout covers one packet, the second oldest when `updatetimeout` chooses;
* datagrams are lost, repeated and reordered; ids wrap; the device remembers only
  the last four headers and replies;
* capacities (256 queued, 32 flying, channels of 100 and 10) whose errors are
  partly ignored, and `uint8` word counts that overflow when 1 is added;
* responses go over unbuffered channels: `Run`, `preparepackets` and the users wait
  for each other, in an order only the users decide;
* `parse` walks over bytes whose number depends on the success of each transaction,
  in the byte order the reply happens to have;
* the parser keeps addresses, names and the current register in variables that
  outlive the nodes they come from.

What makes each part correct: packets are executed once and handed back in order,
each with its own reply, or the client says so by dying (`hw`); requests are cut
without gap or overlap into packets that fit (`Packer`); every user gets its own
words and then the close, or the client is in one of three known jams
(`Delivery`); headers survive encoding (`Codec`); a masked write changes its mask and
nothing else (`Masks`); a register is found under its path and at the sum of the
addresses on the way (`RegParser`); an id log is a queue (`IDLog`).

## 2. Modules

| module | models | lines of code behind it |
|---|---|---|
| `Wire` | the UDP connection and the datagrams (packet type, id, which packet they carry or answer) | ipbus.go headers, hw_stuff.go status and resend packets |
| `Device` | the IPbus device, external: what hw.go relies on | none |
| `HW` | the `hw` struct as the record `h`, its methods as operators on records, its goroutines as actions | hw.go |
| `HWSystem` | `HW`, `Device` and the network together; the passing of time; fairness; properties | hw.go |
| `ReliableLink` | abstract specification: packets are executed once, in order, and handed back in order with their own reply | |
| `MCHWSystem` | `HWSystem` for TLC, with the symmetry of the `handlelost` goroutines | |
| `IDLog` | the ring buffer, with Go's index arithmetic | hw_stuff.go |
| `BoundedFIFO` | abstract specification of an id log | |
| `Packer` | `preparepackets` and `packet.add`, a turn of a loop per action | target.go, transaction.go |
| `Codec` | packet and transaction headers as bytes, in both byte orders; payload words | ipbus.go, transaction.go |
| `Delivery` | users, `preparepackets` and `Run` with the channels between them; `parse` and `send` | target.go, transaction.go, hw.go |
| `MCDelivery` | `Delivery` for TLC: what the two users may call (two menus) | |
| `Masks` | masks and masked access; a word is the set of its ones | register.go, target.go |
| `RegParser` | `parseregfile`, a token per action, with its recursion | parser.go |
| `MCRegParser` | `RegParser` for TLC: addresses and masks of the nodes | |
| `HWProofs` | type correctness of `HWSystem` | |
| `HWSafetyProofs` | inductive invariant of `HWSystem`; execution, return and reply theorems | |
| `HWLinkProofs` | `HWSystem` implements `ReliableLink`; no packet forgotten, no slot lost, status replies | |
| `HWPanicProofs` | one packet out at a time: the client never panics; any window: it does not before something is lost | |
| `IDLogProofs` | the ring buffer implements the queue | |
| `PackerProofs` | type correctness; packets fit, `add` never fails, splitting is contiguous | |
| `DeliveryProofs` | headers are decoded as they were encoded; type correctness of `Delivery`; responses, closing, completeness and `parse` | |
| `RegParserProofs` | masked access reads back what it wrote and leaves other bits alone, through every mask the parser makes; type correctness of the parser; its registers have the names and addresses of their nodes, and none of them, nor any of their masks, is lost | |

### How the state and the actions of `HW` correspond to hw.go

The fields of `h` have the names of the struct. A `packetlog` is a total function
from ids to packets: its own goroutine makes each `add`, `get`, `getall` and
`remove` atomic. An `idlog` is the sequence `sorted()` returns; `IDLog` and the
theorem `IDLogProofs!Refinement` justify that. `aged` stands for the time stamps
`packet.sent`: the ids whose packet was written at least `waittime` ago. `panicked`
records that the process has died; `Next` stops there.

`Run` is one action per case of the `select`, each the whole case:
`RunIncoming` (`enqueue` then `sendnext`), `RunStatus`, `RunReply` (`land`,
`sendnext`, parse, `returnreply`), `RunUnmatched` (fatal unless the id is
`h.resent`), `RunTimeout` and `RunReport`. The variable `watched` is the ticker
`Run` is blocked on: `Current`, or the one that was replaced behind its back.
`handlelost` is split wherever it gives others a chance to change what it uses:
`LostStop`, `LostRequest`, `LostStatus` (wait for the status, look for `h.timeoutid`
among the headers received), `LostSent` (look for it, as it is by then, among the
replies sent), `LostResend`, `LostRewrite` (get a packet and write it), `LostReadd`
(put it back into `flying`, go on to the next id) and `LostFinish` (clear
`handlinglost`, call `sendnext`). `ConfigRequest` and `ConfigStatus` are the two
halves of `ConfigDevice` around its wait. `Landings` has the second outcome of
`flyingids.oldest()` when the log is empty and the caller ignores that: a stale id.

A call of `sendnext` is chosen from `Sendings`: all its writes succeed, or
(`WriteErrors`) that of packet n + 1 fails, the loop ends and that packet, which
has left `queuedids` and `tosend`, is in no log (`Abort`); no caller looks at the
error. Other writes that fail are fatal (`WritePanics`).

Blocking is modelled where the code blocks: `receive` waits while `h.replies` is
full; `Run` is stuck when a status does not fit `h.statuses` (`Running`).

Time has three grades. A ticker is `on` (a period of `waittime`, 3 s, or what is
left of it), `due` (the 1 us `updatetimeout` picks for an overdue packet) or `long`
(the 10000 s of the first one). An `on` ticker ticks when nothing is under way
(`Quiet`): 3 s are longer than what the network and the goroutines need, except
that `MaxEarly` ticks may come at any moment. A `due` ticker ticks at any moment.
With the tick of an `on` ticker the packet it was started for is overdue, and any of
the others may be (`Aged`): those written later are younger.

### `IDLog` and `Packer`

`IDLog` keeps `ids`, `first` and `n` and the `% max` of every index. `add` and
`remove` leave the log alone where the code returns an error.

`Packer` counts lengths in words. `SplitRead`, `SplitWrite` and `AddRMW` are the
turns of the loops in `preparepackets` with the conditions of the code (a new
packet is started when the last has no room, word counts are cut to 255);
`insufficient` has the check of `packet.add` with its `uint8` overflow. `trail` is a
history variable: every transaction in order.

### `Delivery` and `Codec`

`Delivery` composes with its neighbours by what they promise: `preparepackets` may
cut a request in any way that keeps `Packer`'s `Contiguous` (`Split`), and between
`h.incoming` and the reply packets are a queue (`flying`), as `ReliableLink` says.
It does not repeat the recovery protocol: a packet that never comes back is the
business of `HWSystem`.

A user is a goroutine with a place `pc`. `MakeRequest` is the part of `Read`, `ReadB`,
`Write`, `RMWbits`, `RMWsum` or `MaskedWrite` up to `enqueue`; `Enqueue` and
`Dispatch` are the rendezvous on `t.requests`, possible only when `preparepackets` is at
its `select`; `Receive` is the beginning of a loop over a channel. The `...Now`
operations go through the three by themselves and return by `returns`: `ReadNow` and
`WriteNow` at the first error or when the channel is closed, `MaskedWriteNow` after
one response. `PutIncoming` waits while `h.incoming` is full.

`Run` is `TakeIncoming`, then for each reply `Reply` (the packet header),
`ParseTransaction` (a turn of the loop in `parse`, over real bytes made by `Codec`),
`ParseEnd` (error responses for transactions that were not answered) and `Send`, which
meets the user's receive or waits for it. `panic` stands for an index out of range,
`spin` for the loop that a rest of one to three bytes never leaves. The device answers
in either byte order, fails up to `MaxErrors` transactions and may end its
reply with a failed one. The value of a register is its address, so that a response
tells which words it has: `Addr` gives each request its registers, `MaxWords` bounds
its length (a `uint8`), and `MaxTransactions` is what a packet has room for, at most
the 4096 ids of a 12-bit field.

### `Masks` and `RegParser`

`Masks` writes a word as the set of the positions of its ones: `&`, `|`, `&^` and shifts
are then intersection, union, difference and a translation that drops what leaves
the word. `newmask` looks for the lowest one, `WriteMask` and `MaskedWrite` have the
terms of the code, and `RMWbits` is what the device does with them.

`RegParser` chooses the document token by token. `doc` is the tree so far, from which
alone `Path`, `Address` and `FileOf` say what the registers should be; `files` are
the locals of the nested calls of `parseregfile`, and `StartBlk`, `StartReg`,
`StartMask`, `StartMod`, `EndElement`, `EOF` and `Fail` are what the code does with
them. The id of a node is its place among its siblings, so that the same id occurs
in other places; a name is the sequence of ids that the dots separate. `InPlace` is
the layout of the tables under testdata/ that have ids at their roots; nodes laid out
otherwise are limited by `MaxOdd`.

## 3. Runs

TLC 2, two workers. `hw_*` runs use `MCHWSystem`; all have `MaxID = 7`,
`StartID = 6`, so that ids wrap after two packets and are not reused, a window of
two, room for three ids in `flyingids` and a device history of two, so that limits
are reached with three or four packets.

| run | expectation | distinct states | shows |
|---|---|---|---|
| `hw_loss` | pass | 398 242 | four packets, three outstanding, one loss anywhere, two `handlelost`s: `ExecutedOnce`, `InOrder`, `OwnReply`, `NoneForgotten`, `EveryStatusAwaited`, `NoFalseAlarm`, `TypeOK` |
| `hw_network` | pass | 1 150 871 | two packets; loss (of status packets too), duplication, reordering, an early timeout, writes that fail anywhere: what comes back is as `ReliableLink` says (`Reliable`), no flight slot is lost (`NoSlotLost`) |
| `hw_stopwait` | pass | 2 862 | one packet outstanding, as with `...Now`: repeated losses, one per packet returned, are all recovered, without a panic (`NoPanic`, `AllReturned`) |
| `hw_single_loss` | pass | 4 061 | two outstanding, one loss: the client never hangs; it may panic (`ReturnedOrDead`) |
| `hw_loss_panic` | violation | | two outstanding, one loss: `handlelost` panics (`NoPanic`) |
| `hw_history` | violation | | a lost reply that the device has forgotten is never recovered (`ReturnedOrDead`) |
| `hw_early_send` | violation | | a packet sent before `ConfigDevice` is done never comes back (`AllReturned`) |
| `idlog` | pass | 358 | capacity 3, ids 0..3: `FirstTwo`, `ImplementsFIFO` |
| `delivery` | pass | 189 438 | a user that calls `ReadB` for two words and reads no words, and one that calls `ReadNow`, `WriteNow` or `MaskedWriteNow`; room for one packet in `h.incoming`, one failed transaction: `OwnResponses`, `ClosedAfterLast`, `Complete`, `RunAlive`, `Served`, `TypeOK` |
| `delivery_blocked` | violation | | two users that receive the responses to a request before they make the next, room for one packet in `h.incoming`, no errors: users, `preparepackets` and `Run` wait for each other for ever (`NotBlocked`) |
| `regs` | pass | 166 232 | all documents of up to six nodes in any number of files, one node of them out of place: `NamesArePaths`, `NoneLost`, `AddressesAddUp`, `MasksKept`, `WrittenIsRead`, `TypeOK` |
| `packer` | pass | 15 670 | datagrams of 7 words, word counts up to 3, two requests of up to 9 words: `PacketsFit`, `AddAccepts`, `Contiguous`, `Finishes` |

Deadlock checking is off in every run but `idlog`: the users have a bounded number of
packets or requests, after which nothing is left to do, and a panic ends the process.

Each property of a passing run has a mutant in `PROJECT.json`, a plausible slip in the
code (an id not used up, a slot not given back, `handlinglost` left set, a
capacity not checked) under which TLC finds the property violated.

**Bounds.** `NPackets`, `MaxLoss`, `MaxDup`, `MaxEarly` bound what users and network
do; `NetCap` stops time while that many datagrams are under way, so that a 1 us
ticker does not flood the network with status requests; `Handlers` bounds how many
`handlelost`s live at once. A tick with no free handler waits, where the code would
start another goroutine. In `hw_loss`, and wherever the proofs apply, users have no more
outstanding than `flyingids` has room for (section 4 says what happens otherwise).

In `delivery` `MaxWords` and `MaxTransactions` are 3. Two words are enough to split a
request, within a packet and
over two; one place in `h.incoming` and two packets make `preparepackets` wait; one
error is enough for a user to leave its channel. All three jams are reached, and the
user who reads no words waits for ever without harm to the other. `Served`
says that a request is answered to its end unless one of the three jams is there: as
long as the device's replies arrive, these three and a request for no words are all
the ways in which a user hangs. The jams themselves are findings (section 4). In
`delivery_blocked` one place in `h.incoming` and a dispatch of two packets stand for the
100 places of the code and a dispatch of more.

In `regs` the n-th node has the address 2^n, so that a sum tells which addresses went
into it, and addresses wrap at 100, below the sum of all. Six nodes are enough for two
module files side by side or one in the other, with registers after each; words
have three bits, masks have gaps and do or do not begin at bit 0.

**Fairness.** `FairSpec` has weak fairness for each goroutine: Go schedules every
runnable goroutine and `select` picks among ready cases at random, so a case that
stays ready is served. The network is fair to what it does not lose, the device
answers, tickers tick and users send all they have. Nothing is assumed of losses
and early timeouts. `Packer` assumes that the goroutine goes on with a request it
has taken, not that users make any. `Delivery` assumes the same of `preparepackets`
and `Run`, that the device answers (what `HWSystem` is about), and that a user who has
made a request dispatches it and begins to receive; in which order it receives from
several channels, and whether it makes another request, is left open.

## 4. Findings

Three comments promise more than the code does; the runs give the traces.

* hw.go:11-12 "The hw instance handles lost UDP packets". (a) With two packets in
  flight and the first request lost, the reply to the rewritten packet makes
  `updatetimeout` time the second one, which is overdue by then: 1 us later
  `handlelost` finds it received and not yet answered and panics (`hw_loss_panic`).
  (b) Any reply frees a slot, so traffic goes on behind a lost reply until the device
  has forgotten it (`hw_history`).
* hw.go:51-52 `configured`: "Flag to ensure connection is configured, etc. before
  attempting to send data." Nothing reads it (`hw_early_send`).
* hw.go:16-17 "The incoming request is a buffered channel so that users are not blocked
  waiting for packets to be sent". When it is full `preparepackets` waits in the
  middle of a dispatch. If that dispatch also sends the request of another user,
  which has made it but not yet dispatched, `Run` waits to deliver a response to that
  user, the user waits in its own `Dispatch` for `preparepackets`, and `preparepackets`
  waits for `Run` (`delivery_blocked`). No error is needed, and nothing but calls of
  `ReadNow` and `WriteNow` from two goroutines.

Met while modelling, and part of the models, but without a run of their own. TLC finds
each of the first six on the instance named:

* `updatetimeout` starts a ticker only if there is a second oldest packet, so a lone
  packet is retried once: if it is lost again its user waits for ever (`hw_stopwait`
  without `Spaced`).
* `handlelost` waits for its status with `handlinglost` set and the ticker stopped. If
  the request for it or the reply is lost, which takes a tick that came too early,
  nothing is sent any more (`hw_single_loss` with `MaxFlight = 1`,
  `MaxOutstanding = 1`, `LoseStatus` and `MaxEarly = 1`).
* When `conn.Write` fails `sendnext` has already taken the packet out of `queuedids` and
  `tosend`, and no caller looks at its error: the packet is neither sent nor kept
  (hw.go:279-285; `hw_single_loss` with `WriteErrors` and without losses).
* The window is not always kept. `handlelost` takes a packet from `flying`, writes it and
  adds it again (hw.go:211-222); if `Run` lands its reply in between, the packet is
  back in `flying` after it was answered, and a copy of the reply lowers `inflight`
  a second time (hw.go:491), so that `sendnext` sends one packet too many (`hw_loss`
  with `MaxDup = 1`: more than `MaxFlight` ids of `flyingids` without a reply). What
  does hold is the other direction, `NoSlotLost`: `inflight` never exceeds the number
  of packets that are out.
* `sendnext` ignores the error of `flyingids.add`. While the oldest reply is overtaken
  any number of packets leave and come back, until the log is full; the next packet is
  not in it and is never handed back, and those behind it are (`hw_network` with
  five packets outstanding and nothing but reordering).
* With copies on the network `Run` panics even with one packet out: the second reply
  has no packet to match (hw.go:518; `hw_stopwait` with `MaxDup = 1`).
* `ReadNow` and `WriteNow` return at the first error and leave the channel, although
  target.go:286 and 298 have them return "once all return packets are received". If
  the request has another transaction `Run` waits on that channel for ever and no
  user is served again (`Abandoned`). Two more ways to the same end are to receive
  from the channels in another order than the requests (`WrongOrder`) and to make
  requests while `h.incoming` is full and `Run` has a response to deliver (`Circular`).
* target.go:203 says of `Dispatch` "Blocking call to send queued transactions, returns
  once all replies are received". It returns when `preparepackets` has taken the
  request (`Delivery!Dispatch`).
* A request for no words adds no transaction: its channel is never closed, and
  `ReadNow(reg, 0)` does not return.
* A reply with one to three bytes behind its last word makes `parse` loop for ever
  (transaction.go:76). The device modelled here sends whole words.
* `MaskedWrite` (target.go:281) does not cut the value to the mask as `WriteMask` does: a
  value too large for its mask sets bits outside it. `WrittenIsRead` is about values
  that fit.
* parser.go:24-25 "localaddress is relative to either the bank or module that is the
  immediate parent of the register". The code adds the address of the last block that
  began in the file, and the last address seen if the node has none: a register
  behind a nested block, a block in a block and a register without an address are
  placed elsewhere. In a module file whose root is not a block the module's
  address is not added.
* The first id of a file names nothing. If the root has none, as in
  testdata/xml/dummy_*.xml, that is the id of its first child, and in module files
  every end tag then takes a component of the module's name with it.
* A mask in a file without a register before it is stored into a nil map
  (parser.go:198), which panics. A file without a block or a register leaves an entry
  with an empty name in `Regs`.

## 5. Proofs

All theorems are for every value of the constants that satisfies the named
`ASSUME`s (`WireAssumption`, `DeviceAssumption`, `HWAssumption`, `NetworkAssumption`,
`IDLogAssumption`, `PackerAssumption`, `DeliveryAssumption`, `WidthAssumption`,
`RegParserAssumption`: numbers are numbers, capacities are positive, a datagram has at
least 5 words, word counts and transaction ids have the width of their fields, a
read-modify-write has one word, a word at least one bit, the attributes of nodes are
addresses and words). TLC evaluates the assumptions in the runs.

* `HWProofs!TypeCorrect`: `Spec => []TypeOK`. One lemma per method (`SendnextType`,
  `LandType`, ...: hw records to hw records) and one per actor.
* `HWSafetyProofs!ExecutionCorrect`, `ReturnCorrect`, `ReplyCorrect`:
  `Spec => []ExecutedOnce`, `[]InOrder`, `[]OwnReply`, for any window, any
  capacities, any number of concurrent `handlelost`s, and any number of losses,
  copies, reorderings and early timeouts. They assume `Regime`: users wait for
  `ConfigDevice` (`hw_early_send` shows why), no write fails (`hw_network` has
  writes that do), packets are fewer than ids (a
  datagram that outlives a full turn of 65535 ids would be taken for another one,
  and nothing in the code prevents it), and users have no more packets outstanding
  than `flyingids` has room for (`sendnext` ignores the error of its `add`).

  None of the three is inductive. The invariant `IInv` adds that packet number p
  goes by the id `Id(p)` wherever it is: in `flying` and `replied` (`InFlight`),
  in the hands of a `handlelost` between its write and its `add` (`Rewriting`), on
  the wire and in `h.replies` (`OnWire`), at the device (`Executed`); that
  `flyingids` followed by `queuedids` are the ids of the packets not yet handed
  back, in order, and `tosend` has the queued ones (`Queued`); that the packets in
  `h.incoming` are the ones after these (`Waiting`) and that `nextID` is the id
  of the first of them, because nothing is sent before the first status is there
  (`Configured`). `IdInjective` then says that a reply whose id is in flight
  belongs to the packet in flight. `IInv` demands all this only while the process
  has not panicked. TLC has checked `IInv` on the instances of `hw_loss` and, with
  no write failing, of `hw_network`.
* `HWLinkProofs!LinkRefinement`: under `Regime`, `Spec => Reliable`, so that every step
  of client, device and network is a step of `ReliableLink` or a stutter. `IInv` does
  not say that a packet is handed back only after it was executed; `Answered` does: a
  reply on the wire, in `h.replies` or parsed is about a packet the device has executed.
* `HWLinkProofs!NothingForgotten`: under `Regime`, `Spec => []NoneForgotten`. The
  addition is `Tracked`: each id of `flyingids` has its packet in `flying` or in
  `replied`, which `handlelost` keeps because it only ever adds what it has read there.
* `HWLinkProofs!SlotsKept`: under `Regime`, `Spec => []NoSlotLost`, through the very race
  of hw.go:211-222 that breaks the window. `Slots` says that `inflight` is at most the
  number of ids of `flyingids` without a reply, and that whatever is in `flying` or
  `replied` has been sent (`Upto`); `PutBack` that the packet a `handlelost` holds has
  been sent, even if its reply has come since. A packet that `sendnext` sends has then
  no reply, old or new, so each slot it takes is matched by one more packet that is out;
  and a reply frees a slot together with the one packet it answers, or one too many,
  never one too few.
* `HWLinkProofs!StatusesAwaited`: under `Regime` and `MaxDup = 0`,
  `Spec => []EveryStatusAwaited`. `Balance` counts requests for a status, status
  replies and statuses against the goroutines that wait. A copied status reply has
  nobody who waits for it, so the second assumption is needed.
* `HWPanicProofs!StopAndWaitNeverPanics`: under `Regime` and `StopAndWait`,
  `Spec => []NoPanic`, whatever is lost and however often. `StopAndWait` is what makes
  one packet be out at a time: a device with a buffer for one packet or users that have
  one outstanding (`MaxFlight = 1 \/ MaxOutstanding = 1`), a network that copies nothing
  (`MaxDup = 0`) and a `timeoutTicker` that does not strike early (`MaxEarly = 0`). None
  can be dropped: with a copy or an early timeout TLC finds a panic in this instance,
  and `hw_loss_panic` has a window of two.

  `NoPanic` says nothing about how the panics are avoided, so nearly everything is in
  the invariant, `OneOut`. At most one thing is under way, a datagram, an entry of
  `h.replies` or of a status channel, or a packet the device is executing; if it is a
  packet or its reply no timeout is to come and no `handlelost` has anything left to
  write, and if it is a status someone waits for it (`Alone`). It is about the packet that
  is out, and a status tells of nothing received and not answered (`Contents`). The packet
  that is out is in `flying` and is the one the timeout is for; what else is in `flying`
  came back before (`Slot`). A timeout strikes only when nothing is under way and nobody
  handles a loss (`Timer`). One `handlelost` is at work at most (`Handling`); while it has
  still to write or to ask nothing is under way, and what it puts back behind `Run`'s back
  is the packet that is out or the one that came back last, and if its
  status says that the packet was received it says that the reply was sent (`Work`). A reply then always
  meets its packet, and `handlelost` never meets a packet received and not answered. TLC
  has checked `OneOut` on the instance of `hw_stopwait`.
* `HWPanicProofs!NoAlarmWithoutLoss`: under `Regime` and `Orderly`,
  `Spec => []NoFalseAlarm`, for any window. `Orderly` is a network that keeps the order,
  copies nothing and answers before the timeout, and a queue with room for what the users
  have outstanding. A copy has no packet to match, and a packet that overtakes another is
  dropped by the device, which is a loss in all but name.

  The invariant says of a state without a loss that it is `Calm`. The client (`Still`)
  keeps no reply back, counts as many packets in flight as `flyingids` has, has none that
  is overdue and times only while one is out (`Clock`). The packets in flight are one line
  (`Stream`): the replies in `h.replies`, those on the wire, the packet the device is
  executing and the requests on the wire, by number, without a gap. The reply Run reads is
  then to the oldest packet, which is found in `flying` (`Tracked`), handed back alone,
  and leaves the timeout on a younger one that is out or stopped; and a ticker that runs
  means that the line is not empty, so that time does not get to `waittime`. Before the
  device is configured `Balance` says that the status `ConfigDevice` takes was the
  only thing under way: that is where the line begins. TLC has checked `Calm` on an
  instance like that of `hw_loss` with six packets and no loss.
* `IDLogProofs!TypeCorrect`, `FirstTwoCorrect`, `Refinement`: the ring buffer
  implements `BoundedFIFO` for every capacity and set of ids; the mapping is
  `queue <- sorted(log)`.
* `PackerProofs!TypeCorrect`, `PacketsAlwaysFit`, `AddNeverFails`, `SplitContiguously`: for every
  datagram of 5 words or more, every width of the word count and every request
  length. The invariant adds how the last transaction and the rest of the request
  fit together (`Linked`, `Pending`). The check in `packet.add` is too weak for a
  read of 255 words; the theorem shows that `preparepackets` never depends on it.

* `DeliveryProofs!TransactionHeaderRoundTrip`, `PacketHeaderRoundTrip`: every header is
  decoded to itself, in either byte order; for a packet header the order is found
  from the bytes, which needs the version to be the protocol's.
* `DeliveryProofs!DeliveryTypes`, `ResponsesAreOwn`, `ClosingIsLast`, `ReturnsComplete`,
  `RunStaysAlive`: the safety of `Delivery`, for any users, calls, cuts, byte orders and
  errors. The proof has three parts. Bytes:
  what `parse` reads at a place of the reply is what the device wrote there, for a
  packet of any number of transactions (`answers` is cut into pieces, one for each
  transaction, and each piece is read by the codec lemmas). The line: `tosend`, `flying`,
  `incoming`, `tohw` and `packs` end to end are the transactions that are not
  answered, and every step adds at its end, takes from its front, moves a packet on or
  leaves it alone. The invariant `IInv`: the transactions of a request stand in the line
  in the order of their words, begin where the responses received end (`Turns`,
  `History`) and end where `preparepackets` goes on splitting; what is left of `data`
  are the answers to the transactions not yet parsed, and `replies` has one
  for each that is (`Replies`); users are where their calls say (`Control`). TLC has
  checked `IInv` on the instance of `delivery`, with the sets made finite.
* `RegParserProofs!MaskedAccess`: for every width, mask, old content and value that fits,
  the value is read back and no other bit has changed, with the terms of `WriteMask`
  and of `MaskedWrite`, which are the same for such a value (`SameTerms`). It rests on
  `LowestIsLeast`: what `newmask` chooses exists, because the natural numbers are
  well-founded.
* `RegParserProofs!TypeCorrect` and `MasksCorrect` (`Spec => []WrittenIsRead`): for every
  document, of any size and layout. The invariant adds that every mask anywhere,
  in `Regs` or in the hands of a call, was made by `newmask`, and that there is a
  call while the parser is parsing.
* `RegParserProofs!NamesCorrect`, `AddressesCorrect`, `RegistersSaved`, `MasksSaved`
  (`Spec => []` of `NamesArePaths`, `AddressesAddUp`, `NoneLost`, `MasksKept`): for
  every document again. The parser never sees the tree; it has a name, two addresses, a
  block and a register per call, so the invariant `TInv` says how these follow from the
  tree. `Tree`: a node comes after its parent, a file has one root, an id counts
  siblings. `Shape`: `open` is the way down to the innermost open node, and there is a
  call for every open module and one more. `Attached`: the name of a call is the path of
  the last open node of its file, and its block and register are the last ones of that
  file. `Unread`: a call whose file has no root yet holds nothing and has the name of
  its module. `Based`: a call adds the address of its module. `Right`: a register, held
  or saved, has the name and the address of its node, and `baseaddr` is the address of
  the block held. `Single`: a node is held once, and not any more when it is saved.
  `Saved`: what has a name is held or saved, masks in place with it. Names tell nodes
  apart (`SamePath`), so that a save never replaces another register.

  `Path`, `Address`, `Above` and `FileOf` are recursive functions of the document, which
  grows. The proofs state them for any document d (`OnDocument`) and show, by
  well-foundedness of the numbers for sets (`Upward`), that they exist (`Recursion`) and
  do not change where the document does not (`Agree`). TLC has checked `TInv` on
  all documents of up to 5 nodes with up to 2 of them odd (263 984 states).

Only model-checked: the liveness properties (`AllReturned`, `ReturnedOrDead`,
`Finishes`, `Served`), which need fairness and are out of the prover's reach. Every
invariant and action property of a passing run is stated by a theorem. For windows wider
than one, `NoPanic` is false after a loss (section 4), so there is nothing to prove there.

## 6. Not modelled, and why

* Errors of `conn.Read`, which end the goroutine `receive` (hw.go:576): to the rest of
  the client that is a network which loses everything from then on. Writes that fail
  are modelled (`WriteErrors`), but not in the proofs.
* What users might do but `Send` does not: the code checks neither `h.configured` nor a
  number of packets outstanding. `EarlySend` lifts the first condition.
* Logging, `nverbose`, `trackers`, `returnedids` and the rate counters, which only feed logs.
* `h.Stop`, `h.stopped`, `closeall` and `t.stop`: nothing in the package calls them.
* Two calls of `sendnext` at once, from `Run` and from `handlelost`: it is one step
  here. So are the cases of `Run` with respect to `handlelost`, and the write of a
  resend request with the assignment of `h.resent`.
* The composition of `HW` and `Delivery` in one state space: `HW` hands a packet over
  at once, `Delivery` has a queue in place of the protocol. A `Run` that is jammed
  stops the protocol too.
* Durations: a packet is overdue or not. `dt == 0`, for which `NewTicker` panics, is
  a matter of nanoseconds.
* The channels of `packetlog`: its goroutine serialises the calls, and each is one step.
* In the address tables: what only concerns the register itself (mode, size,
  description), an inner node called TOP, children of a module node, numbers that
  do not parse. In parser.go also `Target.parse` and the types `nd`, `file`, `mod`,
  `reg`, `mask`, `node`, which nothing uses.
* The connection manager looks up a name in an XML file and dials; the dummy hardware
  starts and stops a process for the tests; the license is a string. None has
  state that changes.

## 7. Plan

Done, in this order: the recovery protocol (`Wire`, `Device`, `HW`, `HWSystem`),
what it promises (`ReliableLink`), its queues (`IDLog`), what feeds it (`Packer`), what
comes out of it (`Codec`, `Delivery`), registers (`Masks`, `RegParser`), and the proofs
above. Left:

1. `SendRace`: two calls of `sendnext`, statement by statement, with `inflight` as an
   unprotected counter. The race detector of Go finds it; what it does to the
   window would be the result.
