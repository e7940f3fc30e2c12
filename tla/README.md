# A TLA+ model of go-afxdp

go-afxdp is a Go library for AF_XDP: it creates sockets that share a frame memory (UMEM) and four
descriptor rings with the Linux kernel, attaches the XDP program that steers packets into them,
and moves frames between pools, rings and the application without a lock. This directory holds
TLA+ modules of its core, the TLC configurations that check them and the TLAPS proofs that their
safety properties hold at every size. All source lines are of the repository root package unless a path says otherwise.

## 1. The system

| Component | State it keeps | Operations | Talks to |
|---|---|---|---|
| rings (`socket.go`) | producer and consumer index (uint32, free running), slot array, flags word, all in memory mapped from the kernel | `ldIdx`, `stIdx`, the loops of `Fill`, `Receive`, `Transmit`, `Complete`, the four `Num...` counts | kernel, by shared memory |
| socket data path (`socket.go`, `pool.go`) | rx and tx `framePool`, scratch slices, `numFilled`, `numTransmitted` | `Fill`, `Receive`, `Recycle`, `Alloc`, `Transmit`, `Complete`, `SendFunc`, `SendBatch` | rings; one receive and one transmit goroutine |
| multi-buffer (`multibuffer.go`) | `pktPartial`, `pktDescs` | `ReceivePackets`, `RecyclePackets`, `sendBatchSG` | data path |
| receive wakeup (`socket.go`) | the fill ring's need-wakeup flag, `numFilled` | `Poll`, `PollWith`, `NeedsWakeupRx`, `WakeupRx` | driver, by the flag and by system calls |
| transmit kicks (`socket.go`, `multibuffer.go`) | the tx ring's need-wakeup flag, Kick's retry budget | `Kick`, `kickNeeded`, the early returns of `SendFunc` and `sendBatchSG` | driver and device |
| lifecycle (`socket.go`) | `closing`, `ops`, the eventfd, the mappings | `incref`, `decref`, blocking in `Poll`, `Close` | every method of the socket |
| setup and options (`socket.go`, `options.go`) | `Options`, `config`, the resources acquired so far | the `With...` options, `newConfig`, `withDefaults`, `NewSocket` | fleet; kernel; data path (its assumptions) |
| fleet (`fleet.go`) | the sockets, the mode group and bind variant being tried, `openFleets` | `Open`, `registerSockets`, `closeAll`, `Close`, `WaitLinkUp` | program, setup, tuning |
| XDP program (`program.go`) | link, `qidconf_map`, `xsks_map` | `Attach`, `Detach`, `Register`, `Unregister`, `Close`, `removeProgram` | kernel |
| NAPI tuning (`tune.go`) | per-interface saved values and reference count | `applyNAPITuning`, `restore` | sysfs; fleets of the process |
| filter (`filter.go`, `match.go`) | none at run time: an eBPF program, its registers | the `Match...` builders, `NewMatch`, `managementExceptions`, `classifierBlocks`, `checkBlock`, `newFilterProgram` | program; runs in the driver on every packet |
| statistics (`socket.go`) | `ringCounter` (32-bit index to 64-bit count), `statsMu` | `Stats`, `ringCounter.update` | rings, from any goroutine |
| packet matching (`matchpacket.go`) | none | `MatchPacket` | filter; the kernel's test run of a program |
| `info.go`, `bpfmatch`, `pcapfilter`, `examples` | none | reporting, conversions, applications | |

What is hard here:

* **Two sides, no lock.** Each ring is written by one side and drained by the other; counts are
  loaded, acted on and published while the peer moves. Indices wrap at 2^32.
* **Frame accounting over long runs.** One frame in two places means the kernel writes into a
  packet that is being read or sent; one frame in none is lost until the process ends. Error paths
  (`SendFunc`'s rejected build), partial batches and hairpin mode (`WithTxReuseRxFrames`) are where it breaks.
* **Who wakes whom.** In copy mode only a `sendto` makes the kernel look at the tx ring. With
  need-wakeup a driver parks and says so in a flag; every early return of the package is a
  decision not to wake it.
* **Closing under load.** `Close` may come at any time, from any goroutine, with others blocked in
  `poll(2)`.
* **Code nobody steps through.** The classifier is jumps and fixed offsets into bytes of unknown
  layout: a tag moves them, options and fragments put other bytes there, a block's early exit is
  another block's entry.
* **Failure half way.** `NewSocket` and `Open` are long sequences of fallible steps with fallbacks,
  and share kernel state (program slot, queues, maps, sysfs) with other fleets.
* **A world that moves meanwhile.** Other processes attach programs, a native attach bounces the link
  seconds after it returned, an index wraps between two samples of `Stats`.
* **Options that meet.** Options are closures over one struct, and `Open` adds flags of its own to theirs;
  one overwritten is invisible at bind.

What must hold, by component: rings are bounded FIFOs and neither side touches a slot the other
may use; every frame has exactly one owner, never strays into the other pool, and both hand-kept
counters are exact; packets of several fragments come out whole and in order; sending and receiving
do not halt, and no chain is sent cut; nothing is released under a method, `Close` ends, and `Stats` reports true
counts; every option is in force on the sockets, what `NewSocket` accepts is what
the data path assumes, and a failure leaks nothing; the classifier redirects exactly the packets the
rules mean, spares management traffic, and `MatchPacket` answers as it does; `Open` and `Close` return, an
open fleet delivers, a failed or closed one leaves nothing behind, NAPI values return to the host's when the
last fleet lets go, unless a write of them fails, and
`WaitLinkUp` does not report a link that is about to drop.

## 2. The modules

| Module | Models | Grain of a step |
|---|---|---|
| `BoundedFifo` | abstract: what a ring promises | a batch put, a batch taken |
| `SpscRing` | one ring; implements `BoundedFifo` | one load, slot access or store |
| `FrameOwnership` | abstract: who owns a frame and which hand-overs exist | a hand-over of frames between one pair of owners |
| `Socket` | the data path over four rings and two pools; implements `FrameOwnership` | a call's load of the peer's index, its publication |
| `RxPath` (`MCRxPath`) | the receive loop: `Fill`, `Poll`/`WakeupRx`, `ReceivePackets`, `RecyclePackets`, in-place forwarding | a call; `Poll`'s check and its system call apart |
| `TxProgress` (`MCTxProgress`) | the transmit loop: `SendFunc`/`sendBatchSG` with its chains, `Transmit`'s publication and kick, `Kick` | a call's section; one `sendto` |
| `Lifecycle` | `incref`, `decref`, blocking in `Poll`, `Stats`, `Close` | one atomic operation, lock or system call |
| `OpenOptions` | pure: the `With...` options, `newConfig`, `withDefaults`, `modeGroups`, the options `Open` gives a socket | |
| `SocketSetup` (`MCSocketSetup`) | `NewSocket`: validation, the acquisition and its failures | one system call |
| `Filter` (`MCFilter`) | the blocks of a filter and the program made of them, on a packet, for `Open` and for `MatchPacket` | one load with its comparison, one check, one jump |
| `Fleet` (`MCFleet`) | `Open`, `WaitLinkUp`, `Close`, the program's parts, registration, tuning, pinning, the redirect tail's verdict | one map update, attach, bind, unlock or reading of the link |
| `...Proofs` | the proofs about the module of that name (section 5) | |

How they fit. `SpscRing` shows that the memory protocol of a ring is a bounded FIFO, so `Socket` may
use sequences for its four rings. `SocketSetup` shows that what `NewSocket` accepts satisfies
`SocketAssumption`, the assumption of `Socket` and of its proofs. `Socket` names every frame and
says where each one is; `RxPath` and `TxProgress` keep only the continuation bits of the frames and ask who makes
things move on. `OpenOptions` is extended by both sides of a socket's making: `Fleet` takes from it the
modes and variants it walks through, `SocketSetup` the options a socket gets under each.
`Filter` decides which packets are for a socket, `Fleet` what becomes of those; `Fleet`
abstracts a socket to "bound to a queue".

Correspondence of state and actions:

* `SpscRing`: `producer`, `consumer`, `slots` are the shared memory; `pCursor`, `cCursor` are the
  locals `prod`, `cons`; `pPending` is what the loop still has to write and `cScratch` is `rxScratch`.
  The package is the producer of the fill and tx rings and the consumer of the other two; the kernel
  plays the opposite side by the same protocol (external).
* `Socket`: `at[p]` holds the addresses in place `p`: the pools, `popScratch`, the rings, the
  driver's hands, and `rxHeld`/`txHeld` for descriptors the application holds. `...Load`/`...Reserve`
  actions are a call up to the point where it has settled on a count, `...Publish`/`...Release` the
  rest. `SendFunc` is its calls of `Complete`, `Alloc` and `Transmit` in order, with the rejected
  build as an error path. In hairpin mode one goroutine drives both sides, as the option demands.
* `RxPath`: `pkts` are the packets the application works on, `pktPartial` is the field of that name.
  `binding` chooses, once, need-wakeup or not, a loop that blocks in `Poll` or one that uses
  `WakeupRx`, and plain reception or forwarding.
* `TxProgress`: `pc` runs through `SendFunc` and `Transmit` into `Kick`; `retries` is Kick's budget;
  `held` and `ring` are descriptors, each by its `XDP_PKT_CONTD` bit; a batch is the list of the frames its
  payloads need; `binding` chooses the mode the kernel granted, need-wakeup, and the sizes of payloads.
* `Lifecycle`: `pc[g]` is the goroutine's position in `incref`, `Stats` or `Close`, `held[g]` its references.
  `last` and `total` are one `ringCounter`, `statsMu` its lock's holder, `cur[g]` the index a sampler loaded;
  `passed` counts the packets for the property, and the index is `passed % IndexMod`.
* `OpenOptions`: an option is a record of its name and argument, `Apply` its closure; a config holds the
  fields of `Options` that decide something.
* `SocketSetup`: `raw` is what `NewSocket` is passed, by a direct caller or by `Open` from `list`; `opts` what it
  works with; `step` the position in `Acquisition`.
* `Filter`: `base` and `data` are R9 and R7 as offsets, `queue` is R8; `blk` and `ip` are the
  position in the program; `call` says who assembled it. `Build` gives a rule's instructions;
  `ClassifierBlocks` lays them out as `classifierBlocks` does. A block of a caller's own (`NewMatch`) is known by the registers
  it writes and by where it leaves to: R9 is the block's own, so the next block may not rely on it. `LocalPrefixes` is
  `localPrefixes`: the addresses of the interface (`parent`) and of its VLANs (`children`), any of which may be unreadable. `Field` is the only place that knows a packet's layout: past options,
  extension headers or a second tag a load finds the packet's `stray` value, which may be a port
  somebody asked for. Values are compared as on the wire, since `netshort` and the load swap alike.
  `Meets` is the reference: what a rule means in terms of the fields the packet is long enough to carry (`Carries`,
  `HasPort`), whatever its length. A rule about a port asks for one tag at most, no IPv4 options and no extension
  headers; a rule about a protocol or an address takes IPv4 options in, as the code does (see section 4).
* `Fleet`: `pc`, `group`, `bind`, `q` are the position in `Open`'s loops; `qidconf`, `xsks` the maps;
  `loaded` the program and maps made so far; `pinned` is `openFleets`; `handle`, `tuningRefs`, `saved`, `napi` are
  `tune.go`; `ups` is `WaitLinkUp`'s counter, `carrier`, `bounces` and `quiet` the link it reads (external: how
  often it still drops, and how many readings it has kept its state for). `Detach` is `Program.Detach` with what its caller
  does next, in `Open` or in `Close`: by the link, or by `removeProgram`, which waits (`"undoing"`, `"detaching"`) or fails
  (`DetachFails`, `DetachGivesUp`); `attached = "left"` is a program whose removal failed and whom no fleet remembers. `lost` is
  a history variable, the NAPI values a failed write did not put back. The loop of
  `Open` over modes, bind variants and queues is unrolled into one action per fallible step. Without
  XDP links a later `Open` detaches the program of an open fleet (`removeProgram` takes whatever it
  finds); `MayOpen` states the restriction that applications open one fleet at a time there.

Definitions whose comment begins "Mutant of" are not part of the model: each is the code with one
plausible bug, kept beside the definition it would replace, and the property it breaks is named in
`PROJECT.json`.

## 3. The runs

| Run | Instance | What it shows |
|---|---|---|
| `SpscRing` | 4 slots, indices modulo 8, batches up to 5, every start index | `TypeOK`, `ReadsOldest`, `ImplementsFifo`: a FIFO across the wrap, nothing read while it is written |
| `Socket` | 2 rx + 3 tx frames, fill ring of 1, the others of 2 | `FramesUnique`, `NoFrameLost`, `RingsWithinCapacity`, `FilledIsExact`, `TransmittedIsExact`, `AllocatedFits`, `CountsCovered` with two goroutines and the kernel |
| `SocketHairpin` | 3 rx + 1 tx frames, rings of 2, one goroutine | the inductive invariant `IInv`, `RegionsKept`, `PoolsHoldBases`, `ImplementsOwnership` in hairpin mode |
| `RxPath` | 4 frames, rings of 2, packets of 1 to 3 fragments, three loops | `PacketsWhole`, `RxKeepsFlowing` |
| `RxForward` | the same, forwarder blocking in `Poll` under need-wakeup | finding 1 |
| `TxProgress` | 5 frames, tx ring 4, completion ring 2, packets of 1 to 3 frames, six bindings | `ChainsWhole`, `SendingProgresses`, `KickReturns`, `QueuedIsSent` |
| `TxCopyMultiBuffer` | the same, copy mode, packets of 2 frames | finding 2 |
| `Lifecycle` | 3 goroutines, 2 of them sampling, 2 nested references, an index modulo 3 | `HeldKeepsResources`, `OpsIsExact`, `CloseFinishes`, `StatsReportTrueCount` |
| `LifecycleAccessors` | 2 goroutines | finding 3 |
| `SocketSetup` | frame counts, splits, ring sizes and flags at the edges of the checks; every list of up to 3 of 15 options, on an ena or another driver | `AcceptedIsSound`, `OptionsHonoured`, `FailureLeaksNothing`, `CompleteBeforeBind` |
| `Fleet` | 2 fleets, one perhaps transmit-only, 2 of 3 queues, auto mode, links or none, foreign or left-over program at the start, foreign attaches at any time, every step failing, `Detach` and the put-back of sysfs values included; without links up to 2 bounces of the link after an attach | `TypeOK`, `UpDelivers`, `DropsOnlyAfterFailure`, `NothingLeftBehind`, `TunedWhileHeld`, `LinkUpIsSettled`, `CallsReturn` |
| `Filter` | 19 filters, some 1200 packets, from the smallest real frames down to cut ones, address words of 2 bits, both callers | `VerdictIsIntended`, `ManagementKept`, `LoadsInBounds` |

Bounds, and why they are enough:

* `SpscRing`: the arithmetic depends on the indices only modulo `IndexMod` and on their distance;
  every start index is an initial state, so each run wraps. Batches reach one beyond the ring so the
  clamp is exercised, and two descriptor values tell a stale slot from a fresh one.
* `Socket`: the smallest sizes at which each pool and ring can be empty, partly full and full
  independently, and a tx ring smaller than the tx pool (`AllocatedFits`). A call's `n` goes up to
  `MaxCount` = 3, beyond every ring. The proofs remove these bounds for what they cover.
* `RxPath`: a packet of three fragments spans more than a ring of two, so it must straddle calls;
  packets are numbered modulo 3 so that a lost, repeated or swapped one shows.
* `TxProgress`: pool, tx ring and completion ring of three different sizes; two retries suffice to
  tell a counted from an uncounted retry (`TxRingNumDescs/16 + 8` in the code). Batches of up to 3 payloads of 1 to
  3 frames (`MaxTxSegs`, 18 in the code) ask for more than the ring, and the pool can be short of what fits the
  ring; payloads of 4 are refused.
* `Lifecycle`: two closers and a method, or a closer and two pollers, need three goroutines;
  `Poll` calls `NumReceived`, so references nest to depth 2. Two samplers race each other; `MaxPassed` = 4 packets
  take an index modulo 3 past its wrap.
* `Fleet`: two queues give "a later queue fails", the third is one `WithQueues` leaves out; two fleets give
  sharing; auto mode has both the second bind variant and the second mode group. `Stable` = 3 readings (5 in the code)
  tell consecutive readings from others, and two bounces let a second one begin inside a wait. The link bounces
  only in the behaviours without XDP links (`MCMaxBounces`), which are fewer: whatever the kernel, at most one fleet
  is up and waits, the one whose program is attached. `WaitSettles` is proved for bounces on both.
* `SocketSetup`: three options let one come before and one after any other, and `WithOptions` replace both.
* `Filter`: the filters use every builder, alone and combined, exceptions of both kinds, and blocks
  `checkBlock` must refuse; the packets have 0 to 2 tags, every header variant a rule can tell apart,
  stray bytes equal to a port of some rule, and lengths on both sides of every bounds check, so that a check that
  asked for more than the field it guards shows too. Each whole packet ends with its headers: an ARP request of 42
  bytes, a TCP segment without data of 54, a solicitation of 62. Words of
  2 bits still have prefixes that end inside a word, at its edge and beyond it.

Deadlock is checked in `SpscRing`, `Socket`, `SocketHairpin` and `RxPath`, which never stop. It is
not in the others, where the system rightly ends (a closed socket, a packet decided, an application that stops sending,
`NewSocket` returning, a fleet the application keeps open for ever).

Fairness, and what justifies it:

* `RxPath`: weak fairness of the receive goroutine (the Go scheduler runs it whenever it can run),
  of the driver's reception (traffic keeps arriving) and of the device's sending. A timeout of
  `Poll` is possible but not relied on: the documented loop passes -1.
* `TxProgress`: weak fairness of the calling goroutine and of `Kick`'s loop, of the driver while it
  is awake and of the device's completions; strong fairness of a copy-mode `sendto` that takes
  descriptors, because a device may be busy any number of times but not for ever. Nothing is assumed
  about the application: it may stop at any time.
* `Lifecycle`: weak fairness of the steps of `incref`, of a woken poller and of `Close`; strong
  fairness of `decref`, because a method's code is finite but may make nested calls on its way.
  `PollReady` has none: no traffic and no timeout is needed for `Close` to finish.
* `Fleet`: weak fairness of the steps of an `Open` and of a `Close` that has begun; each is a call that returns. Nothing
  is assumed of the application, of other processes, of the link, nor that a lookup fails, and in particular not that
  the program for which `removeProgram` waits, in `Attach` or in `Detach`, ever goes away: `CallsReturn` says so.

The driver raises its need-wakeup flag and looks at the ring once more before it parks, in both
`RxPath` and `TxProgress`. This is the contract of the flag as the package relies on it; a driver that
parks without the second look would lose wakeups whatever the package does.

## 4. Findings

1. **`RxForward`**: a forwarder (`WithTxReuseRxFrames`) in `Poll(-1)` with need-wakeup can block for
   good. All receive frames are queued for transmission, so `Fill` posts nothing and `numFilled` is 0;
   without the flag `Poll` returns 0 at once (`socket.go:537`), but the parked driver's flag makes it
   enter `poll(2)`, which waits for a packet that has no buffer to arrive in. `Complete`, which would
   bring the frames back, is the next call of the same goroutine. The default sizes allow it: 4096
   receive frames, a tx ring of 4096.
2. **`TxCopyMultiBuffer`**: `sendBatchSG` kicks only when no slot is free (`multibuffer.go:144`). With
   fewer free slots than the next packet has frames it returns 0 without a kick, for ever in copy mode.
   The same cause has a second form in `SendFunc`: with `TxFrames` smaller than the tx ring the whole
   pool can be on a ring that is not full, `Alloc` returns nothing, `Transmit(nil)` returns before its
   kick. `TxFrames = 2, TxRingNumDescs = 4` and the binding `CopySingle` of `MCTxProgress` show it.
3. **`LifecycleAccessors`**: `NeedsWakeupRx` and `NeedsWakeupTx` read mapped memory without a
   reference, so `Close` in another goroutine may unmap it between their two loads.

Other differences between text and code met while modelling, without a run of their own. In the first six the
properties follow the code, and each says so in its comment:

* `NumFilled` "returns how many frames are currently posted on the fill ring awaiting incoming packets"
  (`socket.go:628-629`). The counter goes down in `Receive` (`socket.go:585`), so it still counts a frame whose packet waits
  on the rx ring. What `Poll` needs is the code's meaning, and `FilledIsExact` states that one: frames the kernel has,
  from `Fill` to `Receive`;
* `NumTransmitted` is "how many frames are on the tx ring not yet confirmed sent (i.e. not yet on the completion ring)"
  (`socket.go:859-860`). The counter goes down in `Complete` (`socket.go:826`), so it still counts frames on the completion
  ring. `TransmittedIsExact` states the code's meaning: queued and not yet reclaimed;
* `Options.XDPFlags` is "used by Program.Attach and OpenFleet" (`options.go:80-85`). `Attach` takes flags of its own, `OpenFleet`
  is `Open` with `WithOptions` (`fleet.go:338`), and `Open` overwrites the field with its mode group's (`fleet.go:188`): a caller
  who asks for generic mode there is opened native. `OptionsHonoured` covers the sizes and the other flags, those given
  by `WithOptions` included, and says of `XDPFlags` that they are the mode's;
* "on any error it cleans up whatever it already created" (`fleet.go:100`). When every bind variant failed, `Open` drops the
  error of `Detach` (`fleet.go:214`). With links the program goes all the same; without them a failing removal leaves it on the
  interface, and the error `Open` returns does not mention it. `Close` reports the error (`fleet.go:412`) and leaves the program
  too. `NothingLeftBehind` says that this is the only thing that can be left, and only there;
* "all of the port, protocol and echo matchers assume no IP options and no IPv6 extension headers, so a packet carrying
  either does not match" (the repository's `README.md:376-378`). `MatchIPv4Proto` (`filter.go:328`) has no header guard, unlike
  the port and echo matchers, and redirects a packet with IPv4 options. The protocol is where the matcher looks
  for it, options or not, and `VerdictIsIntended` sides with the code;
* TCP to and from port 22, addressed to this interface, and DNS replies are "passed to the kernel instead of being
  redirected" (`options.go:380-385`, the repository's `README.md:629-635`). The management rules are port matchers with their header
  guard (`filter.go:178`): a segment with IPv4 options, a later fragment or one behind an IPv6 extension header
  meets none of them, and `MatchAll` redirects it. `ManagementKept` judges the packets whose ports are where the rules look;
* after a bind variant failed part way its queues stay enabled while their sockets are closed, so that until
  the next variant has bound them their packets drop, where `filter.go:796` says unbound queues pass
  (`DropsOnlyAfterFailure` allows for it);
* a write that should put a NAPI value back may fail, after a half-applied tuning (`tune.go:101`) or at the last close
  (`tune.go:132-133`); the error is dropped, and the next tuning saves our value as the host's (`TunedWhileHeld`
  allows for it, for the value concerned), where `fleet.go:420` says the settings "belong to the host";
* the repository's `README.md:697,700` give defaults of 4096 frames and rings of 2048, the code 8192 and 4096
  (`options.go:88-109`);
* its `README.md:645` says that management rules cover every address, "however many of each", and `Open` refuses an
  interface with more than 16 (`fleet.go:299`);
* `WithKeepManagement` says that addresses which cannot be determined widen its rules to any destination
  (`options.go:394-396`), but when only the listing of the interfaces or the addresses of a VLAN fail, `localPrefixes` goes
  on with those it has (`fleet.go:275-283`) and sessions over that VLAN are not spared (`ManagementKept` allows for it);
* `WithFilter(MatchAll(), ...)` with another match after `MatchAll` leaves that block unreachable, which the kernel's
  verifier refuses, although matches "combine freely" (`filter.go:24`);
* `options.go:214` says that no filter redirects everything, and `Open` refuses it;
* a ring size of 0 does not disable a direction (`options.go:50`), because `withDefaults` replaces it;
* the methods said to return zero values after `Close` (`socket.go:1071-1072`) include `FreeRxFrames`, `NumFilled` and
  others that keep answering from their fields;
* without links the `Open` of a second fleet removes the program of the first;
* a second `WithKeepManagement` forgets the first one's ports; `WithNAPITuning` with a flush of 0 is ignored; `WithOptions` after
  `WithMultiBuffer`, against its advice, leaves a program that takes fragments over sockets that do not;
* exceptions are not validated when the filter is `MatchNone` alone, while `MatchPacket` refuses the same options;
* `WaitLinkUp` with a timeout below about 0.8 s returns false on a link that never moves.

## 5. The proofs

Every invariant, action property and refinement the passing runs check is proved for every value of the constants that
satisfies the named assumptions; only liveness is left to TLC. The assumptions are what the code enforces or what the
constants are by their type; `SocketAssumption` in particular is what `NewSocket` accepts, which is itself a theorem
(`AcceptedFits`), and `FilterAssumption` says what the builders can be given and what a packet's headers can hold.

| Module | Theorems (property) | For every |
|---|---|---|
| `SpscRingProofs` | `Invariant`, `TypeCorrect` (`TypeOK`), `ReaderGetsOldest` (`ReadsOldest`), `RingIsFifo` (`ImplementsFifo`) | ring size, index width that is a multiple of it and at least twice as large, batch size, set of descriptors |
| `SocketProofs` | `Invariant` (`IInv`), `TypeCorrect` (`TypeOK`), `NoFrameShared` (`FramesUnique`), `NoFrameLeaks` (`NoFrameLost`), `PoolsNeverMix` (`RegionsKept`), `RingsNeverOverfilled` (`RingsWithinCapacity`), `NumFilledExact` (`FilledIsExact`), `NumTransmittedExact` (`TransmittedIsExact`), `StaleCountsCovered` (`CountsCovered`), `PoolsHoldWholeFrames` (`PoolsHoldBases`), `AllocatedAlwaysFits` (`AllocatedFits`), `SocketIsOwnership` (`ImplementsOwnership`) | UMEM, split, ring sizes, call sizes, both modes |
| `LifecycleProofs` | `Invariant`, `NoUseAfterUnmap` (`HeldKeepsResources`), `CountExact` (`OpsIsExact`), `StatsReport` (`StatsReportTrueCount`) | finite set of goroutines and samplers, nesting depth, index width |
| `FleetProofs` | `Invariant`, `TypeCorrect` (`TypeOK`), `OpenDelivers` (`UpDelivers`), `DropsFollowFailure` (`DropsOnlyAfterFailure`), `LeavesNothing` (`NothingLeftBehind`), `TuningHeld` (`TunedWhileHeld`), `WaitSettles` (`LinkUpIsSettled`) | finite set of fleets, number of queues, mode, number of bounces and of readings |
| `SocketSetupProofs` | `Invariant`, `FailureIsClean` (`FailureLeaksNothing`), `AcceptedFits` (`AcceptedIsSound`), `QueueIsComplete` (`CompleteBeforeBind`), `OptionsAreHonoured` (`OptionsHonoured`) | integers in the `Options`, list of options of any length |
| `RxPathProofs` | `Invariant`, `TypeCorrect` (`TypeOK`), `PacketsAreWhole` (`PacketsWhole`) | number of frames, ring sizes, length of packet, budget, binding |
| `TxProgressProofs` | `Invariant`, `TypeCorrect` (`TypeOK`), `ChainsAreWhole` (`ChainsWhole`) | number of frames, ring sizes, batch, packets up to any limit, retry budget |
| `FilterProofs` | `Invariant`, `LoadsStayInBounds` (`LoadsInBounds`), `VerdictsAreIntended` (`VerdictIsIntended`), `ManagementIsKept` (`ManagementKept`) | sequence of filters of any number of rules, ports, addresses and prefixes, set of packets with any headers, lengths and number of tags, width of a word |

Each of these modules states for itself what it needs and the library does not have: remainders and quotients, a
least-number and an induction lemma about sets of naturals, what flattening a sequence of sequences gives.

The arguments, component by component; in each, the properties are not inductive alone, and the invariant says why they
hold.

* **A ring.** Counted from the consumer's index, the slots hold first what is published, then what the producer has
  written of its batch, then room for its rest (`ProducerWindow`); the consumer's copy is the front of the published
  ones (`ConsumerWindow`). The windows together fit the ring, so slots told apart by their distance from one index are
  different slots, although both indices wrap: this is where `IndexMod % NumDescs = 0` is needed. For the refinement, the
  store of an index is the abstract put or take and every other step stutters.
* **The data path.** `IInv` has named parts. `Custody`: every frame is in exactly one place, once. `Regions`: which
  region's frames a place may hold. `Control`: types, and what each program counter says about the scratch places.
  `RxCounts` and `TxCounts`: the counters equal the lengths they stand for, rings are within capacity, and a count settled
  on is still covered. `FilledIsExact` is preserved by `ReceiveRelease` only because the count it settled on is still
  covered, which needs that only the receive goroutine shortens the rx ring; `RegionsKept` survives `CompleteOne` only
  because a frame that comes back by the completion ring is of one region, which needs `Custody`'s typing of every
  address. Every action that moves frames is a `Move`: it splits the frames of one place and appends a part to another.
  `MoveKeepsCustody` shows that a move by a split keeps every frame in one place; one lemma per action then shows that
  it preserves `IInv`. The third part adds what needs more: `PoolsHoldBases` beside `IInv`; `FitsInv`, by which
  `AllocatedFits` is tied to what a call still has to transmit; and the refinement, each `Move` being a hand-over between
  one pair of owners.
* **Closing, and counting.** The count is exact (the references held and the attempts not yet decided, as cardinalities of
  the sets `References` and `Attempts`), so a `Close` that finds it zero finds no reference, and none is taken any more once
  the flag is up (`ReleasedUnused`). For `Stats`, the sampler that holds the mutex has an index whose count lies between
  the total and the packets passed, less than a turn apart, so the wrapped difference it adds is the true one
  (`CounterTrails`, `SamplersExclude`). That the counter is sampled at least once a turn is a guard of the model, as it
  is the assumption of the code.
* **Fleets.** What a failed `Detach` leaves is told from a fleet's own program by the value `attached` takes, and exists only
  without links; what a failed write leaves is recorded in `lost`, one value at a time. `Placed` says, for each place an `Open` or a `Close` can be at, which queues have a socket, are in the map and
  are enabled: those its loop has passed and those still to come. `Exclusive`, `Tuned` and `LinkFollowed` tie the fleets
  together: the one program of an interface, the handles on the tuning, the bounces `WaitLinkUp` has sat out.
* **Setup.** What `newConfig` computes is found by induction over the list of options: each is in force once applied, and
  stays so until one overrides it (`Origin`), sizes one by one, since `WithOptions` sets them all. What `NewSocket` holds is found from the steps taken so far (`Progress`).
* **Receiving packets.** What the loop of `ReceivePackets` cuts out of a run of fragments is found by induction over
  the run (`CutIsWhole`). That the run starts where a packet starts, however earlier budgets fell, is a fact about the
  whole line of fragments from the application's hands over `pktPartial` and the rx ring to the one the driver receives
  next: each follows the one before (`Ordered`). A call only moves the boundaries in that line.
* **Sending packets.** From every descriptor a packet's last one is within `MaxTxSegs` (`Closed`). That holds of a chain,
  survives joining and the removal of a prefix, hence holds of what `Fit` selects and of what a device leaves. That `Fit`
  selects something is a least-number argument over the batch. The frames' count shows that what was fitted to the
  ring and refitted to the pool never exceeds either.
* **The filter.** Every block the builders emit is a head, which puts the base behind one tag, and one or two arms: a
  bounds check, a list of tests, a jump to redirect (`OneArmShape`, `PortShape`). What the tests of an arm mean is proved
  from the layout of a packet (`OneArmMeans`, `PortArmsMean`): once the base is behind the tag, a packet passes them all
  exactly when it meets the rule, whatever its length and whatever stray bytes lie where its L4 header is not: a check asks for the
  end of the field the rule needs, and no further. For prefixes this is a fact about
  numbers, that shifted words are equal exactly when their leading bits are (`LeadingBits`, `InsideByWords`, by
  induction over the bits). The invariant says that where the program is in a block explains what the packet has passed
  (`InBlock`: the base, the reach checked, the tests behind) and that no earlier rule is met (`Missing`); so a block left for
  the next one is that of a rule not met, and one left for its verdict is that of the first rule met
  (`RuleStep`, `FirstMet`). No register an earlier block left behind is relied on, because every head sets the base itself and
  `checkBlock` refuses the writes that would survive (`RunKeeps`). `RuleLoads` reads the bounds off the same invariant.
  `ManagementKept` then needs that the management exceptions hold a rule for each port and each host, as
  `managementExceptions` lays out their product, and that `localPrefixes` drops no address (`DistinctKeeps`).

Recursion in the modules proved about is by recursive functions (`NewConfig`, `Cut`, `Flat` for `FlattenSeq`, `Pow2`,
`Distinct`), whose values are found with a set form of induction: the library's induction theorems take an operator as
parameter and cannot be instantiated by the installed provers, a set can be given to them.

Two things the proofs of `Filter` found about an earlier form of the model: it reduced every field modulo 2^16, which loses
half of an address once words are 32 bits wide, while the 2-bit words of the run cannot show it; and it had a caller's own block
leave R9 alone, which the code lets it write, so that the later blocks did not have to set the base for the properties to hold.

Model-checked only:

* Liveness under fairness (`CloseFinishes`, `SendingProgresses`, `KickReturns`, `QueuedIsSent`, `RxKeepsFlowing`,
  `CallsReturn`), which is out of the prover's reach.
* The findings' runs, which are refutations.

## 6. Not modelled

* Packet contents, lengths and offsets beyond base and headroom, and with them `CopyOut`; formatting and reporting
  (`info.go`, `filterDesc`, `Stats.String`), which read state and keep none.
* The loading and verification of eBPF programs, beyond the fact that it may fail. `newRedirectProgram`, which `Open` never
  reaches (it demands a filter): only direct callers of `NewProgram` do. Its tail is the one `Fleet` models, except that a
  queue beyond its map is passed neither to a socket nor to the kernel (the lookup's miss returns action 0).
* `statKicks` and the other plain atomic counters, `XDP_STATISTICS`, and three of `Stats`' four alike `ringCounter`s.
* `PollWith`'s extra descriptors (its wait is `Poll`'s).
* `bpfmatch` and `pcapfilter`, which convert expressions through libraries; the examples, which are applications.

`PROJECT.json` gives the reason for each part.

## 7. Plan

Done, in this order: `SpscRing`, `Socket`, `Lifecycle`, `TxProgress`, `SocketSetup`, `Fleet`, the frame accounting in
`SocketProofs`, `RxPath`, `Filter`; then `Stats` in `Lifecycle`, `OpenOptions` with `SocketSetup`'s second entrance, `WaitLinkUp`,
`removeProgram`'s wait, foreign programs and transmit-only fleets in `Fleet`, `MatchPacket` and the scope of the
management rules in `Filter`, chains in `TxProgress`; then the proofs of section 5, those of `Filter` last. What is left:

1. The abstraction steps between the modules that are still arguments in prose: that `Socket`'s four sequences are what
   `SpscRing` implements, and that `SocketSetup`'s accepted options are `SocketAssumption` as a formula.
