# A TLA+ model of the PotatOS kernel

PotatOS is a small 32 bit x86 kernel in C++ (`src/src`, `src/include`). This
directory models the parts of it that have state and a life of their own: the
heap, the network card with ARP on top of it, interrupts, exceptions and tasks,
the PS/2 devices, the desktop down to its pixels, the PCI scan that puts the
drivers together, and the text console with printf. TLC checks the models on
small instances; TLAPS proves every safety property that TLC checks, for every
instance.

Contents: 1 the system, 2 the modules, 3 the runs, 4 proofs, 5 assumptions and
abstractions, 6 where the code disagrees with what it says, 7 what is not
modelled, 8 plan.

## 1. The system

One processor runs `kernel_main` (kernel.cpp) on one stack. Interrupts are off
until `InterruptManager::Activate`; afterwards any hardware interrupt may stop
`kernel_main` between two instructions, runs its handler to the end (all gates
are interrupt gates, so handlers do not nest) and returns. So every structure a
handler and `kernel_main` both use is shared state without a lock.

| component | state | operations | talks to |
|---|---|---|---|
| kernel heap (memorymanagement.cpp) | doubly linked chunk list | constructor, malloc, free | PCI scan, Ethernet, new/delete |
| network card driver (am79c973.cpp) | two descriptor rings, buffers, indices | constructor, Activate, Send, HandleInterrupt, Receive | the card (DMA, CSR0), Ethernet |
| Ethernet frame provider (ethernetframe.cpp) | table of handlers by type | OnRawDataReceived, Send | card driver, ARP, heap |
| ARP (arp.cpp) | cache of 128 pairs, fill index | OnEthernetFrameReceivedData, Resolve, RequestMACAddress, GetMACFromCache | Ethernet, kernel_main |
| interrupt manager (idt.cpp, idt_stubs.s) | handler table, descriptor table, the two 8259A | registration, Activate, DoHandleInterrupt for interrupts and exceptions | every driver, task manager |
| task manager (multitasking.cpp) | task table, current task, saved contexts | Task, AddTask, Schedule | interrupt manager |
| PS/2 drivers (keyboard.cpp, mouse.cpp) | shift flag; packet buffer, offset, buttons | Activate, HandleInterrupt | one shared controller, desktop or console |
| desktop (desktop.cpp, widget.cpp, window.cpp, vesa.cpp) | cursor, windows, dragging flags, double buffer | OnMouseDown/Up/Move, Draw, FillRect, DrawRect, Swap | mouse handler, kernel_main |
| PCI scanner, driver manager (pci.cpp, driver.cpp) | driver table | SelectDrivers, GetDriver, AddDriver, ActivateAll | heap, card driver, interrupt manager |
| text console (vga.cpp, stdio.cpp, kernel.cpp) | cursor, `videoAddrIndex`, video memory, a literal "00" that is written to | printf and its conversions, vga_putEntry, vga_scroll, MouseToConsole | everybody |
| boot, segment descriptors, ports, string helpers, compositor | none that changes after boot | | |

What is hard in it, and what makes each part correct:

* **Heap.** malloc splits, free merges on both sides; a wrong link shows only in
  a later call. Correct: the list always tiles the heap and is linked both ways,
  no free neighbours, blocks keep their bytes, malloc refuses only what cannot
  fit, and its walk ends.
* **Card and rings.** Driver and card advance through the rings independently;
  CSR0 is acknowledged with a stale copy; `kernel_main` and the handler both call
  Send; frames with errors leak descriptors. Correct: each side's index stays in
  step with the frames really stored and sent, no descriptor is used twice, every
  interrupt ends, every frame is read (it is not: section 6).
* **ARP.** Lookup in `kernel_main` against insertion in the handler. Correct: the
  MAC that Resolve returns was announced for that address, answers go only to
  those who asked, Resolve returns once answered.
* **Interrupts and tasks.** Contexts saved and restored by interrupts at any
  instruction, cascaded controllers that block lines that are not ended. Correct:
  code resumes with its own registers, nothing stays in service, tasks take turns.
* **PS/2.** Two drivers, one port, no marking of whose byte is whose except a
  status bit only the mouse driver reads. Correct: three byte packets stay in
  frame, buttons and shift follow the user, no byte blocks the queue, activation
  ends.
* **Desktop.** Mouse interrupts during the drawing loop; drag and drop over
  overlapping windows. Correct: a window moves only while it is dragged and with
  the cursor, drags end, what is clicked is what is seen, the screen catches up.
* **Text console.** printf in `kernel_main` and in interrupt handlers on one cursor
  and one `videoAddrIndex`; hexadecimal digits go through a shared string literal;
  scrolling moves the inverted cell of the mouse; positions in an int8_t. Correct:
  the screen shows the end of what was printed, in order, nobody writes far behind
  the screen, numbers read back, one cell is inverted.
* **PCI.** Uninitialised locals, a heap that may refuse, a table that
  `kernel_main` indexes with a constant. Correct: each card has one driver with
  its own port, the third driver is the first card, vectors lead to live drivers.

`PROJECT.json` lists the hazards line by line, with the properties that cover
them.

## 2. The modules

| module | extends | models |
|---|---|---|
| `Allocator` | | what a heap promises, without chunks or lists |
| `MemoryManager` | | the heap; refines `Allocator` |
| `MemoryManager_proofs` | `MemoryManager` | proofs (section 4) |
| `Am79c973` | | the card's driver and, external, the card |
| `Network` | `Am79c973` | Ethernet, ARP and text mode's `kernel_main` over the driver; gateway and other hosts external |
| `Network_proofs` | `Network` | proofs of the driver and the stack (section 4) |
| `TaskManager` | | `Task`, `AddTask`, `Schedule` |
| `InterruptManager` | `TaskManager` | stubs, dispatch, exceptions, end of interrupt; controllers external |
| `InterruptManager_proofs` | `InterruptManager` | proofs (section 4) |
| `Ps2` | | both PS/2 drivers; controller, keyboard and mouse external |
| `Ps2_proofs` | `Ps2` | proofs (section 4) |
| `Desktop` | | mouse packets on the desktop and its windows |
| `Surface` | | vesa.cpp: which pixels FillRect, DrawRect and PutPixel write |
| `DesktopScreen` | `Desktop`, instance of `Surface` | graphics mode's drawing loop pixel by pixel, composed with the packets |
| `DesktopScreen_proofs` | `DesktopScreen` | proofs of the desktop and its screen (section 4) |
| `Pci` | | scan, driver table, handlers, the driver `kernel_main` takes |
| `Pci_proofs` | `Pci` | proofs (section 4) |
| `Stdio` | | stdio.cpp: what printf makes of a format and its arguments |
| `Stdio_proofs` | `Stdio` | what printf's operators return (section 4) |
| `Console` | `Stdio` | vga.cpp and MouseToConsole, printing by `kernel_main` against handlers |
| `Console_proofs` | `Console`, `Stdio_proofs` | proofs (section 4) |
| `MC*` | one of the above | values for TLC |

In every module names follow the source. Operators whose comment begins with
"Mutant:" are plausible mistakes in the code; replacing the definition they
precede by them must violate the property that `PROJECT.json` pairs them with.
They are not part of any specification.

**MemoryManager.** `chunk` maps the address of each linked header to its fields;
`first` is the constructor's. malloc is one action per iteration of its loop
(`MallocSkip`), with the loop variable in `cursor`, then `MallocTake` with the
split, or `MallocFail`. free is one action with both merges. `live` is what
callers hold: a caller frees what malloc gave it, once. No handler allocates, so
one call runs at a time. size_t arithmetic wraps at `WordSize` where the code
adds to an unchecked request (line 47).

**Am79c973.** `rx`, `tx` are the ownership and error bits of the descriptors,
`rxBuffer`, `txBuffer` what a reader of the buffers finds. The handler is a
program counter (`receive`, `send`, `publish`, `giveBack`, `ack`) so that the card
may act between any two of its accesses. `kernel_main`'s Send is split further,
because line 176 reads `currentSendBuffer`, and reads and writes it again, and
the handler may call Send in between; it makes a step only while no handler
runs. `stored`, `taken`, `published`, `wire` and `spoiled` are history used only
by properties. Buffers are rows of eight bytes (am79c973.hpp:84), rounded up to
16: what is written to one runs over what is read of those around it (`RunsOver`),
and `Store` turns these into `Nothing`, a content that is not followed. An answer is
copied with the length of the buffer, cut to 1518 (`AnswerSize`), so in those rows it
runs over every buffer behind it.

**Network.** A frame has the Ethernet header that `OnRawDataReceived` tests and
rebuilds (destination, source, type) and a body that is an ARP message or
`Noise`; `Registered` is the handler table by type. `OnReceived` is the handler
from Receive down to `AddToCache` or the answer built in place. Resolve is
`LookupMatch` per cache entry, `LookupReadMAC` (the interrupt may come between
comparing the address and reading the MAC), one `RequestMACAddress`, then the
loop. The uninitialised cache holds any value of `Leftover`.

**InterruptManager, TaskManager.** A context is a stack and the registers;
`progress` remembers what each stack had computed. `TakeInterrupt` is the stub's
entry, `CallHandler`/`Panic`/`ScheduleNext`/`EndMaster`/`EndSlave` the body of
`DoHandleInterrupt` in its order, `Return` the stub's exit. Tasks may be added at
boot, as the lines commented out in `kernel_main` would. An exception may be raised
wherever `FaultsAt` says: before `Activate` (`FaultAtBoot`) and afterwards (`Fault`), by
what runs and by what a handler executes. No handler is ever registered below
0x20, so after `Activate` an exception ends in the loop that an unknown interrupt
ends in, whatever it interrupted.

**Ps2.** `out` is the controller's queue; a read of the empty queue returns
`last` again. `pc` walks through both Activates port access by port access. The
interrupt handlers are one action each (they run with interrupts off and the
controller orders their bytes). `calls` is what the mouse driver's handler is told
for a packet. `place`, `first`, `shifted`, `reported`, `told`, `meant` and
`disturbed` are history.

**Desktop, DesktopScreen, Surface.** A packet is one action: movement, then up to
three buttons, against the windows, first child in front. `Dragged` keeps the two
loops of `CompositeWidget::OnMouseMove`. `DesktopScreen` adds the drawing loop one
operation at a time: `back` and `screen` map the index of each pixel to the paint
on it, `Frame` is the order of `Desktop::Draw`. `Surface` computes the pixels as the
code does: `Filled` is FillRect's running offset with its skips and unsigned wrap,
`Outline` the four sides of DrawRect, without the corner its loops leave out. A
drawing operation is one step, so a mouse interrupt falls between two of them.

**Stdio, Console.** `Stdio` turns a format and its arguments into operations on
the screen, one list for each iteration of printf's loop: characters to put, and
for printfHex the stores into the literal "00" (`foo`) that precede them. `Console`
executes them in `kernel_main` one memory access at a time (`main.pc`: `row`,
`column`, `write`, `load`, `store`, ...; `vga_putEntry` reads and writes the cursor
several times) and in handlers as a whole. `con` is what both share. `text`, `torn`,
`ghost` and `said` are history: what was printed in order, whether a handler printed
at a point where the code cannot bear it (operator `Tears` names these points),
whether something was printed over the mouse's cell, and the last conversion.

**Pci.** The three loops are one walk over `place`, eight places to a device.
`device` and `bar` are SelectDrivers' locals with their leftovers. `handlers`
maps a vector to the position of the driver that registered last.

## 3. The runs

| run | states | question and result |
|---|---|---|
| `heap` | 53429 | 13 bytes, headers of 2, five sizes from 0 to one whose rounding wraps: shape, coalescing, blocks, refinement of `Allocator`, termination |
| `network_busy` | 384254 | another host sends three good or bad frames, requests and stray replies, while Resolve runs, with buffers of the documented length: rings in step, honest answers, honest results, handler ends |
| `network_quiet` | 139 | only the gateway: Resolve returns |
| `network_unread` | violation | every stored frame is read: no (section 6) |
| `network_overlap` | violation | a stored frame stays intact until it is read: no (section 6) |
| `interrupts` | 213920 | timer, keyboard, mouse and card lines and one without a driver, exceptions anywhere in C++ code, up to two of three tasks: contexts, ends of interrupt, turns until a panic |
| `interrupts_panic` | violation | the handler always returns: not on the real time clock's line (section 6) |
| `ps2` | 232308 | two keys (one a shift), several packets, any status byte the boot leaves |
| `desktop` | 50166 | 4 by 3 pixels, two overlapping windows, two buttons, any packets, in frame or not |
| `desktop_screen` | 228805 | 2 by 3 pixels, two windows of which one hangs over three edges, drawing loop against mouse interrupts: what is clicked is what was drawn, FillRect is its naive form, the screen catches up |
| `pci` | 29634 | 36 machines, full heaps, both modes |
| `console` | 2157409 | 2 by 3 cells, `kernel_main` printing text and numbers against up to three handlers that print or move the mouse; every conversion of 12 numbers |

Why the bounds are enough.

* *heap*: with 13 bytes and headers of 2 up to four chunks fit, so each pattern of
  a free, allocated or missing neighbour on either side occurs, as do splits that
  are worth it by exactly one byte and requests whose size wraps.
* *network*: `NumBuffers = 3` makes both rings wrap and fill (3 arrivals and the
  gateway's answer); the code's 8 behaves the same with longer traces, and
  `network_quiet` uses 8. A cache of 2 fills and wraps; 128 differs in length
  only. `MaxArrivals` bounds what others send, not what the handler does.
  `network_busy` has rows of 2063 bytes, the length am79c973.hpp:81 means, so that
  contents can be followed; the other network runs have the code's 8. Which
  descriptors are used does not depend on it, only what is found in the buffers.
  Deadlock is not checked in these runs: when the network falls silent and
  `kernel_main` has resolved its address, nothing is left to happen.
* *interrupts*: two tasks from a pool of three show every order; the fifteen lines
  of the code differ only in which controller they are on and whether they have a
  driver, and lines 0, 1, 8, 11, 12 cover all cases. `Registers = 2` tells one's
  own registers from stale ones. The deadlock check is off, because a line without
  a driver stops the processor for good; `EveryTaskRuns` excepts just that.
  Exceptions are allowed in all of `kernel_main`, the tasks and the C++ part of the
  handler; the stubs only save, load and jump.
* *ps2*: `QueueLimit = 2` bytes let each device put one behind the other's; the
  first byte's interrupt is what matters. A shift key and one other key let every
  order of press and release of the two be read late. Deadlock is not checked: a
  run in which the user has left is a legal end.
* *console*: two columns and three rows wrap, scroll and let the mouse's cell move
  off the screen within a few characters; the texts before `Activate` end on the
  first row, on the last, or after a scroll. Three interrupts let a second and
  third handler fall into the consequences of the first. `HalfByte = 4` is just
  above the screen, as 128 is above 80 columns, so a movement can pass it.
  `Bits = 16` keeps the numbers small; 32767, 32768 and 65535 are on either side of
  the sign, 10 and 1000 at the change of the number of digits. Numbers are printed
  at boot, one each; with interrupts on, one decimal and one hexadecimal.
  `kernel_main` ends in `while (1)`, so the deadlock check is off.
* *desktop*: a 4 by 3 screen has corners, edges and an inside, two windows overlap
  and hang over the edge; movements of both signs in both axes clamp at each edge.
  `desktop_screen` has six pixels: windows stick out at the left, right, top and
  bottom, so that every clipping branch of FillRect and the wrap of its unsigned
  offset (`Word = 64`) occur; `CursorRows = 3` cuts the cursor at two edges.
* *pci*: three devices of eight functions are enough for a device before, between
  and behind the cards, for two cards on one vector, for a card on a function
  other than 0 behind an absent function 0, and for one that answers at every
  function. `Rooms` lets the heap refuse the first, the second or no driver.
  `kernel_main` ends in `while (1)`, so the deadlock check is off.

Fairness, and why the code justifies it. The processor always executes something,
so a loop without a wait in it goes on: weak fairness of malloc's loop, of
`Main`, of the handlers' steps. Interrupts are delivered as long as they are
enabled and the line is raised (level triggered for the card; `SF` for
`TakeInterrupt`, as the processor is between instructions again and again). The
card transmits a descriptor it owns and the gateway answers a request: the
program's own assumption, used by `ResolveReturns` and for nothing else. The
timer ticks. No fairness is put on users, other hosts or other devices. Two
liveness properties have an explicit premise: `ActivationEnds` if the user does
not type for ever, `ScreenCatchesUp` if the mouse comes to rest.

Properties with an exception name it: `ReceiveInStep` while no frame came in bad
(`NoBadFrame`), `SendInStep` until two calls of Send met or the ring was full
(`spoiled`: the code does not defend against either), `AnswersWereAskedFor` until
then too, and only in buffers of the documented length (`RoomyBuffers`),
`ResolvedIsAnnounced` until
the cache wrapped (or what the memory under it held named the gateway), the PS/2
properties until a byte was read by whom it was not
meant for (`disturbed`), `HandlerReturns` until every descriptor has leaked,
`ShowsWhatWasPrinted` until a handler printed at a point where the code has read the
cursor and not yet moved it (`torn`), `MouseShown` until its cell was printed on
(`ghost`). `NumbersReadBack` claims the whole numeral for decimal and binary numbers
below half the word, of larger ones only that %u prints the last digits of theirs;
hexadecimal output it claims until a handler has torn it (`torn`); negative numbers in
%i, %b and %B it leaves out. `PortsAreOwn` is about cards that are endpoints (header
type 0, `HasOwnPort`). The exceptions are real behaviours of the code; each is a hazard in
`PROJECT.json`, whose note says what no property catches.

## 4. Proofs

### The heap

`MemoryManager_proofs` proves, for every heap address, size, header size, word
size and set of requests (only `HeapAssumption`: the heap starts above 0 and ends
below the word size, headers have at least one byte):

* `HeapInvariant`: `Spec => []IInv`, with `IInv` the conjunction of `TypeOK`,
  `ListDescribesHeap`, `FullyCoalesced`, `BlocksIntact`, `SearchedInVain` (what the
  running search has passed does not fit) and `AtRest` (no cursor between calls).
* `TypeCorrect`, `ListCorrect`, `CoalescingCorrect`, `BlocksCorrect`: its parts.
* `HeapImplementsAllocator`: the heap refines `Allocator`.
* `SearchEnds` (`SearchAdvances`): what is safety in `MallocReturns`. While a malloc
  runs nothing else happens to the heap, and each iteration returns or leaves at
  least a header behind (`Unsearched`), so there are at most `HeapSize \div H`.

The argument. None of the parts is inductive alone. `free` finds the chunks to
merge through `prev` and `next`, so that a merge keeps the tiling needs both
links to be right, and that the links are right after it needs the tiling (the
chunk behind starts where this one ends). Coalescing after a merge needs
coalescing before it: the chunk behind the one merged is in use, or it would
have been merged. `BlocksIntact` needs the tiling for `MallocTake` not to hand out
a byte twice, and the upper bound on slack comes from the split's condition.
`SearchedInVain` is what makes a refusal honest: when the cursor reaches the end
no free chunk is large enough, and with `FullyCoalesced` a free run of bytes lies
within one free chunk, so the abstract `Refuse` is enabled. The lemmas about
`Split` and `Absorb` are stated on an arbitrary chunk map, so the two merges of
`free` are two uses of one lemma.

### The network stack

`Network_proofs` proves, for any number of buffers and cache entries, any width of
the buffers' rows, any leftovers and messages (`RingAssumption`, `StackAssumption`: the numbers are positive): `NetworkInvariant`
and its parts `TypeCorrect`, `ReceiveCorrect` (`ReceiveInStep`), `SendCorrect`
(`SendInStep`), `ResolveCorrect` (`ResolvedIsAnnounced`), and `AnswersCorrect`
(`AnswersWereAskedFor`).

The argument. An index of a ring is a count of frames modulo `NumBuffers`; the
lemmas `SlotAfter`, `SlotsApart` and `SlotOnceRound` are all the arithmetic there is.
For receiving, driver and card are both `Slot` of what they have taken and stored,
and the descriptors the host owns are exactly those between; this needs that
while the handler looks at a frame, that frame's descriptor is the host's and
good. For sending, the driver's index runs ahead of the card by what was published
plus what a running Send has claimed; the card owns what was published and not
sent, except a descriptor that is being filled. That a claim by the handler lies
before the claim of an interrupted `kernel_main` or after it, but never on it, is
`SenderInStep`. Once two calls have met or the ring was full (`spoiled`) nothing is
claimed. For the cache, `CacheInStep` says that until it wraps it holds what was
heard, in order, then the leftovers; so an entry once matched stays what it is
until its MAC is read (`MatchHolds`), although the handler may write in between.

`AnswersCorrect` needs more: what every buffer of both rings holds, and what has
been on the wire, was received, is an answer to something received, or is our own
request (`OriginInv`). It assumes nothing of other hosts, which may send any message
and claim our address too. Its exceptions are those of the property: buffers shorter
than am79c973.hpp:81 says, in which frames mix (nothing is claimed of what a mixture
spells), and calls of Send that met. In between it uses that a frame that Send copied
stays in its buffer until it is transmitted (`SentIsCopied`, below).

`RoomyBuffersKeepFrames` and `RoomyBuffersSendFrames` say what the dimensions of the
two arrays cost (section 6, `network_overlap`). They assume rows as am79c973.hpp:81
describes them, long enough for a frame and the rounding to 16 (`RoomyBuffers`, which
the code's 8 bytes do not satisfy and 2048 do). Then a frame stored is what Receive
finds (`FramesStayIntact`), and a frame that Send copied lies in its buffer until
the card has sent it (`SentIsCopied`, `SentStaysIntact`). Both need the rings in step:
that the card stores into none of the host's buffers, and the handler's Send fills no
buffer of the card's or of the call it interrupted (`SendsApart`).

### Interrupts and tasks

`InterruptManager_proofs`, for any tasks, drivers, lines and places of exceptions
(`MachineAssumption`: lines are 0 to 15, the boot stack is no task):
`InterruptInvariant`, `TypeCorrect`, `ContextsSurvive` (`ContextKept`),
`CurrentTaskRuns` (`RunsCurrentTask`), `ControllersAnswered` (`NothingInService`).

The argument. At each point one stack owns the processor: the running one until
Schedule has chosen, then the one whose frame will be returned to. The owner is the
current task (`OwnerIsCurrent`); its registers are in the processor or in the
interrupt's frame (`OwnerIsSafe`); those of all others are in `cpuState`
(`OthersAreSafe`). Only the three together survive Schedule, which moves a context
between the last two. `ServiceFollows` gives the lines in service for each program
counter; that an end of interrupt ends the right one, the most urgent, follows from
there being one on each controller. After a panic nothing is claimed of contexts.

### The PS/2 devices

`Ps2_proofs`, for any keys, packets, status bytes and length of the queue
(`Ps2Assumption`: key codes are below 0x80, and no key's release is 0xFA, which
a WaitACK would take for an answer): `Ps2Invariant`, `TypeCorrect`, `PacketsInFrame`
(`MouseInFrame`), `ButtonsCorrect` (`ButtonsFollow`), `CapitalsCorrect`
(`CapitalsWereMeant`) and `BytesServed` (`NoByteStuck`). All but `TypeCorrect` speak,
like the properties, of runs in which no byte was read by whom it was not meant for
(`disturbed`).

The argument. `Answers` says which 0xFA are in the queue at each step of the
activation: none, then the keyboard's alone, which ends the first WaitACK, then
the mouse's, in front of which are only keys. What lies behind that answer, and
once it is read the whole queue, satisfies `Queue`. Its one half, `Stream`, links
the mouse's bytes: neighbours follow each other in a packet (`Chained`), the first
is the one the driver's `offset` waits for (`Awaited`), the last the one before the
mouse's next (`Sent`), and if there is none driver and mouse agree (`AllRead`). Its
other half, `Capitals`, carries the shift keys through the queue: behind a press of
one, and behind whatever made the driver's `shift` true, every key up to the next
release was pressed with a shift key down, and if no release follows the user holds
one now. The release of one shift key ends this although the other may be held,
which is why the property has one direction only. `Pending` needs `Configured`, that
the status byte written is the one that was read; and a stale interrupt of the
keyboard, left from a byte that a WaitACK consumed, reads that answer once more,
which is no key.

### The desktop

`DesktopScreen_proofs`, for every screen, sequence of windows, movements and buttons
(`DesktopAssumption`: a screen of at least one pixel, at least one window):
`DesktopInvariant`, `TypeCorrect`, `DragsEnd`
(`FrontDragEnds`), `MovesWithCursor` (`WindowsMoveWithCursor`) and `FrontReachable`
(`FrontStaysReachable`, if some pixel of the screen is on the front window at the
start).

The argument. `FrontDragEnds` says that while the front window is dragged the
cursor is on it; then the release of the button hits the front window before any
other and ends the drag. That the movement keeps the cursor on it is where the two
loops of `OnMouseMove` matter: a window found by the first is not moved again by
the second, so it moves by what the clamped cursor moved, at most once.

It adds, for any screen that half a word can index
(`ScreenAssumption`), `UserIsRight` (`UserHitsWhatIsSeen`) and `FillRectCorrect`
(`FillRectIsNaive`).

The first is about one state: two places on the screen have two indices
(`PixelsApart`), so what is drawn at the cursor's pixel is the first child whose
area or frame covers that place, while a press reaches the first child that contains
it; the two sets of children differ by frames and by corners only
(`ContainsIsCovered`). The second is arithmetic: in each row the skip is `Width` less
what was drawn, so the offset is the pixel's index modulo the word
(`OffsetIsPixel`); rows above the screen become large numbers and rows below it are
too large, unless they are so far away that they come round again. That they never
get there is the invariant `Near`: a window moves only when the cursor is on it
before or after the movement (`OnlyHitMoves`), so it never gets further off than its
own height and that of two screens. `FillRectCorrect` assumes that `Width * (margin + Height)` fits a
word, for a `margin` that bounds where the windows begin, and that: for 1024 by
768 pixels in 32 bits more than four million rows.

### The PCI scan

`Pci_proofs`, for any number of places, machines and heaps (`PciAssumption`: a
function's header type has seven bits, the registers it has are memory or I/O):
`PciInvariant`, `TypeCorrect`, `PortsCorrect` (`PortsAreOwn`), `CardsDriven`
(`EveryCardDriven`), `ThirdCorrect` (`ThirdIsFirstCard`), `HandlersCorrect`
(`HandlersAreActive`).

The argument. `Reading` says how far the locals can be trusted in the middle of a
function: `bar.address` is one of this function's as soon as a register was read
that is a port, and `portBase` once the test for it passed. A leftover would be
used exactly if a card had no port register, or was no endpoint: of any other
header type it has fewer than six registers, and beyond them the whole result, type
included, is what the stack held (`BaseAddressRegister`). Those are the cases that
`PortsAreOwn` leaves out. `InOrder` (the table is keyboard, mouse, cards in the order of their
places) and `Covered` (a card that was passed has its driver, or the heap was used
up by earlier cards) give the third entry; `Registered` (a vector leads to the last
driver that registered for it) and `Activated` give the handlers.

### The text console

`Console_proofs`, for every screen of at least two columns and rows, any programs,
handlers, movements and number of interrupts, in ints of 8, 16, 24 or 32 bits:
`TypeCorrect`, `StaysInVideoMemory` (`WritesStayInVideoMemory`), `MouseIsShown`
(`MouseShown`), `NumbersCorrect` (`NumbersReadBack`) and `ScreenShowsText`
(`ShowsWhatWasPrinted`). It assumes (`StdioAssumption`, `ConsoleAssumption`) that an
`int8_t` holds every place of the screen, that every call of printf finds the
arguments its format asks for (`Fits`), and that a program constructs at most one
MouseToConsole, before it activates interrupts (`InOrder`, as `kernel_main` does).

The argument, invariant by invariant.

* `Sound` (types, the order of the calls to come, `Bounded`): each variable that
  `kernel_main` loaded from the cursor has its own bound at each place of
  `vga_putEntry`. A handler that prints in between leaves the cursor at most one line
  below the screen if it was no further (`PrintsFacts`), but a value loaded before
  it is stored after it: the line may be two below the screen, and that it is never
  three needs that the next character looks at it before anything is written.
* `Pointed`: no cell is inverted before the MouseToConsole, one after it. What
  printing and scrolling write is not inverted, a swap of a cell's halves twice is
  none; `ghost` covers the rest.
* `Converting`: the operations that are left are the last ones of the conversion,
  and what was said is what the first ones print. For a conversion that does not use
  the literal (`OnlyPuts`: all but %x and %X) that holds in every run. For those two it
  holds until a handler tears two halves of printfHex: every digit that will be shown is
  in the literal, or a store of it is still to come (`Ready`). That the whole text of a
  conversion is the numeral is a fact about `Stdio`: the value of the first digits is
  always the quotient that the next division started from (`LastDigitsValue`), so the
  digits read back, and the first comes from the last quotient that is not 0. For words
  from half the word on, uint2char counts the digits of a negative int, which is nearer
  to 0 (`SignedIsNearer`): never too many, at least one (`UintEnds`).
* `Printing`: what the screen shows at each place of `vga_putEntry` (`Stands`, one
  disjunct for each): all of the text (`Settled`), all but the character whose place
  was taken (`ShowsBut`), a half scrolled screen (`Scrolling`), and where the cursor
  is behind the text in the meantime (`OnPlace`, `LineToCome`). None of this is said
  in `ShowsWhatWasPrinted`, which speaks of the moments between two characters only.
  A handler finds the screen `Settled`, or at a place where it tears; its whole printf
  takes it from `Settled` to `Settled` (`RunShows`).

Both the conversions and a handler's printf are recursive functions, and what they
return for every input is an induction over data, for which the library's theorems
take an operator. The proofs use sets in its place: `LeastNatural` (a set of natural
numbers has a least one) gives `SetInduction` and `BoundedInduction` (a set with 0
and every successor of its elements has all), and a statement about n becomes
membership in a set. That the recursive functions satisfy their equations at all is
proved in the same way, by the functions on 0 to n that do.

### Only checked by TLC

* Liveness: `MallocReturns`, `HandlerReturns`, `ResolveReturns`, `EveryTaskRuns`,
  `ActivationEnds`, `ScreenCatchesUp` are out of the prover's reach.

## 5. Assumptions and abstractions

* The build does not optimise, so a variable read twice in the source is read
  twice (the Makefile passes no -O); `Send` depends on it.
* Frames: ARP as far as the code looks at it; anything else is `Noise`. All
  frames are of the least Ethernet length, which is the shortest overlap.
* A buffer run over by another frame is `Nothing`: what the mixture spells is not
  followed, and in `MCNetwork` nobody answers it. So contents are checked and proved for
  buffers of the documented length only, where no mixture occurs. The code's 8 byte rows
  are in `network_overlap`, which shows the first mixture, in `network_quiet`, where
  no ring holds two frames at a time, and in `network_unread`, whose property does not
  look at contents.
* The copy in Send is one step, and so is what the handler makes of a frame. While it
  copies nobody else writes or reads that buffer, if buffers do not overlap.
* The 8259A deliver the most urgent line, block those below a line in service,
  and remember one request per line. Spurious interrupts are left out.
* The PS/2 controller is one queue with one latched interrupt per device, and
  answers commands before the next port access, as the drivers rely on by never
  waiting. The keyboard's acknowledgement of 0xF4 is in the queue; the key map is
  abstracted to whether the shifted form is used. No key has the release code 0xFA.
* `ModelToScreen` reads the window's x and y in one step, and a drawing operation
  is one step: an interrupt falls between two of them. A paint is which part of
  which widget it is, in place of its color.
* Handlers print as a whole: all gates are interrupt gates. `kernel_main`'s printing
  is split at each access to what the two share, in the order the unoptimised
  build makes them.
* Video memory behind the screen is there and is written to (`Memory` has one row
  more than the screen). A color is its two halves; the character of a number below
  zero in `i | 48` is one value for all.
* A call of printf has the arguments its format asks for (`Fits`): the code reads
  whatever lies on the stack otherwise. A string argument is a sequence of characters,
  and its end is known.
* PCI: a card has the vendor and device id `GetDriver` knows; a base address
  register is memory or I/O, and any seven bits are a header type. An uninitialised local holds what the stack slot
  held before or anything (`Garbage`).

## 6. Where code and documentation disagree

* `network_unread`: kernel.cpp:181 says "now someone else can ask our ip". The
  trace: two requests; the second is stored after Receive has found the ring
  empty and before line 164 acknowledges the status read on entry. The write clears
  RINT, no interrupt follows, and the request stays in the ring until yet another
  frame comes.
* `network_overlap`: am79c973.hpp:81 says "8 buffers, size of 2 kilobytes per
  buffer". The array's dimensions are the other way round; buffers start 8 bytes
  apart, and the second frame overwrites the first before Receive looks at it.
* `interrupts_panic`: idt.cpp:33 says that ESP is always returned in the end. A
  line without a driver ends in `while(1)` with interrupts off.

Behaviour worth knowing that contradicts no document:

* An interrupt that prints between vga_putEntry's reading and moving of the
  cursor loses or doubles characters, and can write one line behind the screen.
  printfHex writes its digits into a literal that all calls share, so a handler's
  hexadecimal output changes digits `kernel_main` has stored and not yet printed.
* `uint2char` counts digits on the int: from 2^31 on it counts those of a negative
  number, so the leading digits are lost and the last ones are printed; `printBinary` prints nothing for one.
* MouseToConsole's x is an int8_t: a fast movement to the right passes 127, is
  negative, and ends at the left edge. When the screen scrolls, the inverted cell
  moves with it and the mouse leaves it behind.
* The pixel at (x + w, y + h) belongs to a window when it is clicked, and no
  drawing operation paints it.
* `handlers` of the Ethernet provider has 65535 entries, so type 0xFFFF reads what
  lies behind; a frame shorter than a header makes the remaining size wrap.
* An exception before `Activate` finds no active manager: the stub returns, the
  instruction faults again, for ever and without a word. Afterwards an exception,
  also one raised by a handler, is reported and stops the kernel in `while (1)`.
* `kernel_main` takes `mDrivers[2]` for the card even if there is none
  (`eth0 = Garbage` in `Pci`).
* `numOfFunctions` is computed and not used, so a card that answers for all its
  functions gets eight drivers, the last of which receives the interrupts while
  `kernel_main` uses the first.
* A window behind another one sticks to the cursor when the button is released
  over the one in front (`FrontDragEnds` is about the front window only).
* The first WaitACK of the mouse ends only because the keyboard's answer to 0xF4 is
  still unread.

## 7. What is not modelled, and why

* Memory layout: multiboot data, the stack, and the Vesa buffer that starts at
  `kernelEnd` like the heap. Where they end up is the boot loader's choice, and the
  two modes share no module yet (section 8).
* Segment descriptors: the encoding of four constants, executed once before
  anything else. Ports and string helpers have no state of their own.
* Ethernet: a type of 0xFFFF and frames shorter than a header; what they read lies
  outside every modelled object. malloc's result in `EthernetFrameProvider::Send` is
  taken for granted: `kernel_main` sends one request.
* printf's count of characters beyond 2^31, `puts`, `vga_getCursor`, `vga_setCursor`,
  `Vesa::Clear`, `PCI::Write`, `InterruptManager::Deactivate` (reached only by
  activating a second manager): nothing calls them, or nothing can reach them.
  `PrintCache` only reads; what it prints is among `Console`'s programs.
* Keyboard focus and widgets inside windows: `kernel_main` creates none and nothing
  sets the focus.
* The compositor is an empty class.

## 8. Plan

Done, in order of importance: heap, network, interrupts, exceptions and tasks,
PS/2, desktop with its pixels, PCI, text console; proofs for the heap and its
refinement, the two rings with ARP, interrupts and tasks, the PS/2 devices, the
desktop with its screen, the PCI scan, and the text console with printf.

Next, models:

1. `MemoryLayout`: kernel end, heap, Vesa buffer and stack as intervals; composed
   with the heap for the driver that the PCI scan allocates.
2. `Network` with `MemoryManager`: Ethernet's Send, whose block is never freed and
   whose malloc is not tested.
3. An abstract ring (a queue of frames between two parties) that `Am79c973`
   implements while no frame is bad and no two calls meet; an abstract scheduler for
   `TaskManager`.

Then, the proof that the abstract ring is implemented.
