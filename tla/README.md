# laio: a TLA+ model of the Windows asynchronous I/O wrappers

laio is a header-only C++17 library over Windows overlapped I/O and I/O completion
ports (`src/laio_iocp`), with the beginnings of a socket layer (`src/laio_net`). These
modules model what the headers do, together with the part of the Windows kernel they
drive, as far as the headers can tell. TLC checks them on small instances; TLAPS proves
the most important properties for every size.

## Inventory

| Component | State | Operations | What is hard |
|---|---|---|---|
| `Handle` (Handle.h) | `raw_handle_` | construct, move, assign, destroy, `into_raw` | every kernel object closed once and by its owner, over any sequence of moves; values are reused by the kernel |
| `Handle` I/O (Handle.h) | the operation, its event | `read`, `write`, `*_overlapped`, `*_overlapped_wait` | two kernel calls per operation, between which it completes, with completions of others signalling the same object |
| `CompletionPort` (CompletionPort.h) | `handle_`; the kernel's port, queue, associations, waiting threads | `create`, moves, `add_socket`, `get`, `get_many`, `post` | concurrent takers, timeouts, close during a wait, failed operations |
| `CompletionStatus` | one `OVERLAPPED_ENTRY` | `create`, accessors | none of its own: a packet's contents |
| `Overlapped` | one `OVERLAPPED` | auto-reset event, offset, event | 64-bit offset in two halves; copies share one event that nobody closes |
| `IoSpanMut` | a `WSABUF` | `create`, `advance`, views | unsigned arithmetic |
| `Ipv4Addr`, `Ipv6Addr` | an address; the parser's and the printer's counters | parse, format, compare, classify, convert | limits reached in any order, boundaries of blocks in exchanged byte order, injectivity of formatting |
| `SocketAddrV4`, `SocketAddrV6` | address, port, flow, scope | constructors, moves, setters, equality | byte order, one setter disturbing another field |
| `Socket` | a descriptor | construct, destroy, `init` | implicit copies each close the descriptor |
| Tcp/Udp classes, `AcceptAddr*`, `SocketAddr`, interfaces, traits | none | commented-out drafts, declarations, constants | nothing to model |

What makes each correct:

- `Handle` as an owner: an open kernel object has one owner, only its owner closes it, and
  it is not lost; a held value denotes the object it was acquired for.
- `Handle` I/O: a call answers with the outcome of its own operation, and a waiting one
  returns when, and only when, that operation is complete.
- `CompletionPort`: every completion and every posted status is reported once; waits end
  when they should and not before; a port has an owner who can close it.
- `Ipv4Addr`, `Ipv6Addr`: the parser accepts and reads what it describes; a text denotes one
  address; a class is its documented block; conversions are inverse.
- `Overlapped`, `IoSpanMut`, `SocketAddr*`, `Socket`: a setter changes its own field, a
  getter returns what was set, a copy is equal to its original, a view stays in its buffer.

How they interact: `CompletionPort` owns its port through a `Handle` and forwards its
moves and `into_raw_handle` to it. An application issues overlapped operations through
`Handle` with an `Overlapped`; the kernel queues a packet on the port the handle is
associated with; `get`/`get_many` return it as a `CompletionStatus`, whose token and
`OVERLAPPED*` are all the application has to find the operation again. There are no
threads, locks or callbacks inside the library: concurrency is in the application's
threads that share a port (`is_sync<CompletionPort>`) and in the kernel, which completes
operations at any time.

## Modules

| Module | Models |
|---|---|
| `UniqueResource` | abstract: resources with at most one owner, released once, by it |
| `HandleOwnership` | class `Handle` as an owner, the kernel's handle table, the application's raw handles; refines `UniqueResource` |
| `CompletionDelivery` | abstract: items submitted, reported at most once, lost only in named ways |
| `CompletionPort` | class `CompletionPort`, kernel ports, associations, packets, blocked callers; refines `CompletionDelivery` |
| `OverlappedIo` | the reading and writing members of `Handle`, class `Overlapped`, events and file signals |
| `AddressBlocks` | blocks of addresses as the documentation writes them, `prefix/bits`; the reference the classes are checked against |
| `Ipv4Addr` | the parser `from`, printing, the classes of addresses, `operator<` |
| `Ipv6Addr` | printing, the classes of addresses |
| `IpAddr` | both together: parse, convert, print; the conversions between them |
| `ValueObjects` | abstract: objects that are records, copies equal to their originals, setters that change one field |
| `ValueClasses` | the classes that are plain values: both addresses, both socket addresses, `Overlapped`, `CompletionStatus`, each beside the `ValueObjects` it promises to be |
| `SocketLifetime` | class `Socket` as the owner of a descriptor, `init`, Winsock's table of descriptors |
| `IoSpanMut` | class `IoSpanMut` |
| `LocalClasses` | `IpAddr`, `ValueClasses`, `SocketLifetime` and `IoSpanMut` side by side, for one run |
| `IocpSystem` | `OverlappedIo` composed with `CompletionPort`: the two reports of an operation |
| `*_proofs` | theorems about the module they are named after; `IpAddr_proofs` extends those of `Ipv4Addr` and `Ipv6Addr`, `LocalClasses_proofs` extends `IpAddr_proofs`, `IocpSystem_proofs` instantiates those of its two components |
| `MC_LocalPromises` | the classes of `LocalClasses` used in turn, and the promises of their comments that do not hold |
| `MC_*` | instances for TLC |

### HandleOwnership

`raw[w]` is `raw_handle_`; `table` is the kernel's handle table. `title[w]` and `app` are
history: the object a value was acquired for, and the raw values the application owns.
Each constructor, assignment and destructor is an action; `Open` may give a new object
any free value, so a value that was closed denotes another object later. `into_raw`
returns a reference to its local variable: its action either returns the value or any
other, and then `defined` becomes FALSE. The properties speak of the time before that,
except `AppHoldsLiveHandles`, which it refutes. `CompletionPort::from_raw_handle` and
`into_raw_handle` are `Construct` and `IntoRaw`: they only forward.

### CompletionPort

`handle[c]` is the value in the wrapper's `Handle`; `state`, `queue` and `assoc` are the
kernel's; `item[x]` says where an operation or posted status is; `call[t]` is the call a
thread is blocked in. `get` and `get_many` are two steps: `Begin` reads `handle_` and
converts the timeout and the list's size, and one of `TakeOne`, `TakeMany`, `Expire`,
`Refuse` returns. Between the two anything may happen: other callers, completions, a
close, a move of the wrapper. Kernel facts the model relies on: a queue is first in,
first out; a closed port ends its waits with an error; a packet of a failed operation is
dequeued with FALSE by `GetQueuedCompletionStatus` and with TRUE by the `Ex` form; a file
is associated once; association without a port makes a new one. The wrapper is not moved
or destroyed in the instant between reading `handle_` and entering the kernel, which
would be a data race in the application. The limit on concurrently running threads given
to `create` is taken to be no smaller than the number of callers. A failing
`CreateIoCompletionPort` or `PostQueuedCompletionStatus` changes nothing and is not a
step of its own. That a packet bears its file's token, in its file's port, is a matter of
the kernel, to which `add_` hands both in one call; no property is about it. What is about
the class is who can still reach a port: `OrphanOnlyByMove` names the two ways to lose one,
assignment onto its wrapper and `add_` on a wrapper that was moved from, which reports
success for a port that nobody holds.

### OverlappedIo

`io[o]` is the operation last started with the OVERLAPPED `o`, `hEvent[o]` its event,
`signal[x]` the state of an event or of a file, `call[t]` what a thread is at. An overlapped
call is two steps, as in `read_overlapped_helper_` and its twin: `Issue` or `IssueSync`
(`Reject` when the first kernel call fails) and then `Look`, or `Sleep` and `Wake`. The
plain `read` and `write` are one, `Transfer`. `Complete` is the device and may come at any
moment in between, or never. Reading and writing differ in the direction of the data only,
which is not modelled. Kernel facts the model relies on: starting an operation resets
what it will signal, its event or, without one, its file; an auto-reset event wakes one
sleeper and is consumed by it, a file's signal stays; `GetOverlappedResult` looks at the
OVERLAPPED, and waits only when the operation is pending; what it tells a waiter who was
woken while the operation is still pending is left open. `read` and `write` are used on
handles opened without `FILE_FLAG_OVERLAPPED`. The application does not touch an
OVERLAPPED whose operation is pending or whose call has not returned. `set_event` covers
copies of an `Overlapped` too, which share its event. Lengths wrap like a DWORD.

### Ipv4Addr, Ipv6Addr, IpAddr

`Ipv4Addr` runs `from` character by character with the four variables of the code (`buf`,
`pos`, `octet` and the position) and one action for each branch of the loop; digits are
numbers, all other characters are `Dot` or `Other`. `Ipv6Addr` runs the search for the
longest run of zeros segment by segment. Addresses are bytes (IPv4) or Words as they lie
in memory (IPv6); `Segments` exchanges their bytes as `segments()` does, and the
classes are the masks of the code on these Words. A printed IPv6 address is a record of
the segments before `::`, whether it is there, the segments behind it, and the bytes of a
dotted quad: hexadecimal digits are left out, and `Understood` is how a reader takes it.
`IpAddr` parses a text, converts the result in one of two ways and prints it, or prints an
address made directly. `Less` and `Less6` are `operator<` of each class: the first
compares component by component, the first one with the other's second; the second is a
true order. `Text` holds the texts given to `from`, `Given` the IPv6 addresses made directly,
and `Formed` the IPv4 addresses that `RoundTrip` prints and reads back and `OrderIsStrict`
compares. The blocks of addresses have sizes that are powers of 2, which `Unit` in
`AddressBlocks` lists. Copies, moves and `operator==` are in `ValueClasses`.

### ValueClasses

`inner[o]` is the Windows structure an object wraps: a port with its bytes exchanged
(`NetworkOrder`), the offset of an `OVERLAPPED` in two halves. `told[o]` is the same object
as `ValueObjects` has it, in the terms of the members' parameters; it is changed by what
each member promises, never by what it does, and `GettersTell` compares the two. The moves
are those of the code: `Ipv4Addr` and both socket addresses clear what they are moved from
and have no assignment; the other classes are copied. The one member that does not do
what its name says, `flow_info` with a parameter, writes the port: `inner` has that, and
`told` the flow information it was given. `astray[o]` is the history of the fields that this
left wrong in `o`, or in what it was copied from, until the port is set again; `GettersTell`
is about all other fields, and `FlowInfoTold` is the promise that breaks. `operator==` of
`SocketAddrV6` compares the arrays of the two addresses, which decay to pointers: no two
objects are equal. `EqualityAgrees` is about the other classes, and `CopiesEqual` is what
`SocketAddrV6` fails to do.

### SocketLifetime

`raw[s]` is `raw_socket_`, `table` the system's descriptors, whose values are given out
again. `Socket` has a destructor and no other special member, so that the compiler's copies
are `CopySocket` and `AssignSocket`; `spread` is the history of the values they copied.
`StartUp` is `init`: a flag that is set once and a result that is not looked at. `Exit` is the
cleanup registered by it, which closes every descriptor while static objects live on. A copy
closes its original's descriptor, or another socket that has the value by then: this happens
in the runs, no comment promises otherwise, and `HeldUnlessSpread` confines it to objects whose
value was copied. That a failed start is never repeated is in `StartUp` itself and has no
property.

### IoSpanMut

`size` is the length of the buffer, `ptr` the position in it, `len` the field of the `WSABUF`,
`view` what `as_span` or `as_mut_span` returned last. `Advance` compares its argument with the
size of the field (4), as the code does; the length wraps like a ULONG. A view casts it to
`int`, and a span of negative size terminates. As long as the pointer is within the buffer
a view is the rest of it (`ViewIsTheRest`); that the pointer stays there is the promise that
breaks (`StaysInBuffer`).

`LocalClasses` puts these and `IpAddr` into one run: their objects share no state, and the
first step chooses the class whose objects a behaviour is about.

### IocpSystem

Both components are instances with variables of their own (`ioCall` and `getCall` are what a
thread is at in each; it is in one at most). An operation `x` is one call of a member of
`Handle`, on the file `FileOf[x]` with the OVERLAPPED `OvOf[x]`. `Issue` starts it in both
components. The kernel completes it in two steps: `Complete` writes the OVERLAPPED and
signals, `Queue` puts the packet on the port, and between the two a caller may have its
answer and use the OVERLAPPED again. `outcome`, `answer` and `reported` are what the device,
the member of `Handle` and the port said of each operation. An application that uses the
OVERLAPPED again on the answer finds another operation behind the first one's packet; that
is the kernel's order and the application's choice, and no property is about it. Posted statuses,
moved wrappers and synchronous handles are left to the components.

## Runs

| Run | Instance | Shows |
|---|---|---|
| `handle_ownership` | 3 wrappers, 2 values, 3 objects | types, sound and unique ownership, close only by the owner, the one way to leak and that a leak is final, refinement of `UniqueResource` |
| `handle_leak` (violation) | the same | move assignment leaks what its target held |
| `handle_into_raw` (violation) | the same | `into_raw` may return any value |
| `completion_port` | 1 operation, 1 posted status, 2 ports, 2 wrappers, 2 callers, lists of 1 and of 10 (2 as a DWORD), DWORD of 3 bits | types, unique packets, the two ways to lose a port, refinement of `CompletionDelivery` |
| `port_liveness` | 2 operations on one file, 1 port, 2 callers, lists of 0 and 2, timeouts none, 0, -3, 8 | timed waits end; nobody sleeps beside a packet |
| `port_timeout` (violation) | the same with -1 and 7 ms | these timeouts are INFINITE |
| `port_failed_io` (violation) | 2 operations on 2 files, 1 posted status, 2 ports, 2 wrappers | `get` drops the packet of a failed operation |
| `overlapped` | 2 callers, an OVERLAPPED with an event or none, one with none, an asynchronous and a synchronous handle | types; with an event of its own a call answers with its own outcome, loses no wake-up and returns; no waiting call gets `nullopt`; no deadlock |
| `overlapped_early` (violation) | 2 callers, 2 OVERLAPPED that share an event or have none | a waiting call returns before its operation is complete |
| `ip_addr` | texts and addresses below; 2 objects of 2 addresses of each family, ports 0, 1, 258, 513, offsets up to 13 with a DWORD of 2 bits; 3 `Socket`s, 2 descriptors, 3 sockets; buffers of 0, 1, 3, 6, 9 bytes, steps 0, 1, 2, 4, 5, a ULONG of 4 bits, positions to 24 | what `from` accepts and reads, what is contracted and printed, all classes, conversions, the octets from the text read to the text written, both orders; getters tell what was set; equality of the classes that have it; uncopied descriptors denote their socket; the one way to leak one; views within the buffer are the rest of it |
| `local_promises` (violation) | an object of each local class, two of `SocketAddrV6`; the text "0", the address 0.0.0.0, a buffer of 1 byte advanced by 4 | five promises of five classes, all broken in one behaviour: see below |
| `iocp_system` | 2 callers, 2 operations on one file with one OVERLAPPED that has an event of its own, 1 port, 1 wrapper, 1 token, timeout 0, lists of 2, a DWORD of 2 bits | types; the two reports of an operation agree; a count means that there is a packet |

`SomePromiseKept`, which `local_promises` refutes, is a disjunction: the objects share no
state, and a state in which it is false breaks every one of its five parts.

| Part | The comment | The code |
|---|---|---|
| `PreciselyThreePeriods` | Ipv4Addr.h:113, "There should be precisely 3 periods in the address" | `from` returns an address wherever the text ends |
| `TextDenotesAddress` | Ipv6Addr.h:89, 94, the special cases are those of `::` and `::1` | `::ffff:0.0.0.0` prints as `::`, `::ffff:0.0.0.1` as `::1` |
| `FlowInfoTold` | SocketAddrV6.h:20, a socket address has a port and flow information | the setter of the second writes the first |
| `CopiesEqual` | SocketAddrV6.h:20, a socket address consists of its parts | `operator==` compares where two arrays are |
| `StaysInBuffer` | IoSpanMut.h:38, "Advancing out of range" is an error | `advance` compares with the size of the length field |

What holds beside each is an invariant of `ip_addr`: `JudgesWholeTexts`,
`OthersDenoteThemselves`, `GettersTell`, `EqualityAgrees`, `ViewIsTheRest`.

Why the bounds are enough. Ownership needs a source, a target and a bystander (three
wrappers) and a value that is given out again (fewer values than objects). A packet can
be duplicated, lost or overtaken with two ports, two callers and two items. A DWORD
of three bits, or of one for buffers, wraps like one of 32. Two callers can steal each
other's signals in every way any number of callers can. Wrappers, handle values, ports
and callers are interchangeable and declared symmetric in the safety runs; the liveness
runs have no symmetry. Ports are not reused and their number is bounded, and an application
may stop issuing calls, so the port runs do not check deadlock; neither do `iocp_system`, for
the same reason, and the address runs, which end. `overlapped` does.

`iocp_system` needs one OVERLAPPED, which is used again, and two operations, one of
which is overtaken by the other; two callers suffice for one to take the packet of the
operation the other is being answered about. Sockets need an original, a copy and a
bystander, and fewer descriptors than sockets. The ports have equal and different bytes,
the lengths lie around a multiple of 4, and the positions go far enough past the end
(24 of 16) for the length to wrap into the positive again.

Texts: one to three fields, each empty, short, of the largest value, above it, with leading
zeros, too long or foreign; four and five fields of three kinds; and the printed first and
last addresses of every documented block with their neighbours outside, which are also the
addresses of `Formed`. IPv6 addresses:
all 256 patterns of zero segments, every tail of 0, 1, 2 and ffff behind five zeros, and the
borders of every block. A mask or comparison that differs from a block differs at a border
of it, unless it is wrong in a way that no typing error makes.

Fairness. `FairSpec` of `CompletionPort` asks only that the kernel ends a wait that can end:
its time is up, its port is gone, or there is a packet for it. That of `OverlappedIo` asks
that a thread inside a call goes on when it can. Nothing is asked of the application,
which may never issue a call, and nothing of operations, which may never complete: a
wait for one that does not complete does not end, in the model or in the code.

## Proofs

`HandleOwnership_proofs`: `OwnershipSound` alone is not inductive, because a close by one
owner is harmless to the others only if no two hold the same value. `Inv` adds that no
object has two owners and that the kernel gives an object one value (`Exclusive`,
`KernelSound`). From it follow `HeldValuesAreLive`, `OwnersAreUnique`, the action
properties `OnlyTheOwnerCloses`, `OnlyAssignmentLeaks` and `LeaksAreFinal`, and `Refinement`:
every step is one abstract step or none. One lemma per action states what it does to the
owners and the open objects; the last four theorems share them.

`CompletionPort_proofs`: `Inv` adds to `OnePacketEach` that every wrapper holds an open
port that no other wrapper holds (`WrapperOfPort`), without which a destructor would
discard another wrapper's packets. `Arrival` and `Departure` say what enqueuing one packet
and taking the n oldest do to the invariant; every action is one of them or leaves queues
alone. `PortsAreLostTwoWays` goes through the actions: all others leave every open port its
wrapper, or close it.
`TimesWithoutLimit` says which timeouts become INFINITE, for any size of a DWORD: those one
millisecond below a multiple of it, of which -1 is one.

`OverlappedIo_proofs`: `TypeOK` becomes inductive with `CallerStarted`: the operation of a
call under way was started by that caller. `EventAwaits` says that an event of an
OVERLAPPED's own is set only when its operation is complete, and `CallerHasEvent` that an
OVERLAPPED keeps, during a call, an event the application gives it. From these follow
`OwnEventsAnswer` and `NoWakeupIsLost`, for every OVERLAPPED with an event of its own,
whatever all the others share. `WaitsHaveACount` needs none of this.

`Ipv4Addr_proofs`: `ParseInv` relates the four variables to the text read so far: the
number of periods, the digits since the last one (`Octet`), the zeros beyond (`Rest`), and
that what was read can begin a documented text. At a rejection the character at hand breaks
one of the conditions; at the end all of them hold, but for the number of periods, which
may be too small. `AcceptsTheDocumented` is therefore about documented texts, which are all
accepted, and about texts with three periods or more, of which no other is.
`ReadInv` adds that the octets behind which a period was seen are the numbers of
their fields (`Prior`); the octet being read is the number of the digits since then. From it follow
`ReadsEveryText`, for texts of any length, and `PrintedIsReadBack`, because the text printed
has four fields, each the shortest numeral of its octet (`Decimal`), whose value is the
octet. The classes are compared with their blocks octet by octet: a block with a prefix of
whole bytes fixes these bytes, one that ends inside a byte fixes its quotient by a power of
2 (`ClassesAlwaysBlocks`); `is_global` is compared with all of them.

`Ipv6Addr_proofs`: `RunInv` adds to `SpanIsLongest` that the current run is all the zeros
that end at the loop's position (`Current`); `TextInv` adds which text was written. The
steps are proved for any address, not only those in `Given`, so that they serve for
converted addresses too. The theorems are for all 2^128 addresses.

Assumptions: the sentinels are distinct from the values they stand beside; every operation
has a file; operations and posted statuses are distinct; events and files are; a DWORD has
at least two values where timeouts are concerned; in `IocpSystem` `None` is no operation;
texts are sequences of characters; `Given` and `Formed` are sets of addresses, any sets.

`LocalClasses_proofs` has three invariants, each for the specification of its part
(`SocketSpec`, `ValueSpec`, `SpanSpec`). `SocketInv` adds to `HeldUnlessSpread` that every open
socket has one descriptor (`OnePlaceEach`) and that what the application holds is open
(`AppHeld`). `ValueInv` is the types and that each object
fits what it was given (`Fits`, which is `GettersTell` and says of a socket address whose flow
information was set what is in it instead, `Strayed`); `OneChanges` reduces a member to the one
object it changes, and the lemmas behind it are the arithmetic: exchanging the bytes of a
port twice gives the port back, and the halves of an offset give the offset, for every size
of a DWORD. `EqualityTells` follows from it. `SpanInv` says that the length
is the rest of the buffer plus a multiple of 2^32 (`Remains`), a multiple that is zero as long as
the position is within the buffer.

`IocpSystem_proofs`: every behaviour of the system is one of each component (`IoSteps`,
`PortSteps`), so the invariants of `OverlappedIo_proofs` and `CompletionPort_proofs` hold here
without being proved again. Two invariants relate the components. `ReportInv`: an OVERLAPPED
has the outcome of its latest operation (`Known`, `Linked`), and what a caller was told is
what happened (`Heard`, `Agree`); `AnswerStep` of the overlapped calls gives the caller's
part, for an OVERLAPPED whose events are exclusive. `MailInv`: an operation on an
associated file has its packet, will have it, or was returned (`Mailed`, `Returned`).

The refinement of `CompletionDelivery` (`DeliveryImplemented`, in `CompletionPort_proofs`) rests
on `Reading`: as an item has one packet, the `CHOOSE` of the mapping finds its port and `Failed`
its outcome. `Steady` says that an item whose packet stays is where it was; `Arrived` and
`Departed` are the two ways of moving on. A late completion needs a closed port, so that the
port of an association must once have been made (`AssocUsed`).

`IpAddr_proofs`: a Word is two bytes and exchanging them twice gives it back, so that the
conversions are inverse (`BackToIpv4`, `OnlyConvertible`) and the order of the segments is that
of the bytes (`SameOrder`); that it is total follows in eight steps, one for each segment. The
classes are the documented blocks for every address (`ClassesAlwaysBlocks6`): a mask on a
Word in memory is a condition on its two bytes, and a block one on the bytes before and at
its end. `ParsesAlone` says that a behaviour of both addresses is one of the parser; the
printer also prints converted addresses (`Converted`), of which `StepsPrint` makes the steps
of `Ipv6Addr_proofs`. `QuadsAreKept` goes from the text that is read to the one that is
written: the two byte orders on the way cancel. `TextTellsAddress` restates
`OthersDenoteThemselves` as a function from texts to addresses: no two of them print alike.

`EachClassAlone` in `LocalClasses_proofs` says that a behaviour of the run `ip_addr` is one of
each class, so that every theorem about a class holds of the specification TLC checks
(`LocalTypes`, `LocalAddresses`, `LocalObjects`). `SystemDelivers` and `SystemAnswers` do the
same for `IocpSystem` and its two components, the refinement of `CompletionDelivery` included.

Model-checked only: liveness (`TimedGetReturns`, `PacketEndsWait`, `CompletedWaitEnds`), which
needs `ENABLED` and is out of the prover's reach. Every invariant and every other action
property of a passing run has a theorem. The violation runs need no proof: each shows one
behaviour that refutes its property.

## Plan

Written in this order: `HandleOwnership` (everything else rests on who owns a handle),
`CompletionPort`, `OverlappedIo`, the addresses, the other plain classes, `IocpSystem`. Proved
in the same order. What is left is proof beyond what the runs check: that a
sequence of calls of `get_many` gives the packets of a port in the order they came, and how
many bytes of a buffer of more than 4 GiB a call transfers.

## Not modelled

The Tcp and Udp classes are commented out; `AcceptAddr`, `AcceptAddrBuf`, `SocketAddr`,
`SocketAddrBuf` and `WsaExtension` are declarations without behaviour; the interfaces and
traits are compile-time constants. `CompletionPort::add_handle` is a const member that
calls a non-const one, so that no call of it compiles. `Socket::create` has an empty body,
whose result is undefined, and the other members of `Socket` are declared only. Printing a
socket address concatenates the address's text and the port. The comparisons of an IPv4
with an IPv6 address are constants; the IPv6 parser is commented out. A buffer of more than
4 GiB has its length cut to a DWORD, and nothing in the repository says what should happen.
