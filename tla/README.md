# TLA+ specifications of stdplus

stdplus is the C++ support library of OpenBMC: a wrapper of io_uring, owning
handles for descriptors and other resources, file and descriptor helpers, and
pure code for strings, numbers and network addresses. It keeps no global state
and starts no thread. What is hard in it is what happens *between* calls: a
kernel that posts completions at any time, callbacks that call back into the
object that called them, resources whose names are reused, calls that fail
half way, and processes that end half way.

Files are named as in the repository. Modules named `MC...` and the `.cfg`
files are instances for TLC, and `..._proofs` modules hold the proofs.
`PROJECT.json` lists the runs, the lines that each definition stands for, the
hazards and the divergences found.

    tlc -config MCIoUring.cfg MCIoUring        # likewise for the other runs
    tlapm IoUring_proofs.tla                   # likewise for the other proofs

## 1. Inventory

| Part | State | Operations | Hard behaviour | What makes it correct |
|---|---|---|---|---|
| `IoUring`, requests and handlers (`io_uring.cpp:22-43, 86-128, 166-179`) | submission and completion queues, `user_data` of each entry, vector `handlers` | `getSQE`, `setHandler`, `submit`, `cancelHandler`, `process`, destructor | callbacks that call the ring, one handler on several requests, a kernel that takes fewer entries than were offered, cancels racing completions | the vector matches the open registrations; the completion runs the handler that was set; each registration is answered once; completions do not get stuck |
| `IoUring`, registered files (`45-84, 181-199`) | `files`, `filesAllocated`, the kernel's table | `registerFile`, `reserveFiles`, `FileHandle::drop` | growth under live handles, refused updates, descriptors closed and reused | slots are not shared or lost; the count is exact; a handle keeps its file |
| `IoUring`, event descriptor (`144-164`) | `event_fd`, its counter | `getEventFd`, `processEvents` | the kernel posts, then signals | no wakeup is lost |
| `Managed`, `Copyable` (`handle/managed.hpp`, `handle/copyable.hpp`) | `maybeT`, `data` | construct, move, copy, `reset`, `release`, destructor | order of drop, reference and assignment; callables that throw inside `noexcept` | a value has one owner and is dropped with its own context |
| `ManagedFd`, `DupableFd` (`fd/managed.cpp`, `fd/dupable.cpp`) | the number; the process's table | as above, with `close` and `F_DUPFD_CLOEXEC` | numbers are reused at once | an object's number means the object's file, and is close-on-exec |
| `AtomicWriter` (`fd/atomic.cpp`) | names, descriptor; the file system | constructor, moves, `commit`, cleanup | two writers, failures of any call, kills, power loss, the copy across file systems | a target is whole or absent; no temporary file is lost |
| Descriptor operations (`fd/ops.cpp`, `fd/impl.cpp`) | none | exact, aligned and whole reads and writes | short transfers, `EINTR`, end of file | every byte once, in order |
| `LineReader`, `FormatBuffer` (`fd/line.cpp`, `fd/fmt.cpp`) | buffer and view; pending text | `readLine`; append, flush, move | lines across reads, failing flush | every line once; every byte once |
| `StrBuf` (`str/buf.hpp`) | characters in the object or in memory, in one union | append, shrink, clear, copy, move | where the characters are depends on all calls before; a copy whose allocation fails | memory has one owner; each buffer holds the text it was given |
| `Cancel` (`cancel.hpp`) | a pointer | cancel, move, drop | dropped before or after it was used | a `Managed` handle: dropped once |
| Numbers, byte order, time (`numeric/`, `chronoToKTS`) | none | parse, print, convert | overflow at each width, trimming, buffer sizes | inverse of each other, errors exactly at overflow |
| Addresses (`net/addr/`) | none | parse, print, masks, subnets, kernel buffers | `::` anywhere, prefixes of 0 and the full width, paths that fill `sun_path` | inverse of each other, membership as defined |
| `zstring`, `zstring_view` | a pointer | check, compare, suffix | no length: every loop must find the terminator | the order of the texts that are meant |

The parts that hold no state over time (type utilities, error macros, raw byte
views, hashes, single-call wrappers) are listed in `PROJECT.json` with the
reason they are left out.

How the parts interact:

* `IoUring::FileHandle` is a `Managed` handle whose context is the ring;
  `ManagedFd` and `DupableFd` are `Managed` and `Copyable` handles of an
  `int`; `AtomicWriter` and the ring's event descriptor are `ManagedFd`s.
* `Dropper` and `Reffer` wrap the callables of handles in a `noexcept` whose
  condition, `noexcept(drop)`, asks about naming the function and so is always
  true: any exception from a drop or a reference ends the program. Three of
  the models meet this (`dead`, `ended`, `ProcessEnds`).
* `ToStrAdap` writes numbers and addresses to the end of a `StrBuf` that it
  first extends by what they may take and then shrinks to what they took.
  Subnets read their addresses with the parsers of addresses, socket
  addresses with those and the parser of numbers.
* The ring calls handlers (`CQEHandler::handleCQE`) from `process`, from
  `setHandler` and from its destructor, and handlers call the ring.
* The kernel is reached through system calls only. It is modelled from how the
  code uses it, and its definitions are marked external in `PROJECT.json`.

## 2. Modules

### IoUring (requests and handlers)

| State | In the code |
|---|---|
| `handlers` | `IoUring::handlers` |
| `sq`, `cq` | the two queues of `struct io_uring`; `sq` as seen by the program, from `getSQE` to the kernel's taking the entry |
| `ud[r]` | `sqe->user_data` in memory |
| `data[r]` | the copy the kernel made when it took the entry, returned in `cqe->user_data` |
| `tgt[r]` | for a cancel entry, the `user_data` it looks for |
| `inflight`, `canceled` | the kernel's work |
| `processing`, `stack`, `exitAt` | the C++ stack: `process()` running, callbacks in progress with what `setHandler` has still to do after each, and the destructor's position |
| `want`, `owed` | history: the handler last named for a request; registrations of a handler less the calls to it |

A call to a handler splits an operation in two actions, since the handler may
do anything in between: `ReplaceHandler`/`ReplacementReturn` are the two halves
of `setHandler` (`io_uring.cpp:91-106`) around line 100, and
`ProcessNext`/`CompletionReturn` those of a round of `process` around line 125.
While `stack` is not empty every action of the program is allowed again, up to
`MaxDepth` nested replacements.

What the program is relied on for: an entry from `getSQE` is prepared before
anything else is done with it (liburing's prep functions clear `user_data`),
entries that are queued are not recycled, handlers do not call `process()`, and
handlers called by the destructor leave the ring alone. These are written as
guards, and each is a hazard in `PROJECT.json`. `QuietReplacement` is a further
assumption, made a constant because it is the one that is easy to violate: a
handler that is being replaced does not submit, and does not touch the entry it
is replaced on. With FALSE the model shows what happens otherwise
(section 5).

### IoUringFiles (registered files)

`files` and `filesAllocated` are the ring's, `ktab` is the kernel's table
(`<<>>` when none is registered), `open` the descriptors of the process,
`handle` the slot of each `FileHandle` and `given` the file it was made for.
Slots count from 1 (0 is an empty handle). `RegisterFree` and `RegisterGrow`
are the two ways through `registerFile`; each includes the change to `files`
and the kernel call that follows, which may refuse: `UpdateFailed` and
`TableFailed` leave the list changed as the code does. `trouble` remembers that
the kernel refused something, or that the program closed a descriptor that the
table lists: some properties are claimed only without it, and others, which
must hold whatever happens, without that condition.

### IoUringEvents (event descriptor)

The same ring seen from an event loop, with handlers reduced to "may submit".
`pc` is the position of the program's thread in `getEventFd`, `processEvents`
and `process`. The kernel posts (`Post`) and signals (`Signal`) in two steps;
what it posts before the descriptor is registered is never signalled
(`early`).

### Handles (abstract ownership), FdHandles (descriptors)

`Handles` is the abstract specification of ownership: each live value has one
owner, a handle or the program. It follows `managed.hpp` and `copyable.hpp`
operation by operation, with the context of a value (the extra data of the
template, such as the ring of a `FileHandle`); a drop frees a value only with
the right context. `FdHandles` models the descriptor table with the kernel's
rule for choosing numbers, and is shown to implement `Handles` (property
`ImplementsHandles`, under the mapping of open descriptors to live values).
A program that has called `std::terminate` stops (`ended`), which is why these
two runs do not check for deadlock.

### AtomicWriter

The state is the writers' members, the file system as everybody sees it
(`tmp`, `target`), what is in each file (`full`, `public`) and what a power
loss would leave (`disk`, `synced`). `commit` is one action for each system
call, because other writers, a kill and a power loss can come between any two.
Each call may fail (`Throw`, and the close in `Close`), which runs the `catch`
clause and `cleanup()`. `Flush` writes the file system's journal, at any time:
names and modes reach the disk in the order they changed, while content is
safe only after `fsync`. That is what ordered journals provide; on a file
system that reorders names and modes, less would hold.

### FdOps (transfers)

The loops of `fd/ops.cpp`, one call of the kernel per action. `buf` holds, for
each byte of the program's buffer, its position in the stream; `total`,
`stride` are the code's variables, `pos` is how far the stream has come and
`result` what the operation returned or threw. `Moves` and `Refusals` are what
`Fd::read` and its siblings can answer once `fret` has read the return value:
some bytes, an empty span (would block), `Eof`, or another error. After one
operation the program may call any other, where the first one stopped.
`recvExact`, `writeExact`, `sendExact` and the aligned forms instantiate the
templates that `exact` and `aligned` model. `torn` remembers that bytes were
lost and that the operation said so.

### Lines (FormatBuffer and LineReader)

The two components at the ends of one pipe, as two processes. `fbuf` is the
writer's text that is not flushed (`buf` in the code), and `written` is the
progress of the `writeExact` inside `flush`, one write per action (`Write`), so
that the reader runs in between; `AppendBytes` is `append` or `appends` up to
the flush it may cause; the destructor is `Destroy` and what its flush comes
to. `buf_data`, `line`, `line_complete` and `hit_eof` are the reader's members;
`ReadLine` is the call, `Fill`, `FillRefused` and `FillEnd` the outcomes of its
read and `Scan` the search for a newline. A flush that fails after some of its
bytes were written keeps all of them, so the next one writes them again:
`forgotten` counts these, up to `MaxForgotten`, and flushes that fail in the
destructor, whose bytes are lost. `FlushedOnce` is claimed without them.

### Texts (abstract buffers), StrBuf

`Texts` says what string buffers promise: each one holds a text, and a call
changes the buffers it is about. `StrBuf` has what is behind it: `obj` is the
union in each object (`Inline` or `Dynamic`, the code's highest bit of the last
byte), `heap` what is allocated, with the characters written to it. One action
is one call. An allocation may fail at any call; most calls then change nothing
(strong guarantee) and need no step, while a copy assignment has by then given
back its memory and written a capacity over what it had: `CopyAssignFails`,
after which the object is unusable (`lost`) if it pointed to memory, and has a
text that nobody chose if it did not. What is unusable is only destroyed, and
its destructor (`DestroyLost`) gives the memory back again, with the capacity
that the copy was to have. A buffer that has got that memory meanwhile loses it
and is unusable from then on; the program does not know, and whatever else it
does with that buffer is undefined and outside the model. If the allocator has
the memory already, it is `corrupt` and the model ends, since any later
allocation could return anything. `ImplementsTexts` shows that each step is one
of `Texts`, where the end of an unusable buffer (`DestroyUnusable`) costs one
other buffer its text, or none.

### Numbers, NetAddrs, Subnets, SockAddrs, ZStrings and Conversions

The pure code, as operators. `Numbers` has the integers of `numeric/str.hpp` by
type (a width and a sign), with the carrier that narrow types are converted in
and the wrap at the end, `bswap`, `htoe`, and `chronoToKTS`. `NetAddrs` has the
texts of addresses: a text is a sequence of tokens in which a number is one
token, since reading and writing digits is what `Numbers` is about. The parser
of an `In6Addr` is kept as it is in the code, a loop from the front, the checks
at the gap, and a loop from the back (`FrontStep`, `GapStep`, `BackStep`).
Bytes are in memory order and integers are swapped where the code swaps them
(`Htoe`). `Subnets` has masks and membership word by word; `SockAddrs` has the
three kinds of socket address, as values, as texts and as what is handed to the
kernel and taken from it (`SockAddrBuf`), in which a byte that is never written
is `Unset`. `Fill` also has the byte behind `sun_path`, where an abstract name
that fills it gets its nul: a `SockAddrBuf` has room for it, while for
`sockaddr()` it is behind the object. The range that `fill` copies for an empty
path is reversed, which is undefined: the call copies nothing (`ReadBuf`) or
crashes (`CrashInBuf`). `ZStrings` has validation, comparison and suffix of
`zstring`, which has no length and stops at the first nul.

`Conversions` is the program that calls them: its state is the last call, with
its arguments and what it returned, and its actions are the functions. The
properties compare that with definitions of what texts, bits and bytes *mean*,
which are written without regard to how the code works: `Means6`, for one, is
the grammar of RFC 4291 and says nothing of loops. What is handed to the
functions is what their types can hold, and the `ASSUME`s of the module say so:
addresses are 4 or 16 bytes, ports have 16 bits, paths of sockets are those
that the constructor takes, strings are sequences of characters.

### Variations

Definitions whose comment begins with "Fault" are variations of the definition
they precede with one plausible mistake: a guard dropped, a wrong order, a
missing reset. No specification uses them. `PROJECT.json` pairs each with
the property that fails when the variation takes the definition's place,
which shows that the property says something of the code.

## 3. Runs

| Run | Properties | Bounds, and why they are enough |
|---|---|---|
| `MCIoUring` | `IInv`, `DropFindsHandler`, `RunsHandlerSet`, `EachCalledOnce` | three requests and two handlers: one handler on two requests beside another one, with a cancel in between; a queue of two is full with a request outstanding; depth 2 is a replacement inside a completion, or inside another replacement. About 15,000 states. |
| `MCIoUringLive` | `CompletionsHandled`, `CancelAnswered` | one handler suffices, as it may be on two requests besides the cancel. No symmetry. |
| `MCIoUringReentrant` | violates `RunsHandlerSet` | as `MCIoUring`, with `QuietReplacement = FALSE` |
| `MCIoUringFiles` | `HandlesDistinct`, `AllocatedCount`, `SlotsOwned`, `HandleKeepsFile`, `NeverTerminates`, `ReserveEnough` | `MinSize` 1 (7 in the code) so that the table grows twice, 1, 3, 5; three handles, two numbers and two files so that a number is listed twice and is reused. About 510,000 states. |
| `MCIoUringEvents` | `NoLostWakeup`, `EventsHandled` | three requests: one early, one being handled, one being posted |
| `MCHandles` | `OwnedOnce`, `OwnContext` | one handle that is only movable and two copyable ones, a value more than handles, two contexts |
| `MCFdHandles` | `HandleKeepsFile`, `ImplementsHandles` | four numbers for three objects, so that numbers are reused and run out; two files. About 66,000 states. |
| `MCAtomicWriter` | `TargetWhole`, `OwnTmp`, `NoStale`, `ReplacedWhole` | two writers for one target; one temporary name on the target's file system and one on another, both given out again; three files: one in place and one for each writer, or one for a copy. All calls may fail. About 185,000 states. |
| `MCFdOps` | `InOrder`, `DoneWhole`, `RepeatSafe`, `FrameKept` | elements of 2 bytes, so that every transfer can end within one; a stream of 11 bytes, which ends within one and lets `readAll` take several strides; buffers of 0, 1, 2 and 4 elements, so that an operation may follow others and stop before, at or after the end; strides 1, 2, 4 and a limit of 4 (256 and 65536 in the code). About 6,400 states. |
| `MCLines` | `BytesKept`, `FlushedOnce`, `LinesArrive` | six bytes, of which the second, third and fifth are newlines: a line, an empty one, another, and a rest without a newline; a pipe of three and reads of two, so that lines and reads overlap in every way; a buffer limit of three, reached by chunks of one and two. One flush may lose count. About 12,000 states. |
| `MCStrBuf` | `StorageOwned`, `ImplementsTexts` | two buffers and three pieces of memory: each has its own and a copy may have both at once; objects of two characters (`BufLen`, 127 in the code) and texts of up to five, so that texts fit in the object, in half as much memory again, or in neither. A failed copy leaves a pointer to a piece that the other buffer may get or nobody has when it is given back again; the model stops at the latter, so deadlock is not checked. About 13,000 states. |
| `MCConversions` | `PrintExact`, `ParseExact`, `KernelTime`, `AddressText`, `AddressGrammar`, `SubnetBits`, `MaskInverse`, `SockBytes`, `ZOrder` | see below. About 135,000 states. |

The bounds of `MCConversions`: pointers have 8 bits, so that types of 4 and 6
bits are converted in a wider one and those of 8 in themselves, and every value
of every type is printed, in bases 2, 3, 10, 16 and 36 (powers of two, a pair
of digits at a time, and neither) and widths below, at and above the length.
Texts of numbers are all short strings of the digits around the limits, with
signs, prefixes and foreign characters. Durations reach from below zero over
several seconds of ten units. `In6Addr`s are printed with zeros at every subset
of the eight places, and read from every pattern of up to ten fields, empty or
not, ending with an `In4Addr` or with nothing. Subnets are tried with every
prefix and with addresses that differ from their own in one bit next to or at
the boundary of a word; masks are all those of at most three runs of equal
bits. `sun_path` has 3 characters (108 in Linux), and paths have up to 4. The
machine is little-endian, where swaps are not the identity.

Type correctness is the invariant `TypeOK` of each module with state. Where it
would say nothing that another property does not need, it is a part of that one
(`IInv`, `FdHandles!HandleKeepsFile`, `AllocatedCount`, `OwnTmp`, `InOrder`,
`BytesKept`, `StorageOwned`).

Some properties say more than their first sentence asks for, because together
they are the inductive invariant of section 6 and the runs are to check that
too: `TargetWhole` says how far the file of a running commit is
(`CommitInOrder`) and what is on disk; `InOrder` and `RepeatSafe` speak of
operations that still run; both `HandleKeepsFile` say how the tables agree
(`TableCurrent`, `FdsOwned`).

What the passing runs show:

* *Requests and handlers.* However callbacks nest, the vector has one element
  for each open registration, so `dropHandler` never runs `std::find` off the
  end. Each registration gets exactly one call (`owed` counts them), the last
  by the destructor.
* *Files.* Two handles never have one slot and the count stays exact, whatever
  the kernel refuses. As long as it refuses nothing, no slot is lost, a handle
  keeps its file through any growth, and dropping it does not end the program.
* *Events.* A completion that was posted since the descriptor exists always has
  a wakeup coming. It would not if the queue were emptied before the counter,
  or only in part.
* *Handles.* Ownership is exact through any sequence of operations; descriptor
  handles are an instance, including numbers that are reused.
* *Atomic files.* A target is the whole content of a commit with its mode, or
  is absent, also after power loss, but for a target made by the copy fallback.
  Only a process that ends, a `remove` that fails, or an assignment to a writer
  that has a file leaves a temporary file behind.
* *Transfers.* Through any sequence of operations and however the kernel cuts
  them up, each byte goes to its place once. An exact or aligned operation that
  fails with anything but `Incomplete` has transferred nothing, so it may be
  repeated; one that succeeds has filled its buffer. `readAll`, `readAllFixed`
  and `readAllExact` succeed only at the end of the stream. The stream is never
  within an element unless an operation has said so.
* *Lines.* No byte is lost or repeated between the appending program and the
  lines returned, as long as no flush fails half way; every line whose newline
  was sent is returned.
* *Buffers.* Memory has one owner, who gives it back with the size it was asked
  for, and what is known about sizes when characters move between object and
  memory holds (`StorageOwned`). Texts survive growth, moves and copies, and a
  failing call changes nothing but the destination of a copy. Only the
  destructor of such a destination gives memory back that is not its own
  (section 5): that costs one other buffer its text at most, or ends the model.
* *Numbers.* What is printed reads back; what is read is what the text denotes,
  or an error exactly when the type cannot hold it, but for the cases in
  section 5.
* *Addresses.* Parsers of tokens accept what the grammars say, and two forms
  more (section 5); what is printed is the form that RFC 5952 asks for (the
  first longest run of zeros is left out, and no zero that is alone) and reads
  back. Membership is equality of first bits, masks and prefixes are inverses.
  Every socket address survives the buffer that the kernel gets and fits its
  structure, but for the nul of an abstract name that fills `sun_path`.

`SYMMETRY` is used for safety only, over sets that no definition orders or
chooses from.

## 4. Fairness

`IoUring!Fairness` is strong for `ProcessNext`, since the thread may be in the
program's code, not in the ring, again and again: it assumes an event loop that
calls `process()` again and again while there are completions. It is strong for
the return of the callback at each depth, since a callback returns after
finitely many calls, though it is not the innermost while those run. The kernel
executes a cancel request and completes what it found. An ordinary request need
never complete. `IoUringEvents!Fairness` assumes of the loop only that it calls
`processEvents` when the descriptor is readable, and of the kernel that it
signals what it posted; every other step of a call that has begun is weakly
fair because one thread executes it. `Lines!Fairness` assumes that the reader
calls `readLine` again and again, as a program that waits for its descriptor
does, and that a read tried again and again while the pipe has bytes at last
succeeds (strong fairness: each `FillRefused` disables it for a moment);
nothing is assumed of the writer, which may stop at any point. `FdOps`,
`AtomicWriter`, `Handles`, `FdHandles`, `IoUringFiles`, `StrBuf` and
`Conversions` promise nothing that must happen, so nothing is assumed.

## 5. Divergences from the comments and documentation

* `MCIoUringReentrant`: `setHandler` calls the replaced handler (line 100)
  before it writes the new one into the entry (line 105). If the old handler
  calls `submit()`, the entry goes out naming the old handler, whereas
  `io_uring.hpp:92` says that the new one "will be run when the CQE comes
  back". The old one is no longer in the vector by then, so `dropHandler` looks
  for something that is not there.

Seen while modelling, with no run of their own. Each is either exempted by name
in the property it touches or outside the model's assumptions.

*Ring.*

* The table is registered anew from descriptor numbers (`io_uring.cpp:81`). A
  descriptor may be closed once it is registered; if its number is reused, the
  growth of the table gives an older handle another file, whereas
  `io_uring.hpp:71` says "A handle to the registered file on the ring".
  `HandleKeepsFile` is claimed for programs that keep descriptors open.
* After an update that the kernel refuses, `files` lists a descriptor that is
  not registered (`io_uring.cpp:196`).
* `chronoToKTS` of a duration below zero that is not whole gives a negative
  `tv_nsec` beside seconds that were rounded down (`io_uring.cpp:18`), together
  a second too early. `KernelTime` is exact about the other ones and says of
  these that they are that second early.

*Handles and descriptors.*

* `dupable.hpp:33` says that the constructor throws `std::system_error` when
  the system call fails; inside `Reffer`, whose `noexcept(ref)` is always true,
  it ends the program (`dupable.cpp:16`, `copyable.hpp:142`).
* Adopting a descriptor that is not open ends the program, since unwinding the
  constructor closes the number again (`managed.cpp:28`).
* A descriptor opened without `O_CLOEXEC` is inheritable until the constructor
  has set the flag.
* `sendtoExact` takes an empty datagram that was sent for one that would block
  (`ops.cpp:68`).
* `readAll` and `readAllExact` throw `WouldBlock` after they have taken bytes,
  which are lost with the container, so that they suit blocking descriptors
  only.
* A `LineReader` that was moved keeps a view into the buffer of its source.

*Atomic files.*

* A close that fails within `commit` ends the program before the `cleanup()`
  that is there so that crashes "don't cause us to leave stale files"
  (`atomic.cpp:99`), which `NoStale` exempts.
* Move assignment of an `AtomicWriter` forgets the temporary file the target
  had (`NoStale` exempts it).
* The copy fallback is not atomic (`TargetWhole` exempts it).
* `commit` does not sync the directory, so that a power loss may undo it.
* `mktemp` changes the process's `umask` for a moment, which other threads see.
  Not modelled: the temporary file has mode 0600 from `mkstemp` whatever the
  mask.

*Numbers.*

* `IntToStr::buf_size` is one character short for the lowest value when its
  negative has a digit more than the highest one: `int8_t` in base 2, `int16_t`
  in base 8 (`PrintExact` exempts it).
* `-v` of the lowest value of the widest type is undefined (`str.hpp:127`), and
  no text is read as that value: `StrToInt` refuses it.
* Texts below what a signed type narrower than a pointer holds wrap around
  instead of being refused, since only the upper limit is looked at
  (`ParseExact` says what they become).

*Buffers.*

* A copy assignment whose allocation fails has given back its memory
  (`buf.hpp:216`) and written the new capacity over what it had (line 226), but
  keeps the flag and the pointer. The destructor, which always runs, gives that
  memory back again with the new capacity (279-285): a double free, or the
  memory of another buffer that was allocated there meanwhile.
  `StorageOwned` exempts such objects (`lost`) and what follows a double free
  (`corrupt`); in `Texts` they are `Unusable` and end by `DestroyUnusable`.
* A failed copy assignment to a buffer whose characters are in the object
  changes its characters (226; `CopyFails` in `Texts`).

*Addresses and strings.*

* `FromStr<In6Addr>` takes a separator before the first hextet and one after
  the eighth (`Means6Loosely`). The numbers in all addresses may have leading
  zeros, also more than the grammars allow, as `StrToInt` reads them; a token
  is its value, so the model does not tell these texts apart.
* `pfxToMask<In4Addr>` does not check for prefixes above 32.
* `sock.hpp:206` says "Abstract sockets are not null terminated but path
  sockets are"; `fill` leaves the terminator of a path as it was, so that the
  kernel gets a byte that was never written where a nul is meant, and writes
  one behind an abstract name, which is past `sun_path` when the name fills it
  (306). `SockBytes` exempts both by name.
* An empty path makes `fill` copy a range that ends before it begins (303).
  `SockBytes` is about the calls that survive it; `CrashInBuf` is the others.
* `zstring_view::starts_with` and `ends_with` of a view name their parameter as
  the member they compare it with, and so compare it with itself
  (`zstring_view.hpp:221`).
* `zstring`s are validated only in builds without `NDEBUG`.

## 6. Proofs

Checked by TLAPS for every value of the constants that the modules' `ASSUME`s
allow: any sets of handlers, buffers, descriptors, files and names, any queue
sizes, capacities and strides. Sets that the code counts or takes the least
element of are finite, or sets of numbers.

Each proof has the same shape. Lemmas about the operators of the model come
first, then one lemma for each action, then `Init`, the step and the theorem.
An invariant is conjoined with what it needs to be preserved, and TLC checked
the conjunction before it was proved.

* `IoUring_proofs`: `Invariance`, `Typing`, `DropIsDefined`,
  `RunsRightHandler`, `CalledOnce`, each under the hypothesis
  `QuietReplacement`, without which the bookkeeping goes wrong (section 5).
  `DropFindsHandler` is not inductive: a step may only remove a handler from
  the vector if it knows *how many* registrations remain. The inductive
  invariant `IInv` therefore counts: for each handler, as many places in the
  vector as entries and requests that claim it (`HandlersMatch`). For the
  counts to move together an entry must be in one queue and once
  (`QueuesApart`), each callback must be where it belongs (`FramesMatch`: only
  the outermost one is a completion's, whose entry is at the head; each
  replacement is on an entry of its own), and the handler of an entry that is
  being replaced must be with its callback (`HandlerKept`). Lemmas say what
  `std::find` returns (from the least element of a set of numbers), what the
  swap and `pop_back` do to the vector (`DropValue`) and to the number of
  places of each handler (`DropCount`), what `push_back` does (`PushCount`),
  and what the elements of queues are under append, tail and suffix.
  `EachCalledOnce` is a second layer on top of `IInv`: what is owed moves with
  the places the destructor has not passed (`Left`) and the calls of
  `setHandler` that will add one (`Adding`).
* `IoUringRing_proofs`, on files: `SlotsDistinct` and `CountExact` whatever the
  kernel refuses, `SlotsGivenBack`, `FilesKept` and `NoTermination` while it
  refuses nothing, and the action property `RoomReserved`. None of the
  invariants is inductive alone, so `IInv` is all five: the count goes down
  with a drop only because the slot of a handle was in use (`HandlesDistinct`),
  and a table that is registered anew has the files of the old one only because
  the old one was what the numbers stand for (`TableCurrent`). `SetFileCounts`
  and `ResizedKeeps` are what the two changes to the vector do to the set of
  slots in use and to its size. On events: `WakeupsKept`, that no wakeup is
  lost, from `EventsInv`, which adds that signalled completions imply a
  descriptor and that a callback has a completion to work on.
* `Handles_proofs`: `Ownership` and `Contexts`. Here the conjunction of the two
  and the types is inductive as it stands: ownership needs the contexts, since
  a drop with a foreign context frees nothing.
* `FdHandles_proofs`: `FilesKept`, and `Implements`, that descriptor handles
  implement `Handles`, action by action: each step of `FdHandles` is one of
  `Handles` under the mapping, or a stutter. The invariant that both need is
  ownership of numbers (`FdsOwned`): that an object's number stands for its
  file survives a close and a reuse of numbers only since nobody else has that
  number. The kernel gives out the lowest free number, which exists for any
  set of numbers by well-founded induction on them (`MinIsElement`); that it
  is free is all that the steps need (`MinIsFree`).
* `AtomicWriter_proofs`: `WholeOrNothing`, `TemporaryIsOwn`, `NothingLeft`, and
  `WholeStays`, an action property. What is renamed is whole only because
  `commit` came that far in order (`CommitInOrder`), because no other writer
  could have the file under its own name (`OwnTmp`), and, after a loss of
  power, because what the journal shows was synced before it was renamed. The
  three invariants are proved together.
* `Transfers_proofs`, on transfers: `BytesInOrder`, `DoneIsWhole`,
  `SafeToRepeat`, `FramesKept`. That bytes are in order says where the stream
  is (`pos = start + total`), from which the others follow at each return,
  given that buffers are whole elements. Lemmas on remainders (`SumIsWhole`)
  carry the last two, and `FilledIsFront` and `ResizedIsFront` say what a read
  and a resize leave in the buffer.
* `Transfers_proofs`, on lines: `BytesFlushed` and `LinesKept`, for any bytes,
  newlines, sizes of pipes, reads and buffers. `FlushedOnce` is inductive with
  the types: a write that ends a flush clears what it has sent (`PieceIs`,
  `PiecesJoin`). `LinesKept` is about positions in what was sent, never about
  how the lines are put together, so that no induction over lines is needed:
  the line that ends at a newline has the number of newlines up to there, which
  does not change when more is sent (`PieceKept`) and grows by one when `Scan`
  passes one (`NewLinesCounted`). `StillKept` is the case of the steps that
  leave the reader alone, `Scanned` and `Left` say what a scan takes and
  leaves, and `Ended` and `Begun` are the two halves of the invariant, about
  the lines that were returned and the one that is pending.
* `StrBuf_proofs`: `StorageSafe`, and `ImplementsContents`, that `StrBuf`
  implements `Texts`. `StorageOwned` is inductive; `Sound` is the case of it
  that steps start from, as none starts from a corrupt allocator. It is proved
  from the buffers' side (`Unshared`: all memory has an owner, and no two share
  any), and every call is one of four changes, each with a lemma that gives
  both ownership and the texts: a text is written where the buffer keeps its
  own (`WriteKeeps`), memory is given back (`GiveBackKeeps`), a text goes to
  new memory (`AllocateKeeps`), and one buffer takes over what another has
  (`TakeOverKeeps`). All four rest on `Reassembled`: a step may change a set of
  buffers if these keep what they owned or give it back, and take nothing that
  is another's. Growth needs that half as much again as a length beyond the
  object's room is more than that room (`GrownIs`). `DestroyLostStep`, the
  destructor of an object that a failed copy left, rests on ownership as well:
  since the memory has one owner at most, there is one buffer at most that
  loses it.

* `Conversions_proofs`, about every call and every argument: `TimesExact`,
  `SocketsKept`, `StringsOrdered`, `MasksInverse`, `SubnetsExact`. The state is
  the last call, so the invariants need no strengthening (`CallOf` lists the
  calls) and the work is in the lemmas about the functions:
  * `Divided` and `TimeConverted` are the floor and the remainder of
    `chronoToKTS`, for any number of units in a second;
  * `StoredIs` and `PortStored` say where the bytes of an integer are in either
    byte order, and `NameMade` and `NameRead` what is written of a path and
    what is read of it, with and without a terminator;
  * `OrderAt` is the order of two texts at the first place where they differ.
    `CompareIs` and `CompareZIs` find that place or an end, whichever is first
    (`LeastNatural`, by well-founded induction on numbers), and `FrontIs` and
    `SaidIs` are what a string with a nul in it says;
  * `BitsOfSum`, `SumOfBits` and `BytesAre` are bytes as bits and back.
    `MaskIs` is the word that `addr32Mask` makes, for 0 and 32 too, and
    `PfxIs` is the validity test of `maskToPfx`: a word and its negation plus
    one have no bit in common just when the ones are in front;
  * `NetBytes` and `NetBits` are the network word by word and bit by bit, from
    `LastWordIs` (the word that the prefix ends in), and `SameNet` is
    membership.

Only model-checked, because out of the prover's reach: liveness (neither
fairness arguments nor ENABLED are proved here), and `PrintExact`,
`ParseExact`, `AddressText` and `AddressGrammar`, whose functions go through
digits and tokens one after another, so that what they return for texts of any
length needs induction over data.

## 7. Not modelled

* Ring: the *values* that callbacks get; `wait`, which only blocks; multishot
  and linked requests, which the code does not set up itself; threads that
  share a ring, which the code does not support; a callback that calls
  `process()`, and handlers that register others while the ring is destroyed
  (hazards without a property).
* Descriptors: operations that are one call of the kernel (`sendto`,
  `recvfrom`, `lseek`, socket options, `accept`), `fd::create` and the flags,
  `MMap`; moves of `LineReader` and `FormatBuffer`; forks; directories that are
  not synced beyond what `Flush` says.
* `StrBuf`: allocators that differ between buffers, evaluation at compile time,
  appending a buffer's own characters to it; anything but the destructor of an
  object without use; what happens after memory was given back twice; an
  allocator that checks the size it is given.
* Numbers: characters above 127, which index a table with a signed value where
  `char` is signed.
* Addresses: `isLoopback`, `isUnicast` and `isMulticast`, which are one
  comparison each; literals and hashes.
* `zstring_view`: what it hands to `std::string_view`.
* `Cancel` is a `Managed` handle; `AlwaysCallOnce`, one flag, is left out. So
  are the utilities without behaviour over time: raw byte views, error macros,
  function views, variants, pinned values, hashes, concepts, signals, printing
  and test helpers.

## 8. Plan

Done: the state of the library (`IoUring`, `IoUringFiles`, `IoUringEvents`,
`Handles`, `FdHandles`, `AtomicWriter`, `FdOps`, `Lines`, `StrBuf`), its pure
code (`Numbers`, `NetAddrs`, `Subnets`, `SockAddrs`, `ZStrings`), and proofs of
every invariant, action property and refinement but the four of section 6 that
need induction over data. Next:

1. Those four, with a prover that can instantiate the induction theorems.
2. Readers that are moved, and callbacks that call `process()` (section 7),
   once the code says what is meant to happen.
