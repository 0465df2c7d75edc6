# Specifications of lolmetadumper3

lolmetadumper3 loads the macOS executable of a game into a Linux process, runs
its initializers and its entry point until the game asks for an alert box, and
then dumps the metadata of its classes, with the default values of fresh
instances, as JSON. While the game's code runs, a shim of C functions stands for
the system libraries of macOS. These TLA+ modules say what the parts promise. TLC
checks them on small instances; TLAPS proves part of them for all. Paths below
are relative to the repository (`stub_*.c` are in `stubs/src`), lines are of the
commit the project is kept with.

## The system

| component | source | state | operations | module |
|---|---|---|---|---|
| parser | `src/loader/macho.rs` 117-325 | the image being built, registers of the rebase interpreter | `MachOImage::new` | `MachOParse` |
| image | `macho.rs` 327-481, `src/loader/mod.rs` | the mapping, its address, the loop at hand | `map_image`, `resolve_imports`, `resolve_exports`, `fixup_tlv`, `run_mod_init`, `get_entry` | `MachOImage` |
| operator hooks | `src/loader/newer.rs` | 20 statics `HOOK_*`, blocks alive | `_Znwm` ... `_ZdaPv...`, `install_hook` | `OperatorNew` |
| resolver | `src/loader/stubs.rs`, `stub.c` | the libraries found, once | `resolve`, `dlsym` of the image | `Resolver` |
| escape | `hack.c` | `has_hack`, `jmp_hack`, locks and threads of the image | `run_until_alert`, `objc_alloc` | `AlertEscape` |
| Mach semaphores | `stub_kernel.c` 149-243 | table lock, used bits, POSIX semaphores | create, destroy, signal, wait, timedwait | `SemaphoreTable`, `SemaphorePool`, `TimedWaits` |
| mutexes | `stub_pthread.c` 62-170, 356-395 | signature and Linux mutex, attributes | 8 calls, 3 classes of C++ | `MutexShim`, `DarwinMutex` |
| condition variables | `stub_pthread.c` 95-105, 217-255, 410-429 | a Linux condition variable over Darwin's | 8 calls, 1 class of C++ | `CondShim`, `Deadlines`, `TimedWaits` |
| threads | `stub_pthread.c` 90-93, 187-195, 257-275, 397-408 | detach states, `pthread_t` values | create, join, detach, attributes, `std::thread` | `ThreadShim` |
| stubs | `stub_audio.c`, `stub_kernel.c`, `stub_process.c`, `stub_xpc.c` and others | none | panic, or answer a constant | `StubTable` |
| sockets | `stub_socket.c` | none of its own; memory of the image and the host | 18 calls, 6 conversions | `SocketAddresses`, `SocketShim`, `AddrLists`, `OptionShim` |
| files | `stub_fs.c`, `stub_io.c`, `stub_kernel_kqueue.c` | a block and an entry per directory stream | `opendir`, `readdir`, `closedir`, `stat`, `kqueue`, `close` | `FileShim` |
| system | `stub_sys.c` | a static counter | `sigaction`, `uuid_generate`, `__cxa_throw` | `OptionShim`, `UuidTicks`, `StubTable` |
| strings | `stub_str.c` | buffers of the image | `strlcpy`, `strlcat`, `memset_pattern16` | `StringShim` |
| defaults dump | `src/meta_dump.rs`, `src/meta.rs` | the instance alive, the calls left, the document | `dump_class_list` and below | `MetaDump` |
| main | `src/main.rs` | none | load, search, dump, write | order only |

How they interact: `loader::map_image` parses the file, maps it, binds its imports
to the answers of the resolver, gives its operators to `install_hook`, fixes its
thread-local descriptors and calls its initializers. From then on code of the
image runs in the process and calls the shims it was bound to, on its own threads
too, and looks up more of them by `dlsym`. `run_until_alert` calls the entry point;
`objc_alloc` of the class `OSXAlertBox` jumps back. `main` then finds the vector of
classes in the mapping and dumps it, and the dump calls constructors and
destructors of the image, while threads of the image go on.

What is hard, and what makes each part correct:

* The loader mixes three kinds of address (link-time, offset, actual) in one
  integer type, and its steps must come in one order. Every word must be right
  when the first initializer runs, at whatever address the image ended up, and
  no code may run before its allocator is hooked.
* The rebase table is a byte code with relative skips: one slip moves all that
  follows. It must give exactly the pointers the linker put in.
* The 20 operators may be hooked in any subset. A block must go back to the
  allocator it is of, though the host's libraries and the image enter the
  fallback chains at different places.
* A name must be the same function whichever way the image comes by it, and a
  function that knows the shim's layout of an object must never be mixed with
  one that does not.
* The escape is a `longjmp` out of foreign code, with threads and locks alive. It
  must land in a live frame of its own stack; what it left locked can only be
  worked around, not released.
* The semaphore table is shared by threads, is checked without its lock, and
  panics on what it thinks cannot happen. It must be a pool of semaphores.
* Objects of Darwin are laid over objects of Linux that number and count other
  things: kinds of mutexes, detach states, waiters, families, options, errors. What
  the image set must be what it gets, over reuse of memory, ids and attributes.
* Addresses and lists are converted in place, there and back, while threads share
  them and calls fail in between.
* Deadlines are sums of times, of a clock that somebody may set.
* The dump walks memory of the image by metadata of the image. It must read
  nothing that is not alive, and lose or mix up no property.

## Modules of the loader and the dump

**`MachOParse`** is `MachOImage::new`. One action per segment, per section of the
thread-local walk, per load command, per opcode. Words of 8 bytes are the unit
(as the rebase opcodes have it, and all linkers' tables); an opcode comes with
its operands. `checks` is the profile of the build: `offset += skip` and the end of
a section, `sect.addr + sect.size`, panic in the dev profile and wrap in release
(`Overflows`, `CannotClip`); a section whose end wraps is not clipped, since the
minimum takes the wrapped sum, and the properties except it. `Count` and `Stride` bring the four
`DO_REBASE` loops to one form. Assumed of the file (`FileAssumption`): sections
start in their segment, segments end within u64, nothing is at address 0; sections
may end anywhere. It has finitely many of them, in lists. Of a file that a linker wrote it says besides that
its sections end within u64 and that it has one rebase table, made of any number of *pieces* (`Pieces`): each sets the
type or leaves it, sets the place or adds to it or leaves it, repeats pointers of
one kind at one stride by one of the four opcodes, and may advance once more; zeros
follow the last. `Encodes` says that the opcodes are those of the piece, and
`Covers` which pointers the linker meant by it, inside the address space. No
definition of the interpreter is used to say so.

**`MachOImage`** is the rest of the loader, one action per iteration of each loop:
`MapPreferred`/`MapAnywhere`/`MapFails`, `CopySegment`, `RebaseOne`, `ImportOne`,
`ExportOne`, `TlvRange`, `CollectInits`, `RunInit`, `EnterGame`. `mem` is the
mapping by offset. `ReadyWord` says, without any loop, which word is owed to each
offset: zero or file contents, slid by the relocation, replaced by the binding,
replaced by the thread-local fixup. Initializers may write to the mapping
(`Scribbles`) while the collected pointers are called. `WellFormed` is the layout
of the structs; `Disjoint` is what linkers do: no two segments, relocations of a
kind or descriptor ranges share a word. `LinkerAssumption` adds what a linker
promises of contents: relocated words, exports and initializers hold addresses of
the image's own segments (`SelfContained`), and each thread-local descriptor has
room of its own behind the template's start (`OwnThreadLocals`). By `MapAssumption`
a mapping ends inside the address space. `vmsize` is the end address of the image
and not its size, as in the code: the mapping is larger by `vmbase`.

**`OperatorNew`** names an operator by its verb and variants. `NewChain` and
`DeleteChain` are the orders in which the fallbacks drop them. Libraries of the
host enter at the exported operator; the image calls operators it defines
directly. While `resolve_exports` runs nobody allocates (`Calm`): `install_hook`
is Rust code of the loader, which allocates through malloc.

**`Resolver`** has a name as the blocklist's prefix it begins with, and the rest.
`Table` is the 210 names of `stub.c`, `LookUp` the order table, blocklist, host;
`OpenLibraries` happens once and keeps those of `Order` that the host has. Imports
and `dlsym` share `ResolveImpl`. `MachOImage` takes answers as a constant function,
which `OneMeaning` justifies. By `LibrariesAssumption` a name that must never be
the host's (`Shimmed`) is in the table or begins as the blocklist has it; functions
of libc++ that begin otherwise are a known hole (below).

**`AlertEscape`** has the main thread in the loader and the dump, threads of the
image, and locks. The look at `has_hack` and the `longjmp` are separate steps. A
jump leaves `abandoned` locks behind, which nothing unlocks. The image is taken
to hold one lock at a time, to give it back before it returns, and, with
`MainOnly`, to make alerts on the main thread, as the user interface library of
the game demands.

**`MetaDump`** turns the recursion of `dump_instance_*` into a stack of calls left
(`tasks`) and its nested result into a document `out`, from paths to leaves.
Inserting a value replaces all below its path. `Members` is the independent
definition of what a class's object should be, by recursion on classes and
pointers: of an object's parts, in the order base, secondary bases, own
properties, the latest that has a key is kept for it (`Latest`). The value of an option is read at the option's own place, pointers are
followed by the class of the property, and `is_empty` ignores secondary bases,
all as in the code: a class that has properties of secondary bases alone has no
`Defaults`, which is checked of it as other classes' are. `checks` is the profile of
the build: the shift of a flag beyond its byte panics in dev and starts over in
release (`Flag`); compilers of the image make none. By `MetaAssumption` no two classes have one hash; properties
may, and then the later of them wins. `MemoryAssumption` is what the image's
constructors do: of each class there is a set `Objects[c]` of the objects its
instance consists of, each with its fields in the instance's memory, and pointers
lead to objects of the set or are null. `Nesting` is a height of objects that falls
from each object to what it is made of, so no instance contains itself by its
pointers: a cycle would have the code recurse until its stack ends. Containers of
a fixed size hold that many items.

## Modules of the shim

**`SemaphoreTable`** has one action per access to shared memory: the check without
the lock, lock, scan step, `sem_init`, unlock, publication of the bit. `live` is
a history of the names callers hold. `Careful` callers use a name while they hold
it and destroy it once when nobody uses it; others do as they please.
**`SemaphorePool`** is what they are promised; `PoolOfTable` is the refinement
mapping: a marked slot is a semaphore with the count of its `sem_t`.

**`MutexShim`** keeps, per mutex, its signature and the Linux mutex behind it (kind,
owner, count), and per thread the attributes it works with. `Fixup` is the switch
on signatures, `NativeType` the one on types. `asked` is the image's view: the
kind it asked for, by attributes, by a static initializer or by a constructor.
**`DarwinMutex`** is the promise by kind; in the refinement `kind` is `asked` for what
`pthread_mutex_init` made, and `unchecked`, a mutex without an owner's rights, for
what an initializer or a constructor made of another kind than normal (`Kind`). The
mutexes of C++ are the same calls; the constructor of `recursive_mutex` panics.

**`CondShim`** has the condition variable of Linux as two groups of waiters, of which
the older is signalled first, and a count that a signature in the wrong place
makes too large (`Skew`). `Static` says whether `pthread_cond_init` clears it. The
image is a monitor with producers and consumers, since signals promise something
only to those who hold the mutex when they look.

**`Deadlines`** is the arithmetic of `timespec`s as pure operators; **`TimedWaits`** uses
it under two clocks, one of which may be set. Linux refuses a deadline that is
not normal, so the wait is over at once (`Invalid`).

**`ThreadShim`** has the ids Linux gives out again, the variables of the image that
hold one, and the numbers of detach states as they are passed. `nr` tells threads
with one id apart and is no part of the code. Neither `thread::join` nor
`thread::detach` zeroes a `std::thread`, so it may be joined or detached again at any
time (`MayUse`), whoever has its id by then; a `pthread_t` is used once. Linux refuses
what it cannot join or detach (`Attached`, `Deadlocks`). `early`, `strayed` and `misread`
are a history: of joins that came back while their thread ran; of a `std::thread` used
once more when its id was another thread's, or joined after it was detached; and of a
detach state passed by its number of Darwin. `early` is never assumed away: it must
be explained by one of the other two. The stubs come in by `Use`, from **`StubTable`**, which lists per file what
panics and what answers; `WriteLine` and `Finish` are the main thread after the
jump, which races with whatever ends the process.

**`SocketAddresses`** is the first two bytes of an address and the table of families.
**`SocketShim`** calls Linux with converted copies; `socket` itself is not in the
table of the shim, so the image's numbers reach Linux. Calls that tell an address
may fail - nobody has come, the socket is not connected, or is none - and convert and
copy their array all the same: `Leftovers` is what may be in it (`TellsLeftovers`). A
socket without a name is told its family alone. `sendto` without an address passes
one (`SendtoPeer`): a stream goes to its peer, a datagram is refused. The buffer of
the image is taken to be long enough. **`AddrLists`** converts lists
and hints in place, a read and a write at a time. **`OptionShim`** renumbers options
without their level and has the two forms of `sigaction` that do something.

**`FileShim`** gives out the lowest free descriptor. A queue is descriptor 0 whoever
asks. **`StringShim`** writes byte by byte and keeps the byte behind the buffer.
**`UuidTicks`** splits `++ticking` into its read and its write.

**`ShimThreads`** (mutexes, threads, identifiers: what threads share), **`ShimWaits`**
(`TimedWaits` and `CondShim`: how they wait) and **`ShimCalls`** (names, sockets,
lists, options, files, strings: what the image calls) put the modules of the shim
together, for any value of their constants. These parts of the shim have no memory
in common (its statics are the table of semaphores, the counter of identifiers,
`has_hack`, and an entry of `getpwuid` that nothing fills; descriptors, which sockets
and files share, are numbers that `SocketShim` does not compare), so a step of one
commutes with a step of any other, and a property of one holds in all interleavings
if it holds when the others stand still. A behaviour therefore picks one part at
the start and takes its steps; the rest keeps its initial state. A property of the
composed module collects what the component's module states under the names it has
there, and each component has its fairness for itself. `ShimWaits` is of a condition
variable that `pthread_cond_init` made (`Static` is FALSE). Assumed of the constants
of `ShimCalls`: hints have a family of the table other than 16 and 17, whose
conversion is not undone by the one back when threads share them
(`ListsAssumption`); the families of the host's lists are of the table, so that the
AF_PACKET of `getifaddrs` is not among them; options are of the socket's level, or
of TCP, or have a number the table does not know (`OptionsAssumption`). Whether
threads share their hints is chosen at the start (`shared`).

Each `MC...` companion of a module gives the constants for TLC.
Definitions headed "Variant with a plausible bug" take no part in a specification:
each shows that some property would notice that bug.

## Runs

| run | instance | checks |
|---|---|---|
| `macho_image` | two images (thread-locals, zero fill, weak and lazy imports, relocations of another kind, re-exports, initializers in two segments), every mix of resolver answers, bases below, at and above the preferred one | words right, pointers inside, thread-locals apart, initializers in order, hooks first, termination |
| `macho_parse` | about 3,800 files: pairs of runs of 1 or 3 pointers with stride 1 or 2, in one or two segments, in every encoding and with padding; 48 files with tables no linker writes, a third of them with sections that end at and behind the end of the address space; both profiles | pointers exact, sections inside their segment, thread-local template |
| `operator_new` | images with the least complete set, plain operators only, a usual set; 2 blocks | blocks go home |
| `alert_escape` | main, 2 threads, 2 locks, at most 3 locks taken by main | jumps land, the program ends or is stuck on an abandoned lock |
| `meta_dump` | 5 classes with a base, a secondary base, a hidden property and all kinds of type; 96 memories; well-typed metadata and 5 faulty ones; both profiles | instance alive, defaults right, panics only on maps, termination |
| `semaphore_one` | 3 threads, one of which creates; 2 slots; counts to 2; careful callers | no panic, names unique, no leak, refinement of the pool, lock released |
| `semaphore_careless` | 2 threads, one creates; 2 slots; counts to 2; callers use and destroy any name | refinement |
| `shim_threads` | `MutexShim`: 2 threads, 2 mutexes, one or both of which may be static and recursive, all attributes, the recursive classes of C++, depth 2. `ThreadShim`: main and 2 ids, 3 threads made, 3 handles of which one is a `std::thread`, both detach states, 7 stubs. `UuidTicks`: 2 threads, 3 identifiers, a counter modulo 4, 2 random numbers | `MutexesAsMade`: refinement of Darwin's mutexes, ownership, who waits for itself; `ThreadsAccounted`: handles name their threads, joins wait, but for what is used once more, ends of the process; `AllDiffer`: no repetition without a race |
| `shim_waits` | `TimedWaits`: seconds of 3 nanoseconds, 4 durations, 5 instants, the clock set back or forth once. `CondShim`: 2 producers, 3 consumers, 3 items, signal and broadcast, inside and outside the mutex | `TimesExact`: neither early nor late, time measured right; `WaitsEnd`; `EachSignalWakes`: waits end inside the monitor, no signal is lost; `Delivered`: all is consumed |
| `shim_calls` | `Resolver`: the names of the table but for three groups of stubs without a prefix, which are alike, names that are blocked, names of the host, 3 sets of libraries. `SocketShim`: a socket of three families, of which one is numbered otherwise in Linux and one has the number of another there, 2 addresses of each, 3 peers, calls that fail at any time, 2 contents of their arrays. `AddrLists`: 2 threads, 3 families, lists to 3 entries, hints of each thread, or one for all. `OptionShim`: 9 options of two levels, 2 threads at `sigaction`. `FileShim`: 3 descriptors, 2 streams, 2 queues. `StringShim`: 5 bytes, strings to 5, patterns of 2 | `NamesBoundRight`: one pointer per name, the shim's or none for its objects, overrides first; `AddressesAsMeant`: both ways; `ListsAsMade`: layout, freeing, hints; `OptionsAsMeant`: options mean the same, the pipe stays quiet; `FilesAsOpened`: ownership of descriptors, leaks, fields of `stat`; `StringsFit`: contents, terminator, lengths |

and two runs that end in a violation:

| run | finding |
|---|---|
| `semaphore_two` | `semaphore_create` sets the used bit at `stub_kernel.c:165`, after the unlock at 164. A second creating thread can take the same slot; when one holder destroys it the other runs into `panic("bad!")` (210), though each uses only the name it was given |
| `mutex_recursive` | a recursive mutex of a constructor or of an initializer is a fast mutex of Linux; locked twice it blocks its holder (`stub_pthread.c:383`) |

The models have these divergences too; the properties of the passing runs name them
as exceptions, or are about instances without them:

* a static condition variable has its signature where Linux counts waiters, so it loses
  signals (`stub_pthread.c:12-16`; `Static` of `CondShim`);
* `PTHREAD_CREATE_JOINABLE` of Darwin is passed as it is and means detached to Linux:
  joins return early (`stub_pthread.c:194`; `misread` of `ThreadShim`);
* `vm_page_size` and `bootstrap_port` are variables in Darwin: they are read and do not
  panic (`stub_kernel.c:59`, 295; `DarwinVariables`);
* functions of libc++ on objects of its threads that have other prefixes than the
  blocklist's come from the host (`stubs.rs:93-109`; `MCUnfiltered`);
* `thread::join` and `thread::detach` leave the id in a `std::thread`: it is joined or
  detached again under another thread (`stub_pthread.c:398`, 400; `strayed`);
* calls that fail to tell an address overwrite the image's buffer with what the stack
  held (`stub_socket.c:233-263`; `TellsLeftovers`), and a datagram that is sent without an
  address, on a connected socket, is sent to an array (226-231; `SendtoPeer`);
* a section whose end does not fit u64 is not clipped in release and a panic in dev
  (`macho.rs:132`; `Overflows`);
* a flag beyond its byte is a panic in dev (`meta_dump.rs:88`; `WellTyped`);
* bytes of a pointer are converted as an address (`stub_socket.c:201`; `Interface`);
* options are renumbered whatever their level (`stub_socket.c:338`; `Misread`);
* and, not in a model: error numbers are Linux's (`stub_kernel.c:56`).

Why the bounds are enough. Two slots fill and are reused; a third thread is the
one that destroys between the steps of two others. Counts to 2 meet the limit and
the empty semaphore, and a count that is set anew can differ by more than a
signal or a wait explains. Two locks let the main thread want one that it abandoned
and one that another thread holds. Two runs of pointers meet every transition
between encodings, a relative move between runs included. Images have every
section type and relocation kind the code tells apart, and at least two of what
a loop could confuse. `WordMod` is small enough for a slide to wrap. A mutex of
depth 2 is locked again after an unlock that did not free it, and 2 mutexes let
attributes of one kind meet memory of another. Three consumers fill both groups
of waiters, with one to spare that a lost signal would leave. A second of 3
nanoseconds makes every carry happen within a few ticks: a duration of 7 is two
carries. Three threads over two ids use an id again while its old handle is kept.
Lists of three entries have a first, a middle and a last. Three descriptors are
the queue's, and one for each of two that may be confused. A buffer of 5 is filled
short, exactly, by one too many and by more; a pattern of 2 leaves a rest of 1.
A counter modulo 4, stepped
twice by each call, comes round at the third identifier.

**Fairness.** The loader and the dump are one thread that nothing blocks, so weak
fairness of the next step is what a scheduler gives (`Terminates`, `Ends`); the
initializers and constructors are assumed to return. Threads inside a semaphore
call keep being scheduled, one by one, and no thread is made to call
(`LockReleased`). In `AlertEscape` the main thread and the holders of locks are
scheduled, what the image locks it unlocks, and, since a mutex that is freed again
and again does go to a waiter at some time, `Locked(Main)` is strongly fair. No
fairness is assumed of alerts or of what other threads choose to do. In
`CondShim` threads that can go on do, and the mutex goes to a thread that is
enabled for good; waits that time out or end for no reason are not counted on, so
`Delivered` rests on signals alone. In `TimedWaits` time passes to its horizon, and
Linux ends a wait whose deadline has come; nobody has to signal.

**Deadlock** is checked except where the system may stop: after `panic` or the end
of the process, when a thread waits for itself or consumers for nothing, and
when a bound on calls, time or identifiers is reached. Each such `.cfg` says which.

## Proofs

`tlapm` checks all leaves of these, for every value of the constants that meets
the `ASSUME`s. TLC evaluates the same assumptions in every run.

**The loader.**

* `MachOImageProofs`: `TypeOK`, `ImageReady`, `InitOrder`, `HooksBeforeCode`,
  `PointersInImage` and `TlvStorageApart`. `LoopInv` strengthens the first two with
  what every word is in the middle of each loop: those that entries before `k` name
  are done, the others are as the stage before left them. It rests on `Disjoint`:
  without it a later iteration could undo an earlier one. `OffsetWordKept` is why
  the thread-local fixup can read an offset in the loop that writes its neighbours.
  `RunInv` says of the vector that it is the file's table, moved, from the moment it
  is collected, which is why initializers that write to the table change nothing,
  and of each hook that it lies in a mapped segment once its export was met. The
  last two follow from `ImageReady` by what `LinkerAssumption` says of the contents.
* `MachOParseProofs`: `SectionsInside`, `TlvTemplate` and `RebaseExact`. `LayoutInv` says of the
  segments so far what the property says of all, with `vmbase` and `vmsize` as
  running bounds; clipping is what makes the step, and a section whose end wraps in
  release is the exception that the theorem names. `TlvInv` says what the template
  is of the sections seen so far: it may shrink at its low end, and `NoneLower`
  names the sections that this cannot cut off. And `RebaseExact`, for tables of any
  number of pieces and pointers: `TableInv` says that the interpreter is at a piece,
  between two of its opcodes, with the registers that the linker reckons with there
  and the pointers up to it collected (`AtPiece`, `Typed`, `Moved`, `Repeated`), or in
  the padding. `InOrder`, that the segments kept are the file's in their order, is
  what makes `segments[segment]` the one the linker meant; that a piece ends inside
  the address space is why neither build's arithmetic makes a difference.
* `OperatorNewProofs`: `TypeOK`, `PlainBlocksReturn`, `LateBlocksReturn`, for every family
  of export sets and any number of blocks. `HookInv` says that after
  `resolve_exports` the hooks are the exports and that late blocks were made by
  them; the lemmas evaluate the two chains by cases on their first hooked place.
  `BasicIsNotEnough` shows that `Complete` is not idle.
* `AlertEscapeProofs`: `TypeOK` and `JumpsHome`. `EscapeInv` relates the phase of the
  main thread, `has_hack` and the frame; it is needed because an alert in
  progress has read `has_hack` and must still find the frame alive.

**The dump.**

* `MetaDumpProofs`: `ReadsLive`, `PanicsOnMaps` and `DefaultsRight`. In `DumpInv` every call that is left
  is about an object, a property or an item of the instance alive (`Right`), and the
  list is empty when the instance is destroyed. Each call hands `Right` on to those
  it makes, through bases, secondary bases, embedded objects and pointers; with
  well-typed metadata no call but that of a map reaches a panic. For `DefaultsRight`
  a document is compared with what it will be: each call left *says* a part of it
  (`Says`, by the reference definition), and `WillHave` is what is there when later
  calls have hidden what earlier ones put under the same keys (`AllGive`,
  `OneAfterTheOther`). A call that returns a leaf, makes more calls or becomes
  another keeps `WillHave` at every path (`CallSaid`): for `dump_instance_properties` this
  is that a class is the latest of its parts (`PropertiesSaid`, `PartsSay`), for lists
  that items have places of their own. `DocInv` says that for classes behind `index`, and
  the one being dumped, the document will have what `Defaults` says (`Saved`), which is
  `Members` but for classes that `is_empty` skips;
  `InstanceDumped` and `NothingDumped` are the steps that begin a class, which is
  where distinct hashes of classes are needed. `Nesting` gives the recursion of `Members`
  a solution (`SolutionExists`, `MembersUnfold`).

**The shim.**

* `SemaphoreTableProofs`: `TypeOK`, `NoPanic`, `HandlesUnique`, `BitsMatchHandles` and
  `ImplementsPool`. `TableInv` ties the lock to program counters (`Locals`) and says
  the slot a creator is at is free (`ClaimsFree`): that is the step that needs
  the single creator, since it outlives the unlock. `ClientInv` adds what careful
  callers keep. The refinement maps each step to one of the pool's or to a stutter.
  All theorems about names assume one creating thread, because of the finding.
* `ShimThreadsProofs`, mutexes: `MutexesAsMade`, with the refinement of `DarwinMutex`.
  `MutexInv` says that a mutex `pthread_mutex_init` made has the kind that was asked
  for (`KindsAgree`), whatever its memory held, and who uses a mutex is known to it
  (`InUse`). Threads: `ThreadsAccounted`; a handle that may still be joined has an id
  that is still its thread's (`LiveNamed`), because nobody else's join waits for it
  (`JoinsAlone`); both hold until a state is misread or a use strays, which the property
  excepts: a `std::thread` used once more while its id is its own has a thread that is
  gone or detached, so Linux refuses (`SpentGone`). Identifiers: `AllDiffer`; without a race the counter tells the
  number of the identifier (`FirstWords`), and equal words are a round apart.
* `ShimThreadsProofs`, waits: `TimesExact`, for every second of any length: the lemmas
  on division show that the carries of `Deadlines` keep the instant and make it
  normal, and `TimedInv` that the deadline Linux has is as far off as what is left
  of the time asked for, until somebody sets the clock. `EachSignalWakes`: a variable
  that was initialized counts exactly its older group (`GroupsCounted`), so that
  whenever a signal finds threads waiting, the group it goes to has one.
* `ShimCallsProofs`: all six parts of `ShimCalls`. *Names*: by the order of the table,
  the blocklist and the host (`EarlyStubs` evaluates the table). *Addresses*: a
  socket's memory is of its own family in the numbers of Linux (`SocketsSound`), and
  calls that fail change no socket.
  *Lists*: hints that are not as the image wrote them belong to a call that will
  write them once more (`HintsHeld`), though threads share them; a list the image
  holds converts back to what the host made (`ListsHeld`), for any length. *Options*:
  what an option means is what the socket has (`SameValues`), and every action
  threads keep to restore ignores the signal (`Quiet`). *Files*: no two streams or
  files have one descriptor (`FilesApart`). *Strings*: memory holds what fits of what
  is meant, with its end (`Holds`); that the recursive `Fill` of
  `memset_pattern16` repeats the pattern is by the smallest place where it would not.

Induction over data is done here by a smallest counterexample in a set of numbers
(`Smallest`), since the theorems of the library on recursion take an operator; it
does for functions of one number, as `Fill` is, and for `Members` by the height of
objects.

Model-checked only: all liveness (`Terminates`, `Ends`, `EndsOrStuck`, `LockReleased`,
`WaitsEnd`, `Delivered`: fairness and ENABLED are out of TLAPS's reach), and the two
properties that are violated, `RecursiveRelocks` and `NoPanic` with two creating
threads.

## Not modelled

* Decoding bytes (goblin, scroll, ULEB128), page permissions, the text of the
  document and the metadata part of it, regular expression searches.
* Read-write locks, `pthread_once`, thread-specific keys, scheduling attributes,
  `select`, `glob`, `realpath`, `mmap`, `inet_pton` and other calls whose arguments are passed to the
  host as they are: the shim has no state of its own there, and a model would be
  one of glibc. Where passing is wrong because numbers differ, the module of the
  neighbouring call has it (detach states, families of `socket`).
* Flags and error codes of `getaddrinfo`, memory beyond an address, paths; error
  numbers, which `__error` hands out as the host has them, and `sysctlbyname`, which fails.
* The rune table, mathematical functions, `arc4random_buf` and `uname`: data and
  constants.

External and taken from how the code uses it: the image's code, its linker, the
libraries of the host, Linux semaphores, mutexes, condition variables and sockets.

## Plan

1. Done: the loader, the hooks, the resolver, the escape, the dump; semaphores,
   mutexes, condition variables, threads, sockets, files, strings.
2. Left to extend: the parser composed with the image (`MachOParse`'s result meets
   `WellFormed`); generations of semaphore slots for stale waiters; the dump's
   function addresses in the dev and release profiles; flags of `getaddrinfo`.
3. Done: proofs of all safety properties of the passing runs.
4. Left to prove: that the parser's result meets `WellFormed`, once the two are composed.
