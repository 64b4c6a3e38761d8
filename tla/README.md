# romfs-loader: a verification project

romfs-loader is a module injected into a Nintendo Switch game. It hooks the
game's file-system calls so that files under
`sd:/atmosphere/contents/<id>/romfslite` override the game's romfs, and indexes
that directory again every five seconds. It brings its own small runtime
(exlaunch) that finds the modules of the process, makes writable aliases of
their code and patches hooks into it.

This directory holds TLA+ models of the program, TLC runs over small instances
and TLAPS proofs for all instances. `PROJECT.json` maps every definition to the
lines it stands for.

## 1. Inventory

| part | state | operations | interacts with | what makes it correct |
|---|---|---|---|---|
| path filter: `program/bloomfilter.hpp`, `gFilterLock` | bits, reader/writer lock | `add`, `contains` | indexer writes, game threads read | no false negative, no torn add, nothing but collisions gives a false positive |
| hooks: `program/loader.cpp` | mount point and its length | `MountRom`, `OpenFile`, `OpenDirectory` callbacks | game threads, filter and its lock, file system | an indexed path is served from the mod, the romfs stays reachable, handles are owed to somebody unless memory runs out |
| indexer: `program/loader.cpp` | activations of a recursive walk | walk at start-up, then every 5 s on its own thread | SD card (changing), filter | whatever stays on the card is indexed in the end; depth bounded by the tree and the removals under the walk; no handle is lost |
| paths: `program/loader.cpp` | none | `JoinPath`, keys of entries and lookups, the buffer shared by a walk | indexer and hooks must agree | no write behind the buffer; the same key on both sides; the walk of an entry goes down the tree |
| merged directory: `program/accessor.hpp` | two directory handles | read, count, close | game reads it through `nn::fs` | one stream: in order, each entry once, loss only with an error |
| reservations: `lib/nx/kernel/virtmem.c` | list of 5 slots, regions | find, add, remove | writable aliases | what is found is free; the list is what was reserved |
| regions: `virtmemSetup`, `FindRegions` of `mem_layout.cpp` | two tables of regions | asked of the kernel at start-up, or inferred | reservations | the two agree |
| writable aliases: `lib/util/sys/rw_pages.cpp`, `jit.hpp`, `nx/arm/cache.s` | claim: code, alias, reservation; caches | construct, flush, destroy | kernel mappings, reservations | the alias shows the code; what was written is what is fetched; it goes away |
| hooks' installation: `lib/hook/nx64/hook_impl.cpp`, `trampoline.hpp` | pool of trampolines | `Hook` | aliases, the program's code | target jumps to the callback, `Orig` runs the saved words |
| relocation of saved words: same file | fix map of five words | four rewriting functions | trampoline | the moved words do what they did |
| encoders: `lib/armv8` | a word of bits | constructors that set field after field | patches and generated code | the word decodes to the operands given |
| memory layout: `lib/util/sys/mem_layout.cpp` | table of modules, own index | one walk at start-up | kernel's memory map | the table is the map, less the modules behind an unfinished one |
| process handle: `cur_proc_handle.cpp` | a handle | ask the kernel, or send it to oneself | kernel, a second thread | the receiver has it before it is read; nobody waits for ever |
| system calls: `nx/kernel/svc.s` | registers, the caller's stack and memory | 100 stubs | kernel, everything above | arguments and results go where the prototype says |
| stack traces: `stack_trace.hpp` | iterator | step, walk | readable memory | ends on any stack |
| entry: `program/main.cpp`, `lib/init` | - | `exl_init`, `exl_main` | everything above | order |
| pointer paths, hashes, list, diagnostics, declarations of `nn` and of the kernel, build files | - | - | - | stateless, unused or external |

Hard behaviours: game threads run the hooks while the indexer adds to the
filter and the SD card changes under both; file-system calls fail between
other calls that succeeded; start-up order (the walk uses a trampoline a hook
must have made); random addresses drawn among mappings and reservations;
caches that fetch and write back on their own; a message a thread sends to a
session another thread of the same process serves; limits (five reservations,
the pool, the path buffer, the module table, the indexer's stack, the fields of
an instruction). `PROJECT.json` lists each at its line under `hazards`, with
the properties that guard it.

## 2. Modules

| module | models | state and actions against the code |
|---|---|---|
| `PathFilter` | filter and lock | one action per round of the loops of `add` and `contains`, one per acquisition; murmur3 is any pair of functions |
| `ApproxSet` | what the filter promises | a set of keys with an atomic insert and an atomic lookup whose "hit" means all bits are covered by inserted keys |
| `Loader` | hooks, start-up, walk | `phase` is the place in `InitializeLoader`; `stack` is the recursion of `ProcessDirectoryRecursive`, a frame per activation; `pc[t]` is the place of a game thread in a callback. One action per file-system call, acquisition of `gFilterLock` (whoever is inside a lock object's block holds it) or unlocked access to shared state. Paths are the nodes of a tree and strings shorter than a mount name; behind the end of a path, or in the middle of one, `CheckPrefix` may find anything (`RawPaths`) |
| `PathOps` | `JoinPath`, keys, the walk's buffer | real character sequences, the buffer's size a constant; `ReadEntry` is a round of the walk's loop, `ReadNothing` the one that gets a zeroed entry because the directory has shrunk |
| `MergedDirectory` | `accessor.hpp` | positions in the two directories, one action per way out of `DoRead` |
| `DirStream` | what it promises | one stream of entries, read in any portions, that may fail |
| `VirtMem` | `virtmem.c` | the linked list with its `next` and `prev`, the random search; operators used by the two below |
| `VirtMemClients` | its callers, in any order | `Find`, `Add`, `Remove` as `RwPages` calls them, mappings of others |
| `ReservedSpace` | what it promises | a set of disjoint slices |
| `Regions` | `virtmemSetup`, `FindRegions`, `InferAslrAndStack` | the order of the queries, any of which the kernel may not know, and the probe with an `svcUnmapMemory` that must fail |
| `HookInstall` | `Hook`, `RwPages`, `Jit` | built on `VirtMem`; words of code as symbols (`insn`, the words of the patch), `rwOf` is the page table; an action per step of constructor, patch and destructor. The assertions on the way are empty, as in the build: a hook without a reservation, an address or a complete alias goes on until something refuses it ("aborted") or it touches what is not there ("crashed") |
| `MapRanges` | `ForEachMemRange` | one action per memory block mapped or unmapped; any can be refused, and blocks split and merge before the alias goes |
| `Caches` | `RwPages::Flush`, destructor, `cache.s` | one action per cache line of the two loops, beside caches that fetch and write back when they like; line sizes from `CTR_EL0` |
| `Relocate` | `__fix_instructions` and what it calls | an instruction is its kind, its offset in words and the bits below; one action per rewriting function and way through it; the fix map as it is filled and drained |
| `Encoders` | every encoder that is compiled | an object is the list of `SetBits` its constructors, base class first, make, over a word of 32 bits |
| `MemLayout` | `FindModules` | the state machine of the walk, one action per case; a block is its kind. `Begins(m)` says of a map at which blocks the walk begins a module; its assumption determines it, and a recursive function computes it in `MCMemLayout` |
| `ProcessHandle` | `cur_proc_handle.cpp` | a program counter for the caller and one for the receiving thread, the session, the handle table; any call can be refused |
| `SvcStubs` | `svc.s` against `svc.h` | a stub is its instructions, interpreted one at a time over registers, stack and memory; the prototypes are a table |
| `StackWalk` | `stack_trace.hpp` | `IsValid`, `Step`, the loop of `Walk`; what a frame holds is chosen when it is read |
| `PathFilterProofs`, `LoaderProofs`, `FileAccessProofs` (merged directory, paths), `VirtMemProofs` (reservations, aliases, caches), `HookInstallProofs`, `RuntimeProofs` (memory layout, regions, process handle), `RelocateProofs`, `EncodersProofs` | theorems | section 5 |

`Loader` takes the filter as atomic because `PathFilter` implements `ApproxSet`,
and paths as nodes of a tree because `PathOps` shows that every path that fits
has one key; its hooks and its walk wait for the lock and hold it. `HookInstall`
extends `VirtMem`, so the list and the search are the code's there too; it takes
an alias as mapped in one piece and the saved words as run where they were,
which is what `MapRanges` and `Relocate` look at.

The `MC` modules give the constants their values. `MCFileAccess`,
`MCHookInstall` and `MCRuntime` hold several modules that share no state: a
variable `part` says which of them runs and the others stay as they are, so a
run is the union of the parts' state spaces and not their product.

Definitions whose comment says "A bug" (or that describe a changed step, such as
`WalkCountFailsLeaking`) are never used by `Next`: each is a plausible mistake
in the code, with which the run is required to fail.

## 3. Runs

| run | instance | why it is enough |
|---|---|---|
| `path_filter` | 3 keys on 4 bits, 2 probes, 2 readers | a key covered by two others, a hash that wraps, readers overlapping each other and waiting for the writer. Proved for all instances |
| `loader_card` | tree of 2 files and a directory, a path shorter than the mount name, 1 game thread, 2 changes of the card, 1 failure | each call meets each change and each failure at each step, one of the allocator's too; 3 filter bits make one path a false positive of two others |
| `loader_walk` | directory in a directory, 2 changes, 1 failure | removing and adding under every activation of the walk; also checks liveness, and with it that the walk, which takes the lock only after the recursive call, never waits for what it holds itself |
| `loader_mounts` | 2 threads, 2 mount names, one the beginning of the other, a path shorter than both | every read between the two writes of `MountRom`, and every order of two `MountRom`s' writes |
| `loader_readme` | one file, one directory, nothing changes or fails | expected to fail, see section 6 |
| `file_access` | a merged directory of 2 and 3 entries, buffers up to 6; a path buffer of 9, names of 1 to 3 characters over two letters, and the entry without a name | reads that end before, at and behind the border of the two parts; every length around the buffer's with a slash, the terminator or a name at its end, and a walk that returns to its parent |
| `virt_mem` | 6 pages, 3 slots, slices up to 2 pages | releases of first, middle and last element, all slots used, one page mapped by others |
| `hook_install` | real page and trampoline sizes, 5 reservations, 6 targets, pool of 5; pairs of instructions of every kind in 4 and 5 words, 5 places of function and trampoline; operands at and beyond the edges of every field; aliases of up to 4 pages over any blocks of 6; 16 words of cache in lines of 2 or 8, pages of 8 | near/far, 4- and 5-word patches, two code pages, a hook for which no reservation is left and which writes into the last trampoline of the pool; branches to every word of the five, in and out of every reach, odd and even trampolines; ranges that begin and end inside a line, lines that differ for data and instructions |
| `hook_straddle` | a far hook two words before a page's end | expected to fail, section 6 |
| `runtime` | table of 5 modules (the code's is 13), maps of 3 to 6 with nine kinds of gap; every set of questions the kernel knows; two calls of `Get`; every stub; a stack of 4 words and 9 frame pointers on it and off it | below, at and above the size of the table; between modules text, with or without rodata, once or twice, followed by free memory or by the next module, whose beginning it swallows; regions asked in part and inferred in part; both threads ahead of the other; every instruction sequence of `svc.s`; loops, steps back and wild pointers |
| `mem_layout_full` | the same maps | expected to fail, section 6 |
| `relocate_adr` | the same pairs of instructions | expected to fail, section 6 |

Deadlock is not checked where the model really ends: no directory left to read
and no longer name to make (`file_access`), all hooks installed, the words
moved or the process aborted or crashed (`hook_*`, `relocate_adr`), start-up over
(`runtime`, `mem_layout_full`), all slots used (`virt_mem`). The runs of
`Loader` and `PathFilter` check it.

**Bounds.** `MaxChanges` and `MaxFaults` (Loader) bound how often the
environment interferes; `MaxRead` the caller's buffer; `MaxSize` and
`Background` (VirtMemClients) the slices asked for and the pages others map;
`MaxGets` (ProcessHandle) the calls of `Get`; `Space` and `MaxLength`
(MapRanges) address space and alias; `AreaWords` (Caches) the memory; `Programs`
and `Operations` the words moved and encoded. In `Relocate` the reaches of 14,
19 and 26 bits and the 4 GB of a lost sign are 64, 128, 256 and 4096 words: the
code compares distances with them and does nothing else with their size, and
their order is the real one. All are constants, named where they guard.

**Fairness.** `Loader!Fairness` is weak fairness of start-up, of waking, of the
walk's steps and of each thread's steps inside a hook: the scheduler runs a
thread that can run, and the indexer's sleep is bounded. It is strong fairness
of the two acquisitions of `gFilterLock`: a thread waiting for
`nn::os::ReaderWriterLock` gets it if it becomes free again and again. The lock
is external, so that it starves nobody is assumed of it; that its holders always
let go of it is checked. Nothing is assumed of the game, of the card's owner or
of failures, which are bounded in number by `MaxFaults` instead: with failures
for ever the code promises nothing. In `MCRuntime` the walk over the memory map
and the walk over a stack are a thread each, and `ProcessHandle` has two: weak
fairness of each on its own, so that `GetReturns` depends on neither being
favoured. The caller's is that of the steps that go on (`CallerGoesOn`): nobody
has to call `Get`, and no call of the kernel has to be refused, so a caller that
waited for ever would be found.

## 4. What the properties say

The comment above each property states it. The ones that need most care:

- `SureIsServed`: a call for a path indexed before it began, in the mod as
  long as it runs and met by no failure, is answered from the mod under every
  interleaving with re-indexing, mounting and changes elsewhere. The history
  variable `sure` is exactly this premise.
- `RomfsStaysReachable`: whatever goes wrong with the mod, a hook makes no path
  of the romfs fail. Two threads that mount at once can leave the name of one
  with the length of the other; the mod is then not served any more, which
  `SureIsServed` excludes by its premise, and the romfs still is.
- `HandlesAccounted`: of the handles a call opens nobody can close the two of a
  call that ran out of memory, for which `OpenDirectory` returns success with an
  accessor that is null or has nothing behind it. `lost` counts them for good.
- `WalkComplete`, `DepthBounded`, `EventuallyIndexed`: the walk reads a
  directory that shrinks. `ReadDirectory` then succeeds with nothing, and the
  zeroed entry is a directory without a name, so the walk enters the same
  directory again, at most once for each removal since the walk began. What the
  levels of the tree are, and how much stack they take, is up to the card: no
  property bounds that (the hazard at `loader.cpp:190`).
- `LossOnlyByError`: `DoRead` reads the second part after the first; only if
  the second fails are entries of the first lost to the caller.
- `HookOpensTheIndexed`: the three places that cut a path agree. `WalkDescends`:
  the nested activation of an entry has a longer path than its caller, except
  where the path is within two of the buffer's end, and that of an entry without
  a name is of the same place; both are the hazard at `loader.cpp:188`.
- `TableIsTheMap`: the block that shows that what was begun is no module is not
  looked at again (`mem_layout.cpp:78` and `:91`), so a module that begins with it
  is lost. The property says exactly which ones, `SelfIsSelf` what becomes of the
  own index then.
- `HooksIntact`: relates the words of the program, the trampolines and the
  `Orig` pointers after any number of installations.
- `FittingHooksInstall` and `PoolBounded`: reservations are never given back,
  so exactly four hooks fit besides the Jit (the program installs four). A fifth
  goes on without one, because the assertion at `rw_pages.cpp:53` is empty: it
  writes its trampoline and its patch and crashes when its destructor hands NULL
  to `virtmemRemoveReservation`. So the pool's off-by-one (`i > HookMax`) is out of
  reach only while the pool has as many trampolines as there are reservations.
  `FittingHooksInstall` leaves out one more end, `virtmemFindAslr` giving up.
- `HandleIsReceived`, `GetReturns`: the receiver runs on a stack in its
  caller's frame and gets a handle in a message the caller is still sending.

Some hold only with exceptions, and name them in the formula: with one more
exception removed the run fails.

| property | exception | in the code |
|---|---|---|
| `MovedMeansTheSame` | `LosesSign`: a negative offset of anything but `b` and `bl` | offsets are cut out of the word as unsigned, `hook_impl.cpp:223` and the like |
| | `LosesRegister`: an `adr` in reach whose address is not a word's | its two low bits are shifted into the register's field, `:401` |
| | `LosesOpcode`: a literal of another kind than 64-bit behind the load | the new offset is masked by the opcode's mask, `:340` |
| | `LosesPage`: an `adrp` of a page that begins within the five words | the page itself is taken for a moved word |
| | `NamesAlias`: a jump to a moved `adrp` | `adrp` notes its place in the writable alias, the others where it runs, `:407` |
| `EncodesTheOperands` | `Encodable`: an `adrp` of a page behind | its offset is shifted as unsigned, `op100x/pc_rel_addressing/adrp.hpp:12` |
| | an addition of registers of two widths | `AddImmediate` takes the width of the first only |
| `StubsKeepTheContract` | `HalfStored`: `svcGetProcessInfo` | declares 64 bits, stores 32 |
| | `Misnumbered`: three calls | `svc.h:240`, `:252`, `:265` number them from 0x00, `svc.s` calls 0x1 to 0x3 |
| `RegionsAgree` | `EndsTooLate`: an inferred region | `mem_layout.cpp:179` to `:186` take libnx's ends for sizes |
| `WalkEnds` | a frame pointer `IsValidPointer` refuses | `Step` changes nothing, `Walk` goes on with the same frame; the one iterator the repository has refuses none, and nothing walks with it |
| `FlushedIsFetched` | `Jit::Flush` where an instruction line is found by its virtual address only | it invalidates the alias's addresses; `hook_impl.cpp:500`, which named the others, is commented out. `common.mk:37` builds for a core whose instruction cache is physically tagged |

The first two are what `relocate_adr` shows for `adr` (section 6); the numbers in
`svc.h` are comments that mislead a reader and no caller. The others are
mistakes no line of the repository speaks about.

## 5. What is proved

TLAPS checks every proof to the last leaf.

| theorem | statement | argument |
|---|---|---|
| `PathFilterProofs!TypeCorrect`, `NoFalseNegatives` | `Spec => []...` | invariant `PathFilter!IInv`: the lock excludes, the bits are exactly those of the finished keys and of the rounds done of the current one, and a reader's passed bits are set. Bits are never cleared, but it is `FilterExact` that makes `NoFalseNegative` inductive |
| `PathFilterProofs!ImplementsApproxSet` | `Spec => AbsSpec` | `EndAdd` is the abstract insertion, `ReturnLookup` the lookup, everything else stutters; needs that a partial key is there only under the lock |
| `LoaderProofs!TypeCorrect`, `ModIsServed`, `RomfsIsReachable`, `NoHandleForgotten` | `Spec => []...` | `LoaderProofs!IInv` adds to the properties what is true of a call at each of its steps: which key it carries, what it has opened and lost, and which premises `sure` still has; that the keys added pass the filter for good is a part of it |
| `FileAccessProofs!TypeCorrect`, `NothingLost`, `ImplementsDirStream` | `Spec => ...` | `IInv == TypeOK /\ ModFirst /\ LossOnlyByError`: the second part is begun only when the first is at its end |
| `FileAccessProofs!JoinStaysInside`, `WhatFitsIsIndexed`, `HookOpensWhatWasIndexed`, `WalkGoesDown` | `PathSpec => ...` | `JoinIsCut`: whichever branch `JoinPath` takes, its text is the two parts with a slash between, cut at `OutSize - 1`. So (`PInv`) the walk's path begins with the root and a slash and fits the buffer, whether names, entries without one or the buffer's end made it, and joining a key to the root again gives the same place |
| `LoaderProofs!WalkClosesAll` | `Spec => []...` | `WInv`: nothing walks in a phase before the last hook, and the handles are as many as the activations past their open (`Held`); one lemma each for a top that moves on, calls itself or returns |
| `LoaderProofs!DepthIsBounded` | `Spec => []DepthBounded` | `DInv`: an activation enters its own directory again only when fewer entries are left on the card than it has still to read, so each such step is paid for by a removal made since its count |
| `LoaderProofs!WalkIndexesAll` | `Spec => []WalkComplete` | `CInv`: without a failure every node is indexed, or is covered: it is below an entry some activation has still to read. An entry leaves that set only when it is indexed and, if a directory, walked |
| `VirtMemProofs!ListIsTheReservations`, `WhatIsFoundIsFree`, `ImplementsReservedSpace` | `Spec => ...` | slots are handed out ascending and put in front, so the list is descending whatever was removed: `next` is the nearest slot below that is held, `prev` the nearest above (`Descending`). With slots apart from each other and from what was found, adding and removing are those of the set |
| `VirtMemProofs!AliasShowsTheSource` | `MapRangesSpec => []AliasIsTheSource` | each turn begins at the source's start or at a block's, and the alias is exactly the pages before it, or behind it when unmapping |
| `VirtMemProofs!WhatIsWrittenIsFetched` | `CachesSpec => []FlushedIsFetched` | `KInv`: each loop stands at the beginning of a line and has left nothing before it, first no dirty word, then no stale one; once nothing is dirty, what is fetched ahead is new. Both loops begin at or before the claim and end behind it (`FlushCovers`) |
| `HookInstallProofs!PoolIsBounded` | `NumReservations <= HookMax` implies `Spec => []PoolBounded` | `IInv` counts: a hook has taken a reservation or is the first to find none left (`claim.rv`), and that one crashes before the next; so no more trampolines are written than there are reservations, and slots follow the hooks in order |
| `HookInstallProofs!CodeIsClosedAgain` | `Spec => []OnlyJitStaysWritable` | `AInv` says at each place which reservations are held and which pages are an alias; the kernel maps free pages only, so the alias of a patch is apart from the Jit's; the alias of a word in a page is in the same page of the alias (`PageOfOffset`) |
| `HookInstallProofs!InstalledStaysIntact` | `Fitting` implies `Spec => []HooksIntact` | `WInv`: a hook is done when its trampoline is written, and the words outside the patches of the hooks done are the loaded ones. As nothing stops a patch whose alias is too short, it is `Fitting`, through `AliasShowsTheClaim`, that makes the patch hit its target |
| `HookInstallProofs!FittingHooksAreInstalled`, `AliasesAreComplete` | `Fitting` implies `Spec => []FittingHooksInstall` and `[]MappingsMatch` | `FInv`: the pages of the targets stay mapped and are never an alias, what was drawn is free until it is mapped, and a claim within a page is one page of alias that shows all its words |
| `RuntimeProofs!GetHasTheHandle` | `ProcessHandleSpec => []HandleIsReceived` | `HInv` says what each place of the caller knows of the handle and the table, and which places of the two threads go together (`BothRun`) |
| `RuntimeProofs!TheRegionsAgree` | `RegionsSpec => []RegionsAgree` | `RInv`: what each table holds at every query, against what the kernel knows; the second asks in the same order, so it learns nothing the first did not |
| `RuntimeProofs!TableHoldsTheModules`, `SelfIsFound` | `Spec => []...` of `MemLayout` | `LInv`: what the walk has put into the table at every block, against the modules of the map that begin before that block and can be found (`Begins`), and what it remembers of one it is in the middle of |
| `RelocateProofs!DataStaysAligned` | `Ordinary` implies `RelocateSpec => []DataIsAligned` | `RInv`: nine words at most have been written for each word moved and eight for the first, whose trampoline begins at an even place; that leaves the five of the jump back room in ten for each of four words. The nops before a jump or a copy are counted from its place (`PadsEven`, `CopyIsFine`); what waits in the fix map is never a load or an address, so completing it moves no data |
| `RelocateProofs!MovedWordsMeanTheSame` | `Ordinary` and `JumpsElsewhere` of every program imply `RelocateSpec => []MovedMeansTheSame` | `MInv`, see below |
| `EncodersProofs!EncodersEncode` | `EncoderSpec => []EncodesTheOperands` | `EncoderIInv`, see below |

`MInv` says of each word moved so far what was made of it (`Blocks`): nops and
then one of ten shapes, each with the address the code computed, right or wrong
(`MovedAs`); or one word that names another of the function (`Named`); or nothing,
of a `prfm`. It says that these come in the order of the function (`Ordered`),
that a word which names a word already moved leads to its place (`References`),
and that whatever still waits in the fix map is exactly such a word, of one that
is not moved yet (`Awaited`), which is why completing the fix map changes no other
word. One lemma per rewriting function (`FixBranchLays` and so on) shows that it
lays such words; when the last word is moved nothing waits, and the jump back is
behind them (`JumpBackLays`). From the final state alone follows where control
gets: the nops before an instruction are its own (`WordsAtIs`), behind what was
made of a word begins the next one that was kept, or the jump back (`GoesNext`),
and a name leads to the first of the nops of what it names (`GoesToNoted`). One
lemma per shape then compares `After` with `Before`; each exception
`MovedMeansTheSame` names is used in the lemmas it belongs to and in no other.

`EncoderIInv` says that what the setters still to come make of the word is what
all of the operation's setters make of zero. `After` says what a sequence of
setters makes of a word: each bit is what the last field that covers it says, or
untouched; `AfterConcat` splits it where a derived class's constructor begins. For
each class of instructions a lemma (`AddSubtractWord` and so on) gives the 32 bits
that are left, which is where an overlap of two fields would show: `br`, `ret`,
`nop` and the register-offset transfers do write fields over wider ones, and only
the order of the constructors makes them right. `BitsAre` turns bits back into
numbers: where the bits of the word from `low` to before `high` are those of `v`,
the model's `Bits` reads `v % 2^(high - low)`. A lemma per class then reads every
operand back (`AddSubtractDecodes` and so on); the signed ones lose their sign
in an unsigned shift, which the field cuts off again (`SignOf18`, `SignOf25`). The operations are
any set of records with a mnemonic, registers and numbers
(`OperationsAssumption`); `Encodable`, the premise in the property, is the range of
each field in the architecture, but for the two exceptions of section 4; outside
it there is nothing to decode to.

Assumptions: the named `ASSUME`s of the modules (checked by TLC on every run)
and the hypotheses of six theorems. Those of four the program's constants
satisfy as far as they are its own: `PoolIsBounded` needs a pool of at least as
many trampolines as there are reservations (20 and 5), and
`FittingHooksAreInstalled`, `InstalledStaysIntact` and `AliasesAreComplete` need
`Fitting`, that is a pool of one less at least, trampolines of ten words for each
of the five that may be patched, a pool within a page, and targets whose words do
not cross the end of one. The last is not for the program to choose: it depends on
where the game's functions lie, and `hook_straddle` shows what happens otherwise.
Of the assumptions `MapAssumption` says that a map begins and ends with a block of
no module and has a module behind free memory, as rtld is; `Begins` is no
restriction, there is one for every map. `DataStaysAligned` needs `Ordinary`:
four words moved or more (the program moves four or five for a far callback), or
one with a short jump back (it moves one when the callback is near, and the
trampolines are in the callback's module), and no load that reads what is to be
the trampoline itself, whose alignment nothing could promise. `MovedWordsMeanTheSame` needs besides that
no jump or address of the function, and not its return, leads into the
trampoline, which holds nothing before the hook is there; that ten words for
each word moved are within the reach of a 14-bit immediate (8192 words, where
the program has 50); and that the offset of a conditional branch is one its
field holds. Of the 32000 programs of the run 31368 meet all of it; the others
jump to where the trampoline will be. TLC found `RInv` and `MInv` to hold of
them.

Type correctness of the filter, the loader and the merged directory is proved
(`TypeCorrect`) and not a property of a run.

Only model-checked:

- liveness (`CallsReturn`, `EventuallyIndexed`, `Terminates`, `GetReturns`,
  `WalkEnds`), which is out of the prover's reach;
- `StubsKeepTheContract`, about fixed tables that the run goes through whole.

## 6. Findings

- `loader_readme`: the root of the romfs is never merged, because `InFilter`
  says no to the empty path; the README promises a merged view of directories.
- `hook_straddle`: an alias of a patch across a page boundary covers the first
  page only, against the constructor's own assertion, which is compiled out: the
  rest of the patch goes to what lies behind the alias.
- `mem_layout_full`: a process with as many modules as the table has entries
  always aborts, against the comments at the check and at the move of the sdk.
- `relocate_adr`: a moved `adr` with a negative offset loads an address 4 GB
  too far, and one in reach may load into another register, against the
  comments on the function and on its mask.

One more, which no document contradicts and which is therefore only a hazard:
a directory whose path is at least `sizeof(subpath) - 2` long is joined with its
entries to itself, and the walk recurses without end (`loader.cpp:188`).

## 7. Not modelled

- `ptr_path.hpp`: a template nothing instantiates, without state.
- `Hook` with `do_trampoline = false`: no hook of the program is installed so.
- Whether a read behind the end of a path faults (`loader.cpp:81`), and the copy
  of a literal from an address 4 GB off (`hook_impl.cpp:328`): where the models go
  on with any value the process may also end, which no safety property minds.
- Moves of `RwPages`: nothing calls them. The move assignment would leave
  `m_Owner` and the claim it had before as they are.
- `virtmemFindStack`, `virtmemFindCodeMemory`, `BloomFilter::reset`,
  `armDCacheClean`, `armDCacheZero`, `OrrImmediate`: without a caller or left
  out of the build.
- `__builtin___clear_cache` in `hook_impl.cpp`: it invalidates more than
  `Caches` needs for its property.
- The stubs `svc.h` has no prototype for: nothing can call them.
- murmur3 and crc32: a hash is its definition; the filter relies on murmur3
  being a function and on nothing else. The intrusive list has no user.
- Formatting of results, assertions and crash reports: an abort is an end
  state.
- Relocation of the module and its static constructors, before any code that
  keeps state.
- The game, the file system, the SD card and the kernel: external, as the code
  uses them. Declarations of `nn` and build files hold no behaviour.

## 8. Plan

Done in this order: filter, loader, merged directory, reservations, hooks,
paths, memory layout, then relocation, encoders, aliases over several blocks,
caches, regions, process handle, system calls, stack walk; then the proofs, the
walk's completeness and depth, the module table, the paths, the caches, the
installation of hooks, the alignment and the meaning of moved words, and the
encoders last. Every invariant the runs check is proved but
`StubsKeepTheContract`, which has no parameter: its tables are fixed and the run
goes through all of them. What could still be done is to follow the code where it
changes, beginning with the exceptions of section 4.
