# Verification of CppMini

CppMini is a small Windows library and a set of programs built on it. Its core is
function hooking: `utils/hook.cpp` offers `HookFuncByName` and `UnHookFunc`, which stand
on a transaction engine (`utils/detour/detours.cpp`) that overwrites the first bytes of
a function with a jump while other threads of the process are running it. The rest gets
code into another process (`inject_helper`), shows what a hook DLL is for (`hook_dll_demo`,
`test/hookLyric` with its viewer `test/show_lyric_demo`), and helps with strings, paths,
processes and handles (`utils`). Beside the transaction engine the repository holds the rest of
the Detours library it comes from, which edits executable files and starts processes with
DLLs added to their imports.

This directory holds TLA+ models of that code, TLC runs that check them on small
instances, and proofs that TLAPS checks for instances of any size. Paths below are
relative to the repository's `src/`; `detours.cpp` stands for `utils/detour/detours.cpp`.

Contents: [1 Inventory](#1-inventory) · [2 Modules](#2-the-modules-and-the-code) ·
[3 Runs](#3-the-runs) · [4 Fairness](#4-fairness) · [5 Proofs](#5-proofs) ·
[6 Divergences](#6-where-the-code-and-its-texts-disagree) ·
[7 Abstractions](#7-what-the-models-leave-out) · [8 Plan](#8-plan)

## 1 Inventory

### 1.1 Detour transactions — `detours.cpp` 1506–2467

*State.* The statics of one process: `s_nPendingThreadId` (the thread whose transaction is
open, taken with an interlocked compare-exchange), `s_nPendingError` and its pointer, the
lists `s_pPendingOperations` and `s_pPendingThreads`, and two settings. Beyond them, the
memory of the process: the entries of the target functions, the protections of their
pages, the trampolines, the clients' `PVOID` variables whose addresses the calls receive,
and which threads are suspended.

*Operations.* `DetourTransactionBegin`, `DetourUpdateThread`, `DetourAttach(Ex)`,
`DetourDetach`, `DetourTransactionCommit(Ex)`, `DetourTransactionAbort`,
`DetourSetIgnoreTooSmall`, `DetourSetRetainRegions`.

*Interactions.* Called by `hook.cpp`; takes slots from the trampoline regions; suspends
and resumes the threads of the process; its patches decide what every other thread of the
process executes.

*Hard.* Several threads call it; the guard against that is one variable, and three of
the calls do not test it. A staged operation has changed page protections and taken a
slot before anyone knows whether the transaction will commit, and each call has four to
six ways to fail. Operations save and restore one shared protection, so their order
matters. A second detour of a function saves the jump of the first.

*Correct when* a transaction takes effect as a whole or not at all; no page or region
stays writable after it; no patch faults; no jump leads to a trampoline that was freed;
calls of a hooked function reach its own code; no slot is lost; the clients' variables
name their trampolines; every suspended thread is resumed, and not before the code and
its pages are settled.

### 1.2 Trampoline regions — `detours.cpp` 75–85, 182–425, 1156–1504

*State.* `s_pRegions`, the list of 64 KB regions; `s_pRegion`, the one tried first; in
each region a free list threaded through its unused slots.

*Operations.* `detour_alloc_trampoline`, with `detour_find_jmp_bounds` and the searches
over the address space; `detour_free_trampoline`; `detour_free_unused_trampoline_regions`.

*Hard.* A slot must lie within 2 GB of the function, in an address space the rest of the
process also maps and unmaps; the searches meet their bounds; a region is released while
the cache still names it.

*Correct when* a slot handed out is free, in reach and stays its holder's until given
back; the free lists hold exactly the free slots; only empty regions are released.

### 1.3 Moved code — `detours.cpp` 2097–2224, 1812–1880; `disasm.cpp`

*State.* In each trampoline: `rbCode`, the instructions moved out of the function and a
jump back; `rAlign`, eight pairs of small offsets; `cbCode`, `cbRestore`. Each suspended
thread's instruction pointer.

*Operations.* The copy loop of `DetourAttachEx`, `DetourCopyInstruction`,
`detour_align_from_target` and `detour_align_from_trampoline`, and the commit's "Update
any suspended threads".

*Hard.* Copies may be longer than what they were copied from; offsets are kept in three
and five bits; a thread may be stopped at any instruction of the function or of the
moved code, when the detour is attached and when it is removed.

*Correct when* a thread goes on with the instruction it had come to, wherever that is
now, and the moved code is whole and ends with its jump.

### 1.4 Hook API — `utils/hook.cpp`

*State.* Locals only: `success`, the pointer passed to the engine; and the client's
variable behind `oldFuncAddr`.

*Operations.* `HookFuncByName`, `UnHookFunc`, and their helpers `DetourAttachFunc`,
`DetourDetachFunc`, `DetourUpdateThreads`. (`HookFuncByCode` is a stub; `InjectTarget`
starts the injector.)

*Hard.* Threads of a process may call it at once; each call goes on after a failure of
its parts; the result of the commit is dropped; the client's variable is written when the
hook is live already; the default argument makes the caller enumerate all threads of the
process and suspend those it finds.

*Correct when* what a client was told is what is in effect, a hook in effect can be
removed, calls return and end the transaction they began.

### 1.5 Injector — `inject_helper/`, `InjectTarget` of `utils/hook.cpp`

*State.* In the target: a block of memory with the DLL's path, a remote thread, a window
hook, and the loader's count for the module. In the helper: where it is, and its exit code.

*Operations.* `InjectTarget` (chooses a helper by the bitness of the target and starts it),
`inject_helper` (chooses one of two ways from its arguments), `inject_library_full` with
`inject_library_obf` (allocate, write, start a thread at `LoadLibraryW`, wait 4 s, free),
`inject_library_safe_obf` (load the DLL, set a window hook, poke it eight times).

*Hard.* A wait that times out races the remote thread, which may stand at the loader's lock;
the window hook is poked without anyone looking whether the DLL came; the exit code of a
thread is the lower half of a handle; several helpers work on one target.

*Correct when* success is reported for a DLL that was loaded, every helper comes to its
end, and the DLL outlives the window hook that brought it.

### 1.6 Life of a hook DLL — `hook_dll_demo/dllmain.cpp`, `test/hookLyric/dllmain.cpp`

*State.* A mutex named after the process, the reference that pins the module, the object
`hook_lyric`, the hooks.

*Operations.* `DllMain` on attach and detach, `HookInit`, `HookUninit`.

*Hard.* The DLL is injected twice, also as two copies under two paths, on different threads;
initialisation fails after one of two hooks is live; the loader then calls `DllMain` again to
detach; the thread that paints runs through the hooks meanwhile.

*Correct when* one copy hooks, it stays in memory as long as it does, and no detour runs
over what is not there yet or not there any more.

### 1.7 Lyric capture and display — `test/hookLyric/hook_dll.cpp`, `test/show_lyric_demo`

*State.* A shared mapping of 1 MB: size, position and pixels of the latest frame; the
stored original functions; the object both use; the viewer's window.

*Operations.* The detours of `UpdateLayeredWindow` and `UpdateLayeredWindowIndirect` with
`Capture`, `Init`, `UnInit`; the viewer's first message, timer, paint and end.

*Hard.* Two processes share the mapping without a lock; either may come first, end, and be
started again; `UnInit` unmaps before the hooks are removed.

*Correct when* the last frame is in the end shown whole, and nothing is written to memory
that is gone.

### 1.8 Helpers — `utils/stringex.cpp`, `icu_utf.*`, `path.cpp`, `proc.cpp`, `system.cpp`

Pure functions (UTF-8 validation, `IsAscii`, trimming, splitting, formatting with a
growing buffer, parts of paths) and thin layers over the system (bitness of a process,
handle ownership). *Correct when* they agree with their definitions at the boundaries.

### 1.9 Executable files — `image.cpp`

*State.* `CImage`: the mapped input, its headers with the `.detour` section taken away, the
list of import files and names next to what they originally were, the offsets `Write` works
from; `CImageData`: the payloads, in the view of the file or in a block of its own.

*Operations.* `DetourBinaryOpen` (`Read`), `...SetPayload`, `...DeletePayload`,
`...PurgePayloads`, `...EditImports` and `...ResetImports`, `...Write`, `...Close`.

*Hard.* A file is edited again and again by tools that know of each other only through the
`.detour` section; sizes are counted in one loop and used up in another; every part of the
file has its own alignment; what lies behind the sections moves, and headers point into it.

*Correct when* what was written can be read, the originals are never lost, a file without
edits is the file it was, and nothing in it overlaps.

### 1.10 Process creation — `creatwth.cpp`, `uimports.cpp`, payloads of `modules.cpp`

*State.* The target's headers (magic, import table, bound imports, IAT, CLR header), the
tables and payloads allocated in it, its suspended thread; `DETOUR_EXE_RESTORE`, the record
of the headers; a helper process and the payload it is given; the caller's handles.

*Operations.* `DetourCreateProcessWithDll`, `...Ex`, `...Dlls` in both character sets,
`DetourProcessViaHelper(Dlls)`, `DetourFinishHelperProcess`, `DetourUpdateProcessWithDll(Ex)`,
`DetourCopyPayloadToProcess`, `DetourRestoreAfterWith`.

*Hard.* The target is changed in five places one after the other and each may fail; after
a failure a helper process of the other bitness tries the same on the same process; the
new import table must be laid out for the target's word size and lie within 4 GB above it.

*Correct when* a process runs only if it was prepared to the end, nothing is left of a call
that failed, its loader sees the DLLs and then its own imports, and the DLL that undoes the
changes gets the headers back.

### 1.11 Others

`test/test_inject_helper` is a `main` without state; what it does is where `Injection`
begins. The walks of `modules.cpp` over symbols, imports and exports only read. The project
files, `script/` and `tools/` build the programs and hold no behaviour of their own.

## 2 The modules and the code

| module | models | builds on |
|---|---|---|
| `DetourTransaction` | the transaction engine (1.1) | |
| `HookTransactions` | what the engine promises: stacks of hooks, changed all at once | |
| `DetourRefinement` | the mapping from the engine to that promise | `DetourTransaction`, `HookTransactions` |
| `HookApi` | `hook.cpp` (1.4), on top of the engine | `DetourTransaction` |
| `TrampolineRegions` | the allocator of trampolines (1.2) | `SlotPool` |
| `SlotPool` | what the allocator promises to the engine | |
| `MovedCode` | the moved code and the threads in it (1.3) | `Sums` |
| `Sums` | where things that lie one behind the other begin | |
| `LyricShare` | the shared memory and the viewer (1.7) | |
| `HookDll` | the hooked process: loader, `DllMain`, hooks, the painting thread (1.6, 1.7) | `LyricShare` |
| `Injection` | `InjectTarget` and its helpers (1.5) against that process | `HookDll` |
| `ImageData` | the payloads of a binary, as operators (1.9) | `Sums` |
| `ImageFile` | executable files and the tools that edit them (1.9) | `ImageData` |
| `ProcessImports` | the layout of the new import table and its place, as operators (1.10) | |
| `ProcessCreation` | creator, helper and target (1.10) | `ProcessImports` |
| `Inductions` | lemmas on induction, recursive functions and sums | `Sums` |
| `DetourTransactionProofs` | theorems about the engine: with any clients, the hooks of disciplined ones, the call of a hooked function, and that it implements its promise | `DetourRefinement`, `Inductions` |
| `HookApiProofs` | theorems about `hook.cpp` | `HookApi`, `DetourTransactionProofs` |
| `TrampolineRegionsProofs` | theorems about the allocator, and that it implements `SlotPool` | `TrampolineRegions` |
| `MovedCodeProofs` | theorems about moved code and the threads in it | `MovedCode`, `Inductions` |
| `InjectionProofs` | theorems about helpers, loader and DLL | `Injection` |
| `ImageFileProofs` | theorems about edited executable files | `ImageFile`, `Inductions` |
| `ProcessCreationProofs` | theorems about the preparation of a process | `ProcessCreation`, `Inductions` |
| `MCDetourTransaction`, `MCHookApi`, `MCTrampolineRegions`, `MCMovedCode`, `MCInjection`, `MCImageFile`, `MCProcessCreation` | the instances TLC checks | |

Which lines each definition stands for is in `PROJECT.json`, under `map`.

### 2.1 `DetourTransaction`

Variables with the names of the code's statics are those statics. The process's memory is
`code` (for each function: `Original`, or the trampoline its entry jumps through),
`protect` (of each page), `regions` (`"none"`, `"RX"` or `"RWX"`, for all regions
together), `trampoline` (for each slot: the target, the detour, and what its saved bytes
are) and `pointer` (the clients' variables). `suspended` is the scheduler's view. A thread
is somewhere in `pc`; the calls that take one step return to `"client"` at once, and
`ret` is the value they returned.

* The calls before a commit are one step each, except `DetourUpdateThread`, which suspends
  a thread (`UpdateThreadSuspends`) and lists it (`PushThread`): between the two the thread
  that called may itself be stopped.
* Every error exit is a step. Exits that set `s_nPendingError` are `StageFails`, those that
  leave the transaction alone are `StageStops`; which of the two a too-small function takes
  depends on `s_fIgnoreTooSmall` (`FailsOrStops`).
* A commit goes step by step: `CommitStarts`, one `PatchOperation` for each operation, from
  the newest to the oldest, `PatchingDone`, one `RestoreOperation` for each (protection
  back, slot freed after a removal), `SettleRegions` (release of empty regions, the others
  executable again), `ResumeThreads`, `Release`, and `CommitReturns`, which reads
  `s_nPendingError`. A commit that finds an error goes through the abort
  (`CommitRollsBack`, `AbortOperation`, …) and returns what it then reads.
* Other threads' steps come in between at every point.

Clients are any threads making any calls in any order, with two disciplines that the code
leaves to its callers: only the owner suspends threads, and not itself (`MaySuspend`); and,
where `Disciplined` is `TRUE`, each function has one operation in a transaction and its
detours are removed in the opposite order of their insertion (`Orderly`). The theorems that
use `Orderly` say `Disciplined`; the others hold of any clients.

### 2.2 `HookTransactions` and `DetourRefinement`

The promise is a stack of detours for each function, a table of staged changes, an owner
and a flag that a call has failed. `CommitAll` applies all staged changes in one step;
`GiveUp` drops all of them. Under the mapping a commit happens when its first patch is
made: nothing can stop it from there on, so the operations still to be patched count as
done (`HooksBar`); an abort happens when its loop begins (`StagedBar`). `AllOrNothing`
says that every step of the engine, of any thread, is a step of the promise or none.

### 2.3 `HookApi`

Each thread's call is a walk through `api`: begin, update threads, change, commit, store,
and back to idle, each doing the engine's own action for the same thread. A thread's
`PVOID` variable is the local of its call (`Pointers = Threads`); `saved` is the client's
variable; `hooked` is what the client was told last. A client makes a hook it was told it
does not have and removes one it was told it has, one call about a hook at a time.
`HangAllThreads` is the set of values clients pass for `handAllThreads`; with `TRUE` the
loop over the process's threads ends up with the calling thread, which it suspends.

The assignment behind the commit goes through a `DWORD` (hook.cpp:141): `AsDword` keeps the
address of what is in `Low`, the code below 4 GB, and makes every other one `Unmapped`. In a
32-bit build `Low` is everything. `UnHookFunc` with an `Unmapped` pointer reads the trampoline's
`cbRestore` where no memory is (`DetachFaults`), and the process ends.

### 2.4 `TrampolineRegions` and `SlotPool`

The address space is a row of units of the size of a region; each is free, free but too
small for a region, taken, or a region. Each has its header and a few slots. `NewRegion`
is the search in its 64-bit form (six searches, 1 GB away first) and, with `Offset = 0`,
in its 32-bit form (two); `FromLo` and `FromHi` go upwards and downwards, over the window
kept for system DLLs in strides. `Alloc` has the four outcomes of
`detour_alloc_trampoline`: the default region, an existing one, a new one, none; `Found`
is the code behind `found_region`, whose last check may still refuse. The rest of the
process maps and unmaps units at any moment. `SlotPool` is what remains for the engine:
take a free slot in reach, give it back; `DetourTransaction`'s `AllocTrampoline` is its
`Take`.

### 2.5 `MovedCode`

A function is a sequence of instructions, each with its length and how much longer its
copy is (`lExtra`), the padding behind it, and the build. `nAlign`, `cbCode`, `cbTarget`
and `rAlign` are what `DetourAttachEx` computes; the offsets in `rAlign` are cut to their
bits. Threads call the function, run it instruction by instruction, jump to the detour,
go through the moved code and back. `Attach` and `Detach` are transactions, one step each,
because every other thread is suspended for one; they move each thread as the commit
does. The auxiliary `due` is the instruction a thread has come to; the code has no such
variable. `Enlargeable`, `EndFitsAlign` and `HasRoom` name what the properties make an exception
of, and what `DetourAttachEx` tests nowhere: that each moved instruction has a longer form where
it needs one, and grows at most threefold; that the moved instructions do not end at an offset
that `obTarget` holds as 0; and that the copies and the jump back fit into `rbCode`. The
actions have no such conditions.

### 2.6 `LyricShare`, `HookDll` and `Injection`

*`LyricShare`.* A frame is a number. `section` is the shared memory: who holds it (a handle
or a view), and the frame whose header and the frame whose pixels lie in it, 0 for none. It
is gone when the last holder leaves. `WmTimer` is the size the viewer takes for its bitmap,
`WmPaint` its reading of the pixels, so a capture may come between.

*`HookDll`.* `load` says what each thread does for the loader, place by place through
`DllMain`; `lock` is the loader's lock, `refs` its counts. The two hooks are made one after
the other (`HookFuncByName`, then `StoreOld` for the assignment behind the commit), and
removed one after the other after the view is unmapped. A `DllMain` that fails goes through
`DLL_PROCESS_DETACH` as one that is unloaded. `painter` is the thread that calls the hooked
functions; where it would run code that is not in memory, call through no address, or write
where nothing is mapped, it faults and the process dies, `fault` saying why. What
`HookFuncByName` and `UnHookFunc` do here is what `HookApi` shows of them: a hook that is
live, with its trampoline stored, or none and the function's own address, with either
result.

*`Injection`.* A helper's `pc` goes from `started` through `waiting` (the remote thread) or
`poking` (the window hook) to `exited` with `ret`. `HookLoads`, `HookLoaded` and `HookFrees`
are user32 in the target, which loads the DLL on a message and frees it when the hook is
gone. The loader, user32 and `IsWow64Process` are external, modelled from the calls.

### 2.7 `ImageData` and `ImageFile`

A file is what its headers say and what its parts hold. `hdr` are the fields `Write`
changes, `secs` the sections with their places on disk and in memory, `detour` the contents
of the `.detour` section, `tailAt` where the data behind the sections lies, `debug` an
address into it. `ReadImage` is `CImage::Read`; `Written` is the file `CImage::Write` makes,
with `CopySections` for its loop over the sections, `CountChars` and `CountThunks` for
`CheckImportsNeeded`, `Table` for the loop that uses the room up, and `Follow` for "Adjust
Extra Data". `EditImports` goes file by file, since its callbacks may stop it at any; a
callback's choice for a file and its symbols is one step. A tool closes the file and opens
what it has written, so edits accumulate over any
number of rounds.

### 2.8 `ProcessImports` and `ProcessCreation`

A table is a sequence of `DWORD`s, because the code lays it out by sizes and the loader reads
it by others: `NewTable` writes, `Loads` reads as the loader of Windows does.
`FindAndAllocateNearBase` works on units of 64 KB.

`update` is `DetourUpdateProcessWithDll`, once in the creator and once in the helper: `Scan`,
`Convert` (32-bit headers of a neutral managed executable to 64), `UpdateImports`, `UpdateClr`,
`CopyRestorePayload`; each may fail before it changed anything (`UpdateFails`) or, where it
writes more than once, behind it. What was changed stays. The creator's `pc` is the walk
through `DetourCreateProcessWithDllEx` and `...Dlls`, which call the helper when the update
fails, and through `DetourCreateProcessWithDll`, which does not. `RestoreAfterWith` is done
by the target itself, later.

## 3 The runs

Nine runs must pass, and for each of their properties `PROJECT.json` names a mutant: a
change of one definition, of the kind a programming error would make, with which TLC finds
the property violated. Three runs must end with a violation; section 6 says what each of
them shows.

### `transaction` — `MCDetourTransaction`, `Transaction.cfg`

Two threads; three functions, two on one page, one of them too small to hook; two detours,
one of which is only a jump to a function; five clients' pointers, of which two name the
same function and one was never resolved; three slots; at most two operations in a
transaction (`MaxOperations`).

| property | what it says | why it could be wrong |
|---|---|---|
| `TypeOK` | types | |
| `WritesNeverFault` | pages and regions are writable when a call writes to them | `Begin` may fail half way; each failure leaves another mixture |
| `NothingLeftWritable` | nothing is writable between transactions | the second operation on a page saves `RWX`; only one order of restoring is right |
| `NoDanglingJump` | a function's entry, and the bytes a trampoline saved, lead to trampolines of that function | slots are freed by two paths, each for one kind of operation |
| `CallReachesOriginal` | a call that goes through all detours gets to the function | the second detour saves the first one's jump |
| `NoTrampolineLost` | a slot in use is reachable or pending | every failing exit of an attach must give it back |
| `PointersMatchHooks` | between transactions the clients' pointers are, one for one, the trampolines in use | a failed or aborted operation must leave them alone |
| `NobodyLeftSuspended` | a suspended thread will be resumed by the open transaction, and is not its owner | aborts, failures after a suspension |
| `ResumedOnSettledCode` | nobody is resumed before the patches are made and the protections are back | the order of the commit's phases |
| `AllOrNothing` | the engine implements `HookTransactions` | any of the above, and the error that must stop a commit |

Two threads are enough for one that owns the transaction and one that interferes; three
operations on one function are made by three transactions, so detours stack to the number
of slots; two operations are enough for their order to matter on a page. The proofs remove
these bounds for all of the properties. Threads, slots and the two pointers of one
function are interchangeable, so the run uses symmetry, and a view without the returned
values, which no step reads.

### `transaction_liveness` — `MCDetourTransaction`, `TransactionLiveness.cfg`

`FinishCompletes`: a commit or an abort that has started ends. `SuspendedRunsAgain`: a
suspended thread runs again. One function and one detour with two slots, without symmetry.

### `hook_api` — `MCHookApi`, `HookApi.cfg`

Two threads, two hooks on one page, two slots, `handAllThreads` true or false. One function and
one slot lie below 4 GB and the others above, so a trampoline of either kind may serve either
hook. `NotInEffectUnlessTold`: a client that was told it has no hook may drop its detour's code,
no call goes there. `InEffectIsRemovable`: between two calls about a hook that is in
effect, and whose trampoline lies below 4 GB, the client's variable is that trampoline, so the
hook can be removed and its detour can call the original. Of the trampolines above 4 GB this is
false, and removing the hook ends the process, in this run too. `CallsReturn`: every call
returns while the process lives, unless it suspended its own thread; others do not wait for that
one. `BegunTransactionsEnd`: the transaction a call began is not left open, unless by such a
thread. It says nothing of a transaction whose `Begin` failed after taking it (1584): `hook.cpp`
leaves that one open.

### `regions` — `MCTrampolineRegions`, `Regions.cfg`

Six units with four slots each, two functions of which one begins with a jump, a reach
that ends inside a unit, 1 GB standing for one unit, a system window of one unit with a
stride of two. Every unit may change its state at any time. `FreeListsExact`,
`RegionsAreMapped` and `WithinReach` are invariants of the lists; `HeldSlotsSurvive` says
that releasing regions takes no slot from its holder; `HandsOutFreeSlots` is the
refinement of `SlotPool`. Units and slots are few, but each branch of the searches, the
last check of `found_region` on both sides, two regions at once and the release of either
occur.

### `moved_code` — `MCMovedCode`, `MovedCode.cfg`

All functions of up to three instructions of 1, 3, 4, 11, 12, 13 or 15 bytes or short conditional
jumps, and a return or a short jump at their end, with three kinds of padding, in both
builds: 7020 functions. One thread is enough, as threads change only their own place.

`KeepsItsPlace`: a thread in the function or in the moved code is at the instruction it had come
to, and never at one that is overwritten. The formula has two exceptions, at which the code
goes wrong (section 6). One are functions that are not `Enlargeable`, do not satisfy
`EndFitsAlign` or have no room: a thread at the entry is sent behind the moved instructions
when these end at offset 8 or 16. The other are threads in a trampoline that was freed: of
those it says that they are at the size of a pointer or behind it, by which the code tests
where a thread is (1846), so that every thread before it is brought back.

`JumpBackFits`: the moved code and the jump back fit into `rbCode` where no copy is longer than
`LongestCopy`, 12 bytes on x64 and 13 on x86; in the functions of the run with longer ones
they may not. TLC evaluates that functions of both exceptions are in the run and are attached
(`EndsAtEightAssumption`, `NoRoomAssumption`).

### `image_file` — `MCImageFile`, `ImageFile.cfg`

Two files, one that imports by name and has symbols behind its sections, one that imports by
ordinal and has none; one name and one ordinal to change imports to, one byway (`MaxByways`),
two GUIDs, one size; one section, or two of which the second takes no room on disk; room for
one section header more than that (`MaxSections`).

| property | what it says | why it could be wrong |
|---|---|---|
| `WrittenReopens` | a file written can be read, and says what the binary said | room is counted in one loop and used in another; two directories are walked side by side |
| `OriginalsKept` | however often it is edited, a file still says what it was | the second tool must take the originals from the section of the first |
| `PristineAgain` | without edits and payloads, the file is what it was | four fields and all file addresses are put back from the section |
| `TailFollows` | what points behind the sections follows the data there | the data moves forth and back as the section comes and goes |
| `SectionsApart` | sections overlap neither on disk nor in memory | the new one begins behind the larger of two sizes |
| `PayloadsKept` | a payload is found with its size until it is deleted, in the file too, and each GUID once | replacing deletes, makes room and appends, in a view or in a block |

With one `.detour` section at most, taken away by each `Read`, the number of rounds is not
bounded; lengths of either parity and sizes beside the alignments make the arithmetic count.

### `process_creation` — `MCProcessCreation`, `ProcessCreation.cfg`

Systems, creators and executables of both sizes, as far as the system runs them; native ones
with no, one and two imports, and five managed ones; lists of no, one, two and three DLLs,
with "??" in the name, with a bitness in it and without; five units of address space of
which three are free and one is out of reach. `LoaderSees`: a target's loader finds the DLLs
in their order, then the imports the executable had, then the end. `RunsOnlyPrepared`: what
runs was prepared to its last step by exactly one updater of its bitness, whatever failed
before. `FailureLeavesNothing`: after FALSE the process is gone, no helper works on it, the
handles are closed by the routines that own them. `RestoreGivesOriginal`: the headers are
back, but for what the code never undoes and the formula names: a neutral executable that was
made 64-bit stays so, and `IL_ONLY`, cleared by the update (creatwth.cpp:680), stays cleared,
since `DetourRestoreAfterWith` writes the CLR header only where its flags are those it recorded
(modules.cpp:859). `TableInReach`: an RVA reaches the table. Two descriptors and three DLLs give every
remainder of the roundings in both word sizes.

### `injection` — `MCInjection`, `Injection.cfg`

Two helpers, two copies of the DLL, one frame, one start of the viewer, a process of 32 or
64 bits on a 64-bit system. Every call of a helper may fail, the wait may time out, the
process may end at any moment. `ReportsTruth`: a helper that waited and returned 0 has the
DLL attached with its `hook_lyric`, or there is no process. That the hooks are made it does not
say, as they need not be: `HookFuncByName` returns true when the attach has failed
(hook.cpp:101). What holds is that in 32 bits each stored pointer tells whether its hook is
there (`KnowsHook`): both, one or none. `HookedOnce`: however many helpers
bring however many copies, one has its detours in place, and it is in memory.
`HookedStaysLoaded`: a DLL that attached stays, when the window hook that brought it is
gone. `SafeInjectionIsSafe`: where window hooks alone bring the DLL, a 32-bit process never
crashes in it: `DllMain` is then on the thread that paints. Two helpers are what it takes
for a race; helpers and copies are interchangeable, so the run uses symmetry, which these
safety properties allow.

### `lyric_share` — `MCInjection`, `LyricShare.cfg`

One helper, two frames, a viewer that is opened and closed twice; liveness, so no symmetry.
`HelperAnswers`: a helper that was started ends. `LatestFrameShown`: a frame that was
captured and stays the last is in the end what the viewer shows, header and pixels.

### Runs with a violation

`rollback_report`, `hook_api_hang`, `process_bitness`: see section 6. They use the smallest
instances that show the case.

Deadlock is checked in all runs but those of systems that may really stop: in `MovedCode` a
thread that crashed does not go on, in `ImageFile` a tool that faulted, in `ProcessCreation`
a call that has returned is the end, and in `Injection` helpers, viewer and process may all
have ended.

## 4 Fairness

`FairSpec` of `DetourTransaction` is weak fairness of the steps inside a call, for each
thread, and of `Commit` or `Abort` for the owner of a transaction. The first is the
scheduler: a thread that is not suspended runs on. `Running(t)` is part of every such step, so
nothing is assumed of suspended threads. The second is what `hook.cpp` does: after
a `Begin` that succeeded, each path of `DetourAttachFunc` and `DetourDetachFunc` reaches
`DetourTransactionCommit`. That this is so is not assumed in `HookApi` but checked there
(`BegunTransactionsEnd`), under `ApiFairSpec`, which has only the scheduler's fairness,
and none for clients making calls.

`Spec` of `Injection` has weak fairness of each helper's steps and of a remote thread's
reading of its path (the scheduler, and a wait of four seconds that ends whether or not the
thread does), of the painting thread inside a detour, and of the viewer's timer and paint while
it is open. There is none for the loader, whose lock may be held for ever, for
starting helpers or viewers, or for painting. `LatestFrameShown` therefore begins with a
viewer that stays open and a process that stays alive.

`ImageFile`, `ProcessCreation`, `TrampolineRegions` and `MovedCode` have no fairness and no
liveness property: their code is called, and does what it does.

## 5 Proofs

Every theorem holds for any values of the constants that satisfy the named assumptions in the
modules (5.10), so for any number of threads, functions, slots, helpers, executables, and any
sections, imports, names and payloads of those. Every invariant that a run checks is a theorem.

| theorem | module | states |
|---|---|---|
| `TypesHold` | `DetourTransactionProofs` | `Spec => []TypeOK` |
| `PagesAreRestored` | | `Spec => []NothingLeftWritable` |
| `NoWriteFaults` | | `Spec => []WritesNeverFault` |
| `ThreadsAreResumed` | | `Spec => []NobodyLeftSuspended` |
| `ResumedInTime` | | `Spec => ResumedOnSettledCode` |
| `JumpsLeadSomewhere` | | `Spec => []NoDanglingJump`, if `Disciplined` |
| `SlotsAreReachable` | | `Spec => []NoTrampolineLost`, if `Disciplined` |
| `PointersAreHooks` | | `Spec => []PointersMatchHooks`, if `Disciplined` |
| `CallsReachOriginal` | | `Spec => []CallReachesOriginal`, if `Disciplined` |
| `TransactionsAreAtomic` | | `Spec => AllOrNothing`, if `Disciplined` |
| `ToldWhatIs` | `HookApiProofs` | `ApiSpec => []NotInEffectUnlessTold` |
| `EffectsCanBeRemoved` | | `ApiSpec => []InEffectIsRemovable` |
| `FreeListsStayExact` | `TrampolineRegionsProofs` | `Spec => []FreeListsExact` |
| `RegionsStayMapped` | | `Spec => []RegionsAreMapped` |
| `SlotsStayWithinReach` | | `Spec => []WithinReach` |
| `ReleaseKeepsHeldSlots` | | `Spec => HeldSlotsSurvive` |
| `AllocatorHandsOutFreeSlots` | | `Spec => HandsOutFreeSlots` |
| `ThreadsKeepTheirPlace` | `MovedCodeProofs` | `Spec => []KeepsItsPlace` |
| `JumpBackHasRoom` | | `Spec => []JumpBackFits` |
| `ReportsAreTrue` | `InjectionProofs` | `Spec => []ReportsTruth` |
| `OneCopyHooks` | | `Spec => []HookedOnce` |
| `SafeInjectionStaysSafe` | | `Spec => []SafeInjectionIsSafe` |
| `HookedCopyStays` | | `Spec => HookedStaysLoaded` |
| `PreparedBeforeItRuns` | `ProcessCreationProofs` | `Spec => []RunsOnlyPrepared` |
| `FailureIsComplete` | | `Spec => []FailureLeavesNothing` |
| `HeadersComeBack` | | `Spec => []RestoreGivesOriginal` |
| `TableStaysInReach` | | `Spec => []TableInReach` |
| `LoaderFindsAll` | | `Spec => []LoaderSees` |
| `Reopens` | `ImageFileProofs` | `Spec => []WrittenReopens` |
| `OriginalsRecorded` | | `Spec => []OriginalsKept` |
| `RestoresPristine` | | `Spec => []PristineAgain` |
| `TailMoves` | | `Spec => []TailFollows` |
| `SectionsStayApart` | | `Spec => []SectionsApart` |
| `PayloadsFound` | | `Spec => []PayloadsKept` |

Hardly any of these properties is inductive. Each proof names an inductive invariant that
implies it, with one lemma for each action; TLC has checked those invariants on the instances
of the runs (with bounds on the positions and sections that `Inv` of 5.9 says to exist). What follows says what they add and why it is needed.

### 5.1 The engine with any clients

*The types.* A thread may, as far as `TypeOK` knows, be in the patch loop without owning
the transaction, and the cursor be anywhere. `TypeInv` adds `ControlOK`: a thread in one of the
owner's places is the owner (`DetourTransactionBegin` lets one in), the cursor of a patch
loop has started, and a thread about to list another has one to list.

*Pages.* `NothingLeftWritable` speaks of the moment when no transaction is open, and says
nothing of the moments before. `PermInv` describes the saved protections as a chain: an
operation in the list saved `RWX` exactly when an older one on its page is pending, and a
page is `RWX` exactly when some operation on it is. Staging extends the chain at its head
(`PermPush`), restoring takes its head away (`PermPop`); both need the list to be worked
off from the end it grows at. `RegionInv` says when the regions are writable, by the owner's
place: an owner without an error finds them so, after a `Begin` that failed they may be either
and nothing can be staged, and a slot in use implies that there is a region. `WriteInv` is both,
and implies both theorems.

*Threads.* `SuspendInv` adds to `NobodyLeftSuspended` that a thread to be listed exists only
while some call is about to list it, so none is forgotten between suspension and listing,
and that nobody is suspended when a commit or an abort releases the transaction.
`ResumedInTime` follows from `WriteInv` at the one step that resumes.

Each invariant has one lemma for the clients' steps and one for the steps inside a call,
with a case for each action; steps that leave memory alone share `QuietType`, `QuietWrite`
and the frame lemmas.

### 5.2 The hooks of disciplined clients

In the middle of a transaction a slot may be filled and not jumped to yet, or jumped over and
not freed yet. `Hooked` is the set of slots in use without those (`LiesBeside`, which depends
on whether the commit has passed the operation, `Patched`). `HookInv` says of them, at every
step: the hooked slots of a function are one chain from its entry along the saved bytes, and
nothing else leads to them (`LinkInv`); the clients' pointers that are not functions are
the hooked slots one for one (`PointerInv`); and each pending operation finds its function
and its pointer as they were when it was staged, until its patch (`OperationInv`). `HookIn`
and `HookOut` are the lemmas that put a slot on a chain and take it off; it is there that
`Orderly` is used, since only the top of a chain can be removed.

*The call.* By `LinkInv` each step along the saved bytes of a function leads to another hooked
slot and no slot is reached twice, so a call that goes on for as many steps as there are slots
would need one slot more (`ChainIsShort`).

### 5.3 The refinement

Each step of the engine is, under the mapping of 2.2, a
step of `HookTransactions` or a stutter. The mapped stack of a function is the list of detours
along its chain of jumps: `JumpsKept` says that a patch of another function does not change
it, `HooksPushed` that a jump put in front puts the new detour in front. `PathInv` adds to
`HookInv` what exit of the transaction each place belongs to: a thread that patches has seen
no error, the abort loop is not that of a commit. The first patch is `CommitAll`, since from
there on the operations still to come count as done, and the later ones stutter; so does the
end of the patches, and with it a whole commit that has nothing staged.

### 5.4 The hook API

The clients of `hook.cpp` are not those of `DetourTransaction`: they set their variable
themselves and may suspend themselves, so `HookInv` does not apply. `ApiInv` uses that a
function has one hook: its trampoline, if any, saved the function's own code (`SlotInv`).
Between two calls about a hook (`Settled`), a client that was told it has none finds the
function's own code, and one that was told it has one keeps the trampoline in its variable, or what a
`DWORD` holds of it, exactly when it is in effect; the converse of being told does not hold, as `success` is kept
when an attach fails. Within a call, `CallInv` says whether the function is as it was
(`Before`) or changed (`After`), by the place and by whether the commit has passed the one
operation in the list; that operation is the owner's, and no error is pending, so the commit
does not abort (`OwnOperationInv`). `OneCall` reduces a step of one thread to its own call, because
two calls are never about one function.

### 5.5 The regions

`TypeOK` and the three invariants support each other: the free list of a region is exact only
while the region is on the list of regions, and a new region may be put there because what
is mapped free is not. `AdvancedExact`, `FreshExact` and `Prepended` say what taking a slot,
formatting a region and giving a slot back do to a free list; `KeptEnumerates` and `UnlinkedIs`
what unlinking the empty regions does to the list of regions. `PoolStep` maps each step to one
of `SlotPool`.

### 5.6 Injection

`InjectInv` collects what makes one copy of the DLL hook. The loader's lock is held by the
one thread that is in `DllMain` (`LockInv`), and what that thread has done and not undone can be
told from its place (`PlaceInv`). One copy has the mutex, and only that copy has hooks
(`MutexInv`), so the copies exclude each other. A copy that attached is counted once more than
the window hooks that brought it hold it (`CountInv`), so the release of all of them leaves it in
memory: `HookedCopyStays`. `OldInv` says that a detour in place has its trampoline stored
unless the loading thread is just about to store it; where window hooks alone bring the DLL
that thread is the one that paints, so it is not in a detour meanwhile (`PainterInv`), which is
`SafeInjectionStaysSafe`. For `ReportsAreTrue` a second invariant, `StoredInv`, goes the other
way as well: from `HookFuncByName` to `StoreOld` the thread's pointer tells whether the hook
was made (`ToStore`), behind it the stored pointer does, and so for a copy that attached. No step
of another thread is about that copy (`StoredHolder`), and no step that `DllMain` does not make
touches pointers or hooks (`StoredQuiet`).

### 5.7 Process creation

An updater of the wrong bitness is turned away by `Scan`, so of the creator and its helper only
the one of the process's bitness ever changes anything: that is the heart of `CreationInv`.
`UpdaterInv` says by the place of that updater which headers are still those of the executable,
and that the record it keeps is that of the process as the system had loaded it, converted
executables included; `HeaderInv` that what the target finds as its payload is that record;
`CallInv` what creator, helper, handles and result know of each other. `PlaceIsFree` shows that
the search for a free place returns one within reach, from the well-foundedness of the naturals.

*The table.* `TableInv` says that an updater that comes to the imports finds the executable's
own, and that a table in a place of `Free` was laid out by `NewTable` from those. The rest is
about `NewTable` and `Loads` for any lists. `DescriptorsOfDlls` and `TableWords` say which
words the descriptors of a new table are made of, the DLLs' first and the executable's own
behind them; `LoadsUpTo`, that the loader reads descriptor by descriptor up to the first end;
`HasEnd` and `NameIsNoEnd`, that there is one and that it is no DLL's. The code does not write
it for an executable that had none: the alignment or the thunks of the first DLL, read as a
descriptor, are the end then (the last part of `TableWords`).

### 5.8 Moved code

`PlaceInv` says where a thread is by the instruction it has come to: at its offset in the
function or that of its copy in the trampoline, and while the detour is attached, in the
function only at the jump or behind the bytes it has overwritten. `TargetOffsets` and
`MovedOffsets` are about the sums of lengths: they rise from instruction to instruction, so an offset names one
instruction, and a copy begins at most at three times its offset. `MovedIsShort` says that
all moved instructions but the last begin and end within the jump, and that the last one
reaches its end unless it ends the function; so every offset that is looked up fits into the
bits of `rAlign`, but for the end of the moved instructions, which is what the exception
`EndFitsAlign` is about. `FoundInCopy` and `FoundInFunction` are the two lookups, empty entries
included. `SafeInv` says this of the functions that are no exception, and of the others only
that they stay what they are. Of threads in a freed trampoline `At` says only that they are behind
the size of a pointer: `Detach` brings all others back.

For the jump back, the copying stops when a jump's length is reached, so the copies before the
last come from at most `CbJump - 1` bytes, and grew threefold at most: with `rbCode` of 30 bytes
there is room for 12 bytes more on x64 and 13 on x86. Instructions have up to 15; what the
theorem does not cover, the run shows to overflow.

### 5.9 Executable files

`Inv` says that the file on disk, the open binary and the file just written all come from the
one that was linked. `FileInv`: a file is the original, or the original with one section more,
placed behind the data of the others and before what lies behind all sections, which has
moved by the size of that section; it holds the headers of the original, the payloads that are
wanted, and a list of imports in which the original's files stand in their order among the
byways (`Ordered`). `ImgInv`: an open binary is what `Read` makes of such a file, its import
list edited from the original (`Edited`). `OutInv`: what was written says what the binary said.
Each property speaks of one moment and one part; a file that is opened again makes all of them
depend on what the tool before had left in the `.detour` section, so none of them is inductive
without the rest.

`TableIs` says that the room `CheckImportsNeeded` counts for names and thunks, rounding as it
goes, is the room that `Write` uses up in another order. `ReadTable` says what `Read` makes of
a table: the names it was made from, with the originals it holds, because the kth file that is
no byway is the kth of the original (`Indexed`). The sections of the original are aligned and
lie in their order (`Linked`), so the new one, behind the larger of the two ends of the last,
meets none of them on disk or in memory, and neither does the data that follows it. Sums and
recursive functions over lists are unfolded with `Inductions`.

*Induction.* The library's induction theorems take an operator as a parameter, which the
provers cannot instantiate. `Inductions` states induction over a set of numbers
(`SetInduction`, `IntervalInduction`), proved from the well-foundedness of the naturals, and
that a function defined by recursion on an interval has the values expected of it
(`Recursion`, `Unfolded`); sums are its first use. With those, statements about what folds and
recursive functions compute can be proved for all lists, one recursive function at a time.

### 5.10 Assumptions

The constants' assumptions are the named `ASSUME`s of the modules; TLC evaluates them in the
runs. They say that special values are not elements of the sets they are added to
(`NoThreadAssumption`, `NullAssumption`, `UnmappedAssumption`, `OriginalAssumption`,
`NamesAssumption`, `ContentsAssumption`, `RemoteAssumption`, `NobodyAssumption`,
`ViewerAssumption`), that a process has finitely many slots (`FiniteAssumption`), that what lies
below 4 GB is code (`LowAssumption`), what systems, places and executables there
are (`SystemsAssumption`, `FreeAssumption`, `ImagesAssumption`: an executable's own table lies in
its image and not where a new one may be put), and that tables such as `PageOf` are functions.
`DllListsAssumption`: a name is stored at an RVA other than 0. `PristineAssumption` is what a
linker leaves: sections in the order of their addresses, aligned on disk, the data behind them
where they end, headers at a multiple of 8, and the size of the image that of the last
section; `NameAssumption` and `PayloadAssumption` give lengths to names and payloads, and
ordinals other than 0. `FunctionsAssumption` is what x86 instructions are: at least one byte,
at most 19 for a copy, and a function ends with its last; `SizesAssumption` holds of the
constants of `detours.cpp`: `rAlign` has an entry for each byte of a jump, an offset within a
jump fits into `obTarget`, and three times such an offset and one copy more into
`obTrampoline`. Three assumptions are about clients and not about data: `Disciplined`, where a
theorem states it, and `MaySuspend`, which is part of `Next` of `DetourTransaction` (both in 2.1), and
`OneHookAssumption` of `HookApi`, that clients keep one detour on a function.

### 5.11 Only model-checked

* Liveness: `FinishCompletes`, `SuspendedRunsAgain`, `CallsReturn`, `BegunTransactionsEnd`,
  `HelperAnswers`, `LatestFrameShown`. This prover cannot handle fairness.
* The properties that are violated (section 6) are counterexamples of TLC.

## 6 Where the code and its texts disagree

Checked by a run:

1. **`rollback_report`** — `DetourTransactionCommitEx` aborts when a call has failed, and
   returns `s_nPendingError` (1672). The abort has released the transaction by then; another
   thread's `Begin` may have reset the variable, and the failed commit returns `NO_ERROR`.
2. **`hook_api_hang`** — `DetourUpdateThreads` keeps the thread whose id *is* the caller's
   (hook.cpp:59) and opens a real handle to it, which `DetourUpdateThread` does not
   recognise (1937). The owner is suspended inside its transaction, which the comment at
   1936 excludes, and no thread of the process can hook again.
3. **`process_bitness`** — `IsProcess64Bit` answers "is the process 64-bit" (proc.h:12). In
   a 32-bit build `IsSystem64Bit` returns `!IsWow64Process` of itself (system.cpp:12), which
   is true exactly on a 32-bit system. So on a 64-bit system every process has 32 bits, and
   on a 32-bit one `IsProcess64Bit` finds no WOW64 and says 64. `InjectTarget` and
   `test_inject_helper.cpp:46` choose the helper and the DLL by it.

Seen while modelling, and not the subject of a run:

* `success` stays as `DetourUpdateThreads` set it when `DetourAttach` fails (hook.cpp:101),
  and the result of the commit is dropped (107), so `HookFuncByName` may return true for a
  hook that was not made. `NotInEffectUnlessTold` says only the other direction.
* `obTarget` has three bits (detours.cpp:23). When an instruction that is moved ends at
  offset 8, its end is stored as 0, the lookup for a thread at the entry of the function
  finds it first, and the thread goes on behind it. `KeepsItsPlace` excepts these functions.
* The test whether a thread is in the trampoline that is removed compares with
  `sizeof(o->pTrampoline)`, the size of a pointer (1846). A thread further in the moved code
  stays in memory that is freed. `KeepsItsPlace` says that no others do.
* hook.cpp's `closeDeffer` is destroyed before the commit (96), so the handles of the
  threads are closed when `ResumeThread` wants them. It matters only with `handAllThreads`,
  and there the caller is suspended first.
* `*(DWORD*)oldFuncAddr` (hook.cpp:141) keeps the lower half of the pointer: in 64 bits the
  first call through the stored original crashes, and so does `UnHookFunc`, unless the
  trampoline lies below 4 GB. `HookApi` and `HookDll` have this (`AsDword`);
  `InEffectIsRemovable` speaks of trampolines below 4 GB and `SafeInjectionIsSafe` of 32 bits
  for that reason.
* `hook_dll_demo`'s `IsInjectHelper` takes one character too many (dllmain.cpp:59) and never
  matches; `hookLyric`'s `substr` throws for a path shorter than the helper's name.
* The viewer's file name is `L"d:\1.rgb"`, in which `\1` is a character and not a directory;
  the file cannot be made, and the mapping lives in the page file.
* Pixels begin `sizeof(LyricShareMem)` structures behind the header instead of as many
  bytes, and the size of a frame is not compared with the mapping's 1 MB (hook_dll.cpp:118).
* `CImage::Write` says that the DOS header is restored (image.cpp:1652), and puts the NT
  headers at `QuadAlign(e_lfanew)` (1654), while `e_lfanew` is written as it was: they
  disagree when it is not a multiple of 8.
* In "Adjust Extra Data" the comparison is `>`: what points exactly at the end of the
  sections is not moved.
* `CImageData::Delete` moves records inside the read-only view of the file when the payloads
  have not been copied yet (575–583), which faults unless the record is the last.
* A `Set` that finds no memory has deleted the old payload by then; a `new CImageData` that
  fails makes `Read` return TRUE and `Write` dereference NULL; `EditImports` releases a name
  before it has the copy, so a failed edit leaves a NULL that `Write` dereferences.
* `CheckImportsNeeded` compares names only: an edit from one ordinal to another alone gets
  no `.detour` section and is lost, and an edit from a name to an ordinal loses the original
  name for the next tool.
* A second `Write` of an open binary works from the section count the first one changed.
* `DetourRestoreAfterWith` restores the CLR header only when its flags are those recorded
  (modules.cpp:859), to leave out executables that were made 64-bit; but the update has
  cleared `IL_ONLY` in all that had it (creatwth.cpp:680), so none of those is restored.
  `RestoreGivesOriginal` names this exception.
* The `WithDll` variants without `Ex` leave the handles of a process they terminate open.
* `DetourProcessViaHelperDllsW` resumes its helper process twice (creatwth.cpp:1295–1297).
* `s_fSearchedForHelper` is set before `s_pHelper` (998): a second thread sees a search that
  has ended and found nothing.
* When the second check of `FindAndAllocateNearBase` refuses an allocation, it stays
  allocated (195).
* A table written for an executable without imports has no terminator of its own; the zeros
  behind the last descriptor serve.
* `IsAscii` tests wide characters with a mask for characters of 32 bits, where Windows has
  16 (stringex.cpp:45); `Split` never stores the pieces it finds (384–401); a `WinHandle`
  copied bitwise closes its handle twice (system.cpp:34).
* `DetourDetach`'s "Verify that Trampoline is in place" (2424) looks at the block the
  pointer leads to and not at the function, so it accepts a trampoline that has a later
  detour above it; removing it disables the later one. Clients that are not `Orderly` can do
  this.
* `HookFuncByName` stores the pointer for the original after the hook is live
  (hook.cpp:141); a detour called in between finds the old value.
* A new region's free list leaves out two slots where the comment at 1432 speaks of one
  (1435).
* The search among existing regions compares only the head of each free list with the reach
  (1410), so at the edge of the reach a fitting slot behind an unfitting one is not found.
* `detour_alloc_region_from_hi` goes on from `mbi.AllocationBase` when a free range is too
  small (1311); for free memory that is `NULL`, and the search ends.
* `DetourAttachEx` adds a negative `lExtra` (for `LOOP` and `JECXZ`, whose copies cannot be
  enlarged) to the place of the next copy (2151), and compares the bytes taken, not the
  longer bytes copied, with the room for the jump back (2218). Two short conditional jumps
  and an instruction of 13 to 15 bytes are 17 to 19 bytes to take and 25 to 27 to copy, with
  which the jump back of 6 bytes (x64) does not fit into `rbCode`. `JumpBackFits` excepts
  copies of that length, and functions with `LOOP` and `JECXZ`.
* `AttachStub`: a detour that is only a jump to its target makes `DetourAttachEx` return
  `NO_ERROR`, the value `error` was initialised with, and stage nothing (2041–2053).
* A `Begin` that fails has taken the transaction (1574, 1584); `hook.cpp` returns at once
  (91), and nobody ends it.

## 7 What the models leave out

*`DetourTransaction`.* `s_ppPendingError`, which only `DetourTransactionCommitEx` reports.
`VirtualProtect` and `FlushInstructionCache` calls whose results the code does not test
(restoring a page, making regions executable) succeed. All regions have one protection;
that they are several matters to `TrampolineRegions` only. A patch is one step: threads see
an entry before or after it, not half of it. x86 and x64 only. `DetourUpdateThread` by a
thread that does not own the transaction is not called.

*`HookApi`.* `GetModuleHandle` and `GetProcAddress` succeed: a call that fails there does
nothing else. An address is cut to a `DWORD` as a whole: `Low` keeps it, anything else becomes
`Unmapped`, although half an address may by chance be one of something. Nothing is said of
the client's calls through the stored pointer; `HookDll` has them. `Attach` is called with a
function, as the repository's one caller does, who passes what `GetProcAddress` returned
(hook.cpp:137–140) in a local of the call; `DetourAttachEx` would also take a pointer that is a
trampoline already.

*`TrampolineRegions`.* `VirtualAlloc` of a unit that is free succeeds, unless all
searches fail. Targets do not lie in regions. An allocation of many units is that many
units of `"other"`, so a search meets the system window at its bound unless it starts inside.
One thread at a time is in this code: the owner of the transaction.

*`MovedCode`.* One function; all other threads are suspended during a transaction, which is
what the relocation is for. Instructions run in order except at the function's end: a jump
from the function's body back into its first bytes is not modelled. `DetourCopyInstruction`
is a table over opcodes; the model has what the copy loop sees of it. The runs have no `LOOP` or
`JECXZ`, whose copies the next instruction overwrites, and what a jump back that does not
fit writes over behind `rbCode` is not modelled: both are among the exceptions of the
properties. A detour that is attached again has the trampoline it had, so a thread that was
left in it is in moved code again.

*`Injection`, `HookDll`, `LyricShare`.* A remote thread reads its path within the four
seconds: the code frees it then, and nothing but time says that it was read. `UnHookFunc` of
a live hook succeeds, as `InEffectIsRemovable` says it can. One thread paints, the one
window hooks are set for. `OpenMutex` and `CreateMutex` are one step, because both run under
the loader's lock. `GetDIBits` into memory that is not mapped fails, as system calls
do, where an assignment faults. A `DllMain` that returns FALSE is called to detach and
unloaded, whoever counted it meanwhile. The eight pokes are one step, the header of a frame
another. Message boxes, the detach at the end of a process, and frames larger than the
mapping are left out. With a remote thread `DllMain` runs beside the painting thread, and
the process can crash in most ways the model knows (an original not stored yet, a view
unmapped, a module unloaded, a detour that calls itself): `SafeInjectionIsSafe` is not
claimed there.

*`ImageFile`.* `e_lfanew` is a multiple of 8, sections are aligned on disk, no address
points exactly at the end of the sections (section 6 has the first and the last). The symbol
table, the sections' raw data and one debug entry stand for all file addresses that `Write`
adjusts. Bytes of payloads and sections are copied and not looked at. A binary is written
once between opening and closing.

*`ProcessCreation`.* A 32-bit creator finds the 64-bit `ntdll` among the modules of a WOW64
process. A DLL for the helper has a name of its bitness; `rundll32` ends with an error when
it cannot load it. Names carry the creator's bitness, "??", or none. The loader and its end
at an empty descriptor are external. Strings are numbers in the table; how far apart
sections lie is not modelled.

*Types.* `TypeOK` of `DetourTransaction` is the one type invariant that is run. Those of the
other modules, in the modules or beside their proofs, are parts of the invariants proved there.

*Not modelled.* The functions on strings and paths: they are pure, have no state, and the
rest uses them for a command line and a file name; what they compute for an input is a table
a unit test holds better. The tables of `disasm.cpp` are data, of which `MovedCode` has
lengths and growth. `test_inject_helper`'s dialogue, `WinHandle`, and the parts of
`proc.cpp` that are stubs or only read. The walks of `modules.cpp` that only read.

## 8 Plan

Order of work, the most important behaviour first:

1. *done* — the transaction engine, its promise and refinement, its first theorems.
2. *done* — the hook API on top of it; the regions; the moved code.
3. *done* — `LyricShare`, `HookDll`, `Injection`: the injector's two ways against a target's
   loader, the life of a hook DLL in it, and the viewer beside it.
4. *done* — `ImageData`, `ImageFile`: editing executable files.
5. *done* — `ProcessImports`, `ProcessCreation`: starting processes with DLLs.
6. *done* — proofs: the engine with and without disciplined clients, its refinement, the hook
   API, the regions and their refinement, injection, process creation with the table its
   loader reads, executable files, and moved code: every invariant and every action property
   that a run checks.
7. Not begun, and of less weight: `Texts`, UTF-8 validation and the parts of paths as
   operators, against reference definitions over all short inputs; half-written patches, with
   threads that were not suspended running over them.
