# Verification of kcpplib

kcpplib is a small C and C++ runtime that is linked into x64 Windows kernel
drivers: start-up and shutdown, a heap on top of the pool, stdio on top of the
`Zw` file calls, a path class, number parsing, and an owning handle. This
directory models it in TLA+, checks the models with TLC on small instances, and
proves the most important results with TLAPS. Paths below are relative to `src/`.

## 1. Inventory

| Part | Source | State | Operations | Correct when |
|---|---|---|---|---|
| Driver lifecycle | `kcpplib.cpp` | globals with names and image base, `DriverUnload` | `DriverEntry`, `OnUnload` | start-up precedes user code, shutdown follows it, each once |
| C runtime | `kcrt/kcrtc.c` | `.CRT$X*` tables, `__onexithead` with its spin lock, `g_vsnprintf` | `_cinit`, `_initterm`, `_initterm_pifv`, `atexit`, `doexit`, `_cexit` | every registered handler runs exactly once, the last first; tables in link order |
| Heap | `kcrt/kcrtc.c`, `kstl/kernel_stl.cpp` | a header in front of every block | `malloc`, `calloc`, `realloc`, `free`, `new`, `delete` | blocks do not touch, data survives, nothing leaks |
| stdio, files | `kcrt/kcrtfs.c` | pool buffers, kernel handles, `FILE` + `FILE_CONTROL_BLOCK` | `fopen`, `fopen2`, `fopenSafe`, `fclose`, `remove`, `remove2` | each way out gives back what was taken; sharing as asked |
| stdio, streams | `kcrt/kcrtfs.c` | kernel file position, `fcb->err` | `fgetc`, `ungetc`, `fread`, `fwrite`, `fseek`, `ftell`, `feof`, `ferror`, `clearerr`, `kfprintf` | a seek that succeeds lands; end of file is told rightly |
| Current directory | `kcrt/kcrtfs.c` | `_CRT_CWD` | `_init_cwd`, `_get_cwd` | names with a leading dot start there |
| Paths | `cpp_path/*` | one string | `sanitize`, `append`, `relative`, `up`, `absolute`, `trim`, `directory`, ... | the spelling changes, the place does not |
| Number parsing | `kcrt/strtoll.c`, `strtod.c`, `fltintrn.c` | `errno`, static buffers of `_fltin` | `strtoll`, `kstrtod`, `_fltin` | exact or next to it, or a range error; `endptr` behind the number; shared buffers do no harm |
| Owning handle | `kstl/scope.h` | the resource | constructor, destructor, `reset`, `release`, `swap`, `=` | a resource is released once |
| Glue | `err.c`, `invargc.c`, `Singleton.h`, `stdcpp.cpp`, `typeinfo.cpp`, `vsnprintf` pointers, time | `_kerrno`, lazily set pointers | | |

How they interact. `DriverEntry` calls `_cinit`, which prepares the `atexit` list
and runs the constructors, then the user's `KcpplibDriverEntry`. `OnUnload` calls
the user's unload routine and `_cexit`, which drains the list and walks the
terminator tables. Constructors and every function-local static (`Singleton`)
call `atexit`, which takes its entries from `malloc`. The C++ library allocates
through `operator new`, which is `malloc`. `fopen` and `remove` call
`path_sanitize`, which builds a `Path`.

What is hard here: user threads that call `atexit` while `doexit` drains the list
after a test outside the lock; the failure of `_cinit` that `DriverEntry` ignores;
a `realloc` that keeps the old size in the header; the many failure exits of the
file functions, which hold up to two buffers and a handle; two threads on one file;
positions beyond the width of `long`; limits of integer parsing; the digit buffer and
the result that all calls of `_fltin` share; a decimal number that is dropped, rounded,
stripped, multiplied and rounded again on its way to a double; the corner cases of empty, relative and separator-only paths. There is no persistence, so nothing
has to recover from a crash, and there are no messages. `PROJECT.json` ("hazards")
lists every hazard with its line and the property that covers it.

## 2. Modules

| Module | Models | Checked by | Proofs |
|---|---|---|---|
| `CrtLifecycle` | driver lifecycle, C runtime start-up and shutdown, `atexit` from any thread | runs `crt_lifecycle`, `crt_cinit` | `CrtLifecycleProofs` |
| `AtExitStack` | abstract specification: what `atexit`/`doexit` promise | refined by `CrtLifecycle` | `CrtLifecycleProofs` |
| `KHeap` | the heap and `new`/`delete` on a flat pool | `heap` | `KHeapProofs` |
| `AbstractHeap` | abstract specification: what the heap promises | refined by `KHeap` | `KHeapProofs` |
| `FileOpen` | opening, closing, removing files, with several threads | `file_open`, `file_remove` | `FileOpenProofs` |
| `FileStream` | position, end and error of one stream | `file_stream` | `FileStreamProofs` |
| `CppPath` | pure operators: `Path` and `path_sanitize`; what a path means | through `PathObject` | `PathObjectProofs` |
| `PathObject` | a `Path` object and the calls on it | `path` | `PathObjectProofs` |
| `StrToLL` | `strtoll` at a reduced width | `strtoll`, `strtoll_neg` | `StrToLLProofs` |
| `ScopeResource` | `scope_resource` | `scope` | `ScopeResourceProofs` |
| `FltIn` | `_fltin`: the scanner, the rounding of digits, the power of ten, the shared buffer and result | `fltin`, `fltin_denormal` | `FltInProofs` |
| `Ld12` | pure operators: the 12-byte long double and its conversion to double | through `FltIn` | |
| `KStrToD` | pure operators: `kstrtod` | `fltin` | |
| `DecimalText` | reference: which number a text starts with, and its value | used by the three above | |

Each `MC*` module gives an instance its constants. Operators called "Mutant" in a
module are broken variants of the definition that follows; they take no part in
the specification; `PROJECT.json` ("mutants") says which property each of them breaks. Each one is a plausible mistake that some property catches,
which shows that the property can fail.

### CrtLifecycle

`pc` is the place of Main, the thread of `DriverEntry` and `OnUnload`; `walking`
and `at` are the table and the cursor of `_initterm`. `onexithead` is the linked
list, head first, `heap` the entries that `malloc` has handed out, `holding[t]` the
entry a thread inside `_onexit` has allocated and not linked, `cur` the `Entry` of
`doexit`. `ran` and `calls` are history. The inputs chosen in `Init` are the two
arguments of `DriverEntry` and whether `_vsnprintf` is found.

User code (initializers, handlers, `KcpplibDriverEntry`, `KcpplibDriverUnLoad`)
is any number of `atexit` calls followed by a return. Every call of an initializer
or handler is inside `__try`, so a return and an exception continue at the same
place. `ExInterlockedInsertHeadList` and `ExInterlockedRemoveHeadList` are one step
each, `malloc`, the insertion, the unlocked `IsListEmpty`, the removal, the call and
`free` are separate steps. When `_cinit` has failed the list head is all zero:
`IsListEmpty` is then false, and linking or removing stops the system
(`pc = "bugcheck"`). A registration that returns -1 leaves no trace and stutters.
Entries are not reused: an address that `malloc` hands out again is a new entry,
so that a registration can be followed to its end.

`_initterm_pifv` calls the function of the *first* slot for every slot that has one.
The first slot is the `{0}` of the library (`TableAssumption`), so the call faults and
is skipped.

### KHeap

`mem` is the pool cell by cell, `blocks` the pool blocks in use, `live` what the
callers hold: for each pointer the contents they may rely on. Headers lie in
`mem`, so a short block or a wrong copy damages the neighbour. `realloc` that has to
move is three steps (`malloc`, `memcpy`, `free`) between which other threads run; its
old pointer must not be used meanwhile. `ReallocInPlace` leaves the header's size as
the code does. `new` stops the system when the pool is empty; `malloc` returns NULL.
Callers are correct C: no double free, no write outside, no size that wraps
(`RequestAssumption`). To its callers the pool is an `AbstractHeap`: pointers with contents
of their own, taken, resized, written and released at once.

### FileOpen

`call[t]` is the file function a thread is in; `paths` and `names` count the two
buffers in the pool; `handles` are the open kernel handles with the access they were
opened for; `streams` the handles of `FILE`s the callers have. The file system is
external and may refuse every request; it must refuse what share access, a missing
file or a read-only attribute forbid. Handles that ask for attributes only take no part
in the share check, and `fopenSafe`'s first attempt ignores it
(`IO_IGNORE_SHARE_ACCESS_CHECK`). An allocation of the `FILE` that fails leads to a
write through NULL (`crashed`), as in the code.

### FileStream

`pos` and `end` belong to the file system, `err` to the `FILE_CONTROL_BLOCK`. `asked` is the
end of file that `feof` or a seek from the end has been told and has not used yet. `Long` and
`ULong` are the casts of the code at a word of `Word` values. `told` and `at` are a
result of `ftell` the caller kept, `last` the last call, its result and the position C
asks for. Other writers may extend the file at any moment, between the two requests
of one call too.

### CppPath and PathObject

A path is the sequence of what stands between its separators; `""` is `<<"">>`, `"/"`
is `<<"", "">>`. `Walk(dir, p)` is the meaning of a path: the directory one reaches
from `dir`. `PathObject` starts from any short path and applies any sequence of calls.
`Pruned` is the loop of `sanitize()`. The empty segment has a name, `Blank`, since the
provers do not read the literal.

### StrToLL

One action per loop turn. A character is its digit value; letters of both cases have
one. `Word` is the number of values of a `long long`. The negation of `LLONG_MIN` wraps,
as the compiler folds it.

### ScopeResource

Live objects and the resource each owns, the resources not yet acquired, given back by
`release`, and how often the functor has seen each. Callers do not copy objects.

### FltIn, Ld12 and DecimalText

`_fltin` is called by any of `Threads` on a text of its own (`Texts` says which strings
are asked for at the same time). `state[t]` is first the state of the scanner under its
name in the code, one action per state and character; then `round`, `strip`, `digits`,
`pow`, `multiply` follow the code behind `S_END`, the last one turn of the loop of
`__multtenpow12_my` at a time; `convert`, `flags`, `nbytes`, `dval` are the stores into
the static struct, `return` is the caller that has the pointer and has not yet read. `buf`
and `ret` are the two static objects: every store into them and every digit read from
`buf` is a step of its own, so calls interleave there as they can on two processors. The
other locals are in `loc`. `overlapped` is history: the threads whose call ran at the
same time as another one. Properties about the buffer, the string and termination hold for
all threads; those about values only for calls that ran alone, since digits of two calls may
mix, and nothing in the code promises more.

`Ld12` follows the code word by word at a width `H` of a `USHORT`: the long
multiplication adds only the upper six partial products (`AddProduct`), with its carries,
the normalization, the rounding, the table entries with their un-rounding mark, and in
`ld12cvt` all branches of `_ld12cvt`: overflow, zero, denormals with two
roundings, the local `man` that line 1157 tests before anything is stored in it (both
outcomes). `Turns` stands for the C loops that run to a condition. The table entries
are computed from their definition, the power rounded to the width; the entries of the
source were compared with it for the real width outside TLA+.

`DecimalText` is the reference: the grammar of a number as sets of end indexes and the value
as digits and exponent, written without a state machine. `Exp` stands for the letters
E, e, D, d of the scanner.

### KStrToD

`kstrtod` keeps no state; the module is one operator per part of it: where the mantissa
starts and ends, the digits that two ints collect, the exponent field in an int that
wraps (C leaves that undefined; it is what the compiled code does), the negation of a negative
exponent, which leaves the least int as it is (`magnitude`), the test against `maxExponent`,
ERANGE, and `*_EndPtr`. The product of the fraction with a power of ten in double
arithmetic is kept as fraction, exponent and class (finite, zero, infinite, NaN). The class
"runaway" is the call whose loop over `powersOf10` leaves the table and, with the least
int, never ends; nothing is said of what it reads there.

## 3. Runs

| Run | Instance | Shows |
|---|---|---|
| `crt_lifecycle` | 4 entries, 2 threads + Main, tables with NULL slots and one or two functions | `EntryAccounting`, `RemoveFindsEntry`, `BugcheckOnlyWithoutCApi`, `TablesInOrder`, refinement `StackSpec`, liveness `RegisteredRuns`, `UnloadEnds` |
| `heap` | 10 cells, header of 2, sizes 0, 1, 2, 4, 2 threads | `BlocksAccounted`, refinement `HeapSpec` |
| `file_open` | 2 threads, 1 file, 3 handles (symmetric) | `BuffersAccounted`, `HandlesAccounted`, `WriterAlone`, `OpenFileExists` |
| `file_stream` | word of 8, files up to 9 | `SeekLands`, `NotEofMeansMore` |
| `path` | paths of up to 3 given segments over 2 names | `SanitizeIsNormal`, `SanitizeKeepsPlace`, `EquivalentIsSound`, `OpensWhereMeant`, `UpLeadsToParent` |
| `strtoll` | 6 bits, strings of up to 4 characters, bases 0, 2, 10, 16, 36 | `NonNegativeExact`, `EndptrAfterDigits`, `NoOverflow` |
| `scope` | 2 objects, 3 resources | `OnePlace` |
| `fltin` | `USHORT` of 3 bits, double of 8 bits precision, 3 digits, exponents up to 10, some 3600 texts, 2 threads | `ReadsInside`, `NonZeroDigit`, `EndPtrBehindNumber`, `DigitsAreTheNumber`, `NearestDouble`, `StrToDReadsNumber`, step property `MulNearlyExact`, liveness `CallReturns` |

Every run also checks the `TypeOK` of its module.

Why the bounds are enough. Four entries are one for each thread and one more, so
that entries wait in the list while one is being called and others are being linked.
Ten cells hold two or three blocks with headers, so blocks are neighbours, the pool
runs out, and a `realloc` both fits and moves. Three handles are a `FILE` and one call
of each thread. With a word of 8 a position passes the sign bit at 4 and the word at 8.
Paths of three segments have a name, a `..` and a separator in every order; calls make
them longer. Six bits put the limit 31 within two decimal digits, so four characters
reach both sides of it with a sign and a prefix.

`fltin`: three bits for a `USHORT` leave five words for a mantissa of 15 bits, so that
every partial product and every carry of the multiplication exists, and 8 bits of a
double fall inside a word as 53 do. Exponents up to 10 take two turns of the power loop,
octal digits 1..7 and 1, as 5200 takes five. The double's exponent range is
within that, so texts overflow, underflow and become denormal. The digit buffer of three
makes four digits the first that are rounded, five the first that are dropped.
The texts are all mantissas up to three characters over 0, 6 and point, with signs, blanks and
thirteen kinds of exponents; all kinds of leading digits with every power; and
mantissas of five digits with the point anywhere. Two threads run on every pair of five short
texts, which include a zero only, a nine that rounds up and stripped zeros. For `kstrtod`
an int collects two digits, so the same texts reach its limit of four. Its ints have 9 bits and
`powersOf10` 4 entries for exponents up to 15, as it has 9 for 511 in the code; `LimitTexts` have
exponent fields from 253 to 257 of either sign, with a point or dropped digits that take
the sum over either end of the int.

Fairness. In `FltIn` a thread inside a call is scheduled (`WF(Step(t))`); nothing in a
call waits for another thread. In `CrtLifecycle` Main is scheduled and the user code it calls returns (`WF(MainStep)`), and a
thread inside `ExInterlockedInsertHeadList` leaves it (`WF(OnexitInsert(t))`): it spins on
a lock that is held for a few instructions. Nothing obliges the system to unload the
driver nor a thread to register. The number of registrations is finite, as `Entry`
is; with threads that register for ever `doexit` need not end, in the code neither.

The runs that expect a violation show where the code departs from its own comments:

- `crt_cinit`: `_initterm_pifv` calls `(**begin)()` (`kcrt/kcrtc.c:197`); no C
  initializer ever runs.
- `file_remove`: `remove2` leaves its handle open when the attributes cannot be
  queried or set (`kcrt/kcrtfs.c:634-645`).
- `strtoll_neg`: every negative number is out of range (`kcrt/strtoll.c:59`).
- `fltin_denormal`: the second rounding of a denormal can carry (`kcrt/fltintrn.c:1219` says
  it need not be checked); the carry is lost. With the real widths 1.1125369292536006915e-308
  becomes 0 and 5.562684646268003457e-309 becomes its double.

Seen while modelling, without a run: the comment on `sanitize()`
(`cpp_path/cpp_path.hpp:144`) says a relative path with enough `..` becomes absolute,
while the code keeps the `..`; the code's own comment at line 368 describes what it does.
`remove2` leaves a file without its read-only attribute when the deletion fails.
`feof` is true one byte before the end. `trim()` of `"/"` is `""`, though
`cpp_path.hpp:155` keeps a leading separator. A `scope_resource` that is copied
or moved releases twice, unlike the `unique_resource` it names (`kstl/scope.h:3`).
In `fltintrn.c`: `_RoundMan` asks `_ZeroTail` about the bits from the second below the
rounding bit on, so that a value three quarters of a unit above is rounded down
(9007199254740993.5); the rounding to 24 digits looks at the 24th digit itself and not at
the 25th; an exponent above `TMAX10` that "will force overflow" is brought back by
the digits behind the point; a call without a number leaves `*_EndPtr` behind the
blanks or at the start, depending on whether a sign or point followed. `NearestDouble`
therefore says "within one unit", not "the nearest". In `strtod.c`: zeros in front use
up the 18 digits, so "0.0000000000000000001" is 0; "1E" and "1E+" are taken with the
letter and the sign, although line 31 says they may be omitted together; "0E400" is NaN;
an exponent field beyond an int wraps, "1E4294967297" is 10, although the comment at line 3 sees
no need to worry about additional digits; "0.1E-2147483647" and "1E2147483648" sum up to the least
int, whose negation stays negative, is not cut to `maxExponent` and sets no ERANGE, and
the loop at line 219 then runs past `powersOf10` without end; "0.01E-2147483647" wraps to a large
exponent and overflows. `ReadsNumber` says where the loop leaves the table and what holds up
to there: that an exponent is the number's as long as the field and the sum are ints with an
opposite.

## 4. Proofs

Eight modules hold theorems, for every value of the constants. Most have one inductive
invariant `IInv` and lemmas that every action preserves it.

Four of them need induction over data (a loop over a string, a number's digits, a list or a path). The
induction theorems of the library take an operator, but two of its facts about
well-founded relations take a set: `NatLessThanWellFounded` and `WFMin`. They give
`LeastNat`, a nonempty set of numbers has a least element, and from it that a set of
numbers with 0 that is closed under successor is `Nat` (`IndexInduction`, `SetInduction`), and that a set of
sequences with the empty one that is closed under `Append` has all of them
(`SeqInduction`). What a lemma claims of all sequences is stated as the set of those it
holds for. Recursive functions are unfolded by showing that a function with their
equation exists (`LoopExists`) and that two of them agree (`LoopsAgree`).

**`CrtLifecycleProofs`**, for any threads, entries and tables: `TypeCorrect`,
`EntriesAccounted`, `RemovalFindsEntry`, `BugcheckNeedsFailure`, `TablesWalkedInOrder`, the
invariants of the run `crt_lifecycle`; `ImplementsStack`: `Spec => StackSpec`,
the refinement of `AtExitStack`.

`EntryAccounting` is not inductive as it stands: `InitList` sets the list to
empty, which would lose entries if any were linked. `ListReady` adds that nothing is
linked before `InitializeListHead` has run, and that it has run before anything else if
`_vsnprintf` was found; `CurReady` that `doexit` never holds an entry of a head that was
never initialized. `IInv` is the conjunction with `TypeOK`, `RemoveFindsEntry` and
`BugcheckOnlyWithoutCApi`. Steps that touch no entry are handled together
(`QuietSteps`), the six that do have a lemma each. `RemoveFindsEntry` is kept because
only Main removes and every other thread can only make the list longer.
The refinement maps `OnexitInsert` to `Register`, `DoexitRemove` to `Start`,
`FreeEntry` to `Finish` and the rest to stuttering; that an inserted entry is new to
the stack is `EntryAccounting`. `TablesInOrder` has an invariant of its own, `TInv`: while
the tables are walked, the calls made so far are, in order, the filled slots Main has
passed (`Passed`), and a call is made only at a filled slot.

**`KHeapProofs`**, for any pool, requests, values and threads: `TypeCorrect`,
`BlocksOwned` and `ImplementsHeap`, all that the run `heap` checks, and `DataSafe`. That data
survives says nothing of headers, and a free would damage a neighbour if blocks overlapped, so the invariant has
to describe the whole pool: `PoolOK` (blocks lie inside and apart), `Sound` (a
pointer has its tag, its size and its block in front of it), `Owned` (blocks and pointers
correspond), `DataAt` (what the caller stored), `GrowAt` and `Apart` (a realloc
under way has an old block nobody else touches, a new one nobody knows, and, once copied,
the same data in both). Three lemmas say what an allocation, a release and a write into one
block leave as it was (`MallocLeaves`, `FreeLeaves`, `WriteLeaves`); the actions use
them. `MUST_SUCCEED_POOL_EMPTY` is the only stop that remains possible.

`ImplementsHeap` is `Spec => HeapSpec`, the refinement of `AbstractHeap`. Its mapping reads the
memory: the block at a pointer holds what the cells from there on hold, so zeroing, copying
and freeing are seen by their effect. `IInv` makes the mapped heap equal to what the
callers rely on (`DataHeld`), before and after a step, and keeps it within disjoint blocks
(`DataReach`, `ReachApart`). `Take` maps to `Alloc`, `Free` to `Release`, a `realloc` in place
to a `Resize` at the same pointer and `ReallocFree` to one at a new pointer, `Store` to `Write`;
the `malloc` and the copy inside a `realloc`, during which other threads go on, are
stuttering steps (`SilentSteps`).

**`FileOpenProofs`**, for any files, handles and finitely many threads: `TypeCorrect`,
`BuffersFreed`, `HandlesOwned`, `OneWriter`, `OpenFileStays`, all that `file_open`
checks. `IInv` has three parts. `HInv` gives for every place in a call which handle the
thread has, and by whom it was opened, and that no two threads have the same.
`SInv` is the sharing, `WriterAlone` and `OpenFileExists`; it needs the places of `HInv`,
and that the share access of `ZwCreateFile` is tested against every handle opened that way
before one is added. `BInv`
turns the buffer counters into the cardinality of the threads at the places that own
one; only then can they be shown not to become negative, which is why `TypeOK` is a
consequence and not a part.

**`FileStreamProofs`**, for any even width of a word and any file length: `TypeCorrect`,
`SeeksLand` and `EofMeansMore`, all that `file_stream` checks. `SeeksLand` needs
`ToldExact`: a result of `ftell` that is not negative is the position it was taken at, if
that was below 4 GiB. It follows from `LongExact`, which does the modular arithmetic of
the cast. `EofMeansMore` (the step property `NotEofMeansMore`) needs `EndKnown`, the end
`feof` was told is not behind the end of the file however the file grew since, and
`ByteLeft`, which no call but `feof` can make claim anything.

**`ScopeResourceProofs`**: `TypeCorrect`, `ResourceInOnePlace`. The sum of `OnePlace` is
awkward to reason with; `Placed` says the same without counting and is inductive.

**`FltInProofs`**, for any strings, widths and threads: `ScannerReadsInside` and
`FirstDigitNonZero`. `DigitsStored` is the reason why the shared buffer is harmless
to termination: a thread enters `S_GETL` with an empty buffer only at a digit that is not
zero, or reaches `S_GETR`'s store with one; every store into `buf[0]`, by whichever
thread, is therefore not zero, and rounding up makes it 1 or more.

`EndsBehindNumber` (of the property `EndPtrBehindNumber`) compares a scanner that reads
one character at a time with a definition that looks at the whole string, the longest of
all prefixes that are numbers. `Where` says for each state which part of the grammar is
behind the scan (`InDigits`, `Pointed`, `InExponent`): that is what makes the step out of
each state prove that no longer prefix is a number. The lemmas `LongestMantissa`, `EndsAtMantissa`,
`EndsBeforeLetter` and `EndsAtExponent` are about strings alone; a letter whose exponent
has no digits is the case `EndsBeforeLetter`. No induction is needed: each state knows the
segment it has passed. `TypeCorrect` rests on `AppendRange`: one
digit more, with carries over three words, stays in 12 bytes.

`DigitsExact` (of the property `DigitsAreTheNumber`) is about the value, for strings of any
length: what the arithmetic is given is the number of the string, or off by at most one unit of
the last digit kept. Its invariant `AnswerInv` rests on those above. `Alone`
says that a call is in the history `overlapped` or that every other thread is outside
`_fltin`; for a call that is not in it, `OwnInv` says in three parts what it has so far:

- `Digits`, from the first character on: the digits in `buf`, `manlen` and `exp_adj` spell
  the part of the mantissa behind the scan, and the whole of it once the scan has left it;
- `Power`, in the exponent: `longpow` is the number its digits spell, or both are
  beyond `TMAX10`;
- `Result`, behind `S_END`: what is in `buf` after the rounding and after each zero taken
  off is close to the mantissa (`Close`: equal, or within one unit of the last place, if
  digits were dropped), and `man` is the number of the digits read so far.

Each part has a lemma per action (`ScanDigits`, `ScanPower`, `ScanResult` and
those named in them; `ComputeResult` for what follows). A step of another thread leaves a
call alone only if that thread enters, which makes both overlapped (`NextAlone`), or if the
call itself is outside, where the three parts hold trivially (`Outside`).
The arithmetic below is `AppendExact`: with carries over three words, `man` times ten plus a digit is
exact as long as the result fits, which `DigitsFit` gives. Powers of ten and the numbers digits
spell are recursive functions here, so their laws are proved by the induction over a set
of numbers described above.

**`StrToLLProofs`**, for any even number of values of a `long long`, any string and any base: `TypeCorrect`, `PositiveNumbersExact`, `AllDigitsTaken`,
`DigitsNeverOverflow`, all that the run `strtoll` checks, and `NegativeNumbersLost`, which
says in full what the run `strtoll_neg` shows an instance of: a number with a minus sign is
`LLONG_MIN` with ERANGE as soon as it has a digit. `IInv` says where the
scan stands at each place of the code (`AtSpace`, `AtBody`, `AtDigits`) and what the
accumulator is worth (`Accumulated`): the number read so far, or, once the cutoff test has refused a digit, a
number that is too large already. That it stays too large whatever digits follow is an
induction over the digits left; that the cutoff test refuses exactly those digits that do not
fit is arithmetic on a quotient and a remainder.

**`PathObjectProofs`**, for paths of any length over any names: all that the run `path` checks.
The one idea is that `Pruned` and `Follow` are two loops over the same segments. For
an absolute path they are the same loop (`AbsolutePruned`), so what is left is where
the path leads. For a relative path what is left is some `..` followed by names
(`Climbing`, proved in `PrunedClimbs`), and following it leads where the whole path
leads (`FollowPruned`), since a `..` takes back the name in front of it from any directory.
`Shape` lists the four forms that `Rebuild` can give the remainder; `ShapeFacts` says of
each that it is read back as the same remainder, so `sanitize()` is idempotent. `FollowConcat`
(following a path, then another) gives `append`, `up`, `absolute` and `path_sanitize`.

Assumptions used are those named in the modules: `NoEntry` is no entry and Main no worker;
sizes plus a header do not wrap (`RequestAssumption`); values are natural numbers; threads
that open files are finitely many (`ThreadAssumption`); a word and a `long long` have an even
number of values; the null resource is no resource; digits of
a buffer are at least one; names are not empty and no dots, and a directory is made of names
(`FileNameAssumption`, `PathAssumption`). `WidthAssumption` of `Ld12` says besides `H > 0`
that `B`, which is `2^H`, is positive, which is true of every `H` and which
the provers cannot find. `DigitsFit` of `FltIn` says that the digits kept fit into 12 bytes; in
the code they are 24, and 10^24 is less than 2^96. TLC evaluates both like the others.

Only model-checked: liveness (`RegisteredRuns`, `UnloadEnds`, `CallReturns`; outside the
prover's reach) and three properties about values: `NearestDouble`, `MulNearlyExact` and
`StrToDReadsNumber`. They speak of quotients by powers of two that depend on the data, for
which the provers have no laws (not even that `2^(n+1)` is `2 * 2^n`), and the
first two hold within error bounds that depend on the widths. They are checked by the run
`fltin`, at the widths of section 3.

## 5. Not modelled

Formatting and `vsnprintf` (the kernel does it; two threads that resolve the pointer at
once store the same address); the rounding of `kstrtod`'s double arithmetic;
`errno` as a variable that threads share (the models say who stores ERANGE, nobody reads it);
`time` and `clock` (one kernel query); `_init_cwd` (registry I/O); the 512-byte
limit of path buffers; `filename`, `extension`, `stem`; `scope_exit` (one flag); the
text of `strerror`; the `float` and `long double` variants of the macros of `fltintrn.c`,
which are not compiled; glue that only satisfies the linker. Requests whose size wraps,
misuse of `free` and copies of a `scope_resource` are excluded by assumption.

## 6. What could follow

In this order:

1. A `FileStream` shared by two threads; the position the kernel keeps between two calls.
2. `filename`, `extension` and `stem` on `CppPath`; the length limit of `path_sanitize`.
3. Laws of `2^n` for the shifts of `Ld12`, by way of a recursive function as `Ten` is for ten, and
   with them the error of one turn of `ld12mul` for any width.
4. The values of `KStrToD`: the part that is about digits and places, without powers.
