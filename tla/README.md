# Verification of rv32-emulator

TLA+ models of the emulator's devices, of the loop that drives them and of the
library its guest programs are built on, checked with TLC on small instances
and, for the properties that matter most, proved with TLAPS for every value of
the constants. Paths below are relative to the repository (`src/main.rs`,
`c_test/echo_out.c`); the CPU itself is the external crate riscv-vm.

## 1. The system

| Part | State | Operations | Talks to |
| --- | --- | --- | --- |
| UART, `src/devices/uart.rs` | 256 registers under a mutex, a condition variable, an atomic interrupt flag; a thread with a one-byte buffer | thread: read stdin, wait for room, store, raise the flag, show the byte; guest: `load`, `store`; loop: `is_interrupting` | stdin and stdout, the loop, the guest |
| PLIC, `src/devices/plic.rs` | priority, pending, enable, threshold, claim | `update_pending` (loop), `write`/`clear_pending` and `read` (guest), `update_claim`, `is_enable` | the loop raises, the guest claims and completes |
| CLINT, `src/devices/clint.rs` | mtime, mtimecmp, msip | `read`, `write`; `increment`, which nothing calls | the guest stores, the loop tests the timer |
| Disk, `src/devices/viritio.rs` | status, queue registers, notify, interrupt status, id, cached queue address, image; the virtqueue is in guest memory | `write`, `read`, `reset`, `is_interrupting`, `disk_access` | the guest's driver, the loop |
| Loop, `src/main.rs` | none of its own: it is the order of calls | one `step` of the CPU, then `check_ints`, then `take_trap` | everything |
| Guest heap, `c_test/mem.c` | the list of headers in memory, `mem_head`, `heap_end` | `sbrk`, `malloc`, `free`, `realloc`, `calloc` | every guest program |
| Guest strings, `c_test/string.c`, `standard.c` | a structure (data, length, capacity) and a buffer, both on the heap | `string_new`, `append`, `grow`, `shrink`, `free_str`; `get_string`, `str2int` | the heap, the UART |
| Formatted output, `c_test/printf.c` | none between calls; in a call the flags, width and precision of a directive, the index into the output, the place in the argument list, a conversion buffer of 32 characters | `printf`, `sprintf`, `snprintf` and their `v` forms, all `_vsnprintf` | the caller's buffer or the UART |
| Guest programs, `c_test/` | C locals | `echo_out.c` polls the UART; `fib.c` reads lines until it has a number; the rest exercises instructions | the UART, the library |

`check_ints` runs after every instruction: (1) the timer shortcut, before any
mask; (2) return if the mode's enable bit is 0; (3) ask the UART, then the disk,
whose pending notify is consumed and served there and then; (4) raise *one*
source in the PLIC and post SEIP; (5) take the first interrupt both posted and
enabled, and clear its bit.

What is hard here, and what makes each part correct:

* **UART.** Two threads share two registers, and the flag is read without the
  lock. Right means: bytes reach the guest once and in order, no wake-up is lost,
  an interrupt is never ahead of its byte, and the guest's check of LSR still
  holds when it loads RHR.
* **PLIC.** One claim register serves two sources whose rounds overlap, and the
  array is laid out by an unusual rule. Right means: the array confuses no two
  sources and the claim register shows nothing that was completed.
* **Loop.** A request (a raised interrupt, a disk notify) and the step that
  serves it are many instructions apart, with traps, masks and device stores in
  between. Right means: nothing is lost, nothing is served twice, masks hold
  (the timer's shortcut and `mideleg` are where they do not).
* **Disk.** Driver and device share rings and count separately, across wraps and
  resets. Right means: requests are carried out once, in order, and given back.
* **Guest library.** An allocator with a layout of its own and strings that
  ignore its failures. Right means: pieces never overlap, stores stay in their
  piece, a line that is read is the line that was typed; a piece is as large as
  it was asked for and freed memory comes back (neither is so).
* **Formatted output.** Flags, widths, precisions and truncation combine in
  thousands of ways, and the digits, zeros, mark and sign of a number share one
  buffer. Right means: the number that is read is the number that was printed, a
  field is as wide as it should be, and nothing is stored behind the count.
* **All together.** The UART never lowers its line, so the kernel lives in a
  storm of interrupts: does the disk still get through?

## 2. The modules

Abstract specifications have names ending in `Port`; `MC*` modules hold the
values of constants for TLC, `*Proofs` the theorems. A definition whose comment
says "Faulty variant" is not used by any specification: it is a plausible bug
that the properties must detect, recorded in `PROJECT.json` under `mutants`.

```
UartPort   <= refines =  Uart  -> UartEcho         <- UartProofs
Clint, Plic, UartPort -> RunLoop -> RunLoopOs      <- RunLoopProofs
        Plic <- PlicProofs <- RunLoopProofs
DiskPort   <= refines =  Virtio                    <- VirtioProofs
HeapOps -> StringOps -> GuestHeap                  <- GuestHeapProofs
                     -> GetLine                    <- GetLineProofs
FormatOps -> Printf                                <- PrintfProofs
NatTheorems <- GetLineProofs, PrintfProofs, VirtioProofs
```

**Uart.** `mem` keeps the registers RHR/THR, LSR and one scratch register, a
byte being the set of its bits. `pc` is where the input thread is: `read` (line
73), `lock` (76-78), `wait` (79), `stored` (between 82 and 84). A critical
section is one action except the last of the thread, which is split at the flag:
`is_interrupting` does not take the lock. While `pc = "stored"` the thread owns
the mutex and `MutexFree` blocks the guest. `ReadEof` is `read` returning
`Ok(0)`: the buffer keeps its byte, and the arm `Ok(_v)` goes on as usual.
`SpuriousWake` is what a condition variable may do. What THR prints is a
character, not a byte (`value as u8 as char`): `Utf8`. `typed` and `received`
record what the user typed and what the guest loaded while LSR announced it.

**UartPort.** A one-place buffer between keyboard and guest with an interrupt
line: `Type`, `Raise`, `Fill`, `Receive`.

**UartEcho.** `c_test/echo_out.c` on the full device: `Poll`, `Load`, `Put`.

**Plic.** One action per arm of `write`, and `UpdatePending`. `Complete` has the
guest's wrong completions too: 0, ids nobody raised, ids above 31 whose shift
wraps. Two history variables: `outstanding` (raised, not completed) and
`overwritten` (words of the pending array the guest stored to).

**Clint.** The stores and the test of `main.rs:82-96`. A store to either half of
a register replaces all of it, as in the code.

**RunLoop.** `phase` alternates between `step` and `check`. A step is any
instruction of any guest: `WriteEnableBits`, `WriteMie`, `WriteMip`,
`EnterHandler`, `Return` for the hart (external), and the devices' stores, the
disk's u32::MAX (no notify) and the PLIC's pending array among them.
`CheckInts` is the closure: `TimerShortcut`, `CheckDisabled`, `CheckEnabled`, the
three ways it can go. The UART is `UartPort`, the disk its notify register;
`notified`/`settledUpTo` count its stores and how many of them the last
`disk_access`, or the guest's last store of u32::MAX, came after. `taken` is what
the last check took; `owed` that an external interrupt was raised and not taken.

**RunLoopOs.** The same loop with a disciplined guest, a kernel shaped like the
xv6 the README names as its goal: supervisor mode, both interrupts delegated, an
interrupt handler that claims, looks at the device, completes and returns, one
disk request in flight, and user programs. `Main` and `Handler` are the kernel;
`OsCheck` is `CheckInts` plus where the trap takes it.

**Virtio, DiskPort.** A descriptor chain of three is one record: what it asks
and of which sector. `HeadIndex` is the address arithmetic of lines 545-549 over
a ring of halfwords. `Image` has the sectors the disk has; a driver may ask for
another. `QueueAddress` is cached or computed; one bit says whether
the registers it is computed from are set. `IsInterrupting` and `disk_access`
are one action, as in `check_ints`. `stopped` records the panics (`Panic`: an
assert, or a sector beyond the image). The driver may
`Reset` the device at any time and gives up what is in flight; the device keeps
`queue_notify`, so `stale` says that a pending notify is one of before the reset,
and `misfired` that an access answered it: there the model ends. The indices of
the rings are halfwords (`IndexMod`), the device's `id` is not. `DiskPort`
carries out requests in the order in which they were made; `Forget` is what a
reset does to it.

**HeapOps, StringOps.** The calls of `mem.c` and `string.c` as operators on a
heap (`end`, `head`, the headers by address) and a string record. The layout is
that of the 32-bit target: a header is 16 bytes long, its array starts at byte
13. `malloc` returns the array and `free` goes back by 16, so what `free` sets
    is not the flag but the second byte of the size (`SetSecondByte`), and what
    `realloc` reads as the size is made of `prev` and one byte of the size
    (`SizeSeen`). A word has four bytes of `Base` values each and the heap
    starts in its middle, as at 0x80000000, so that `sbrk`'s sum and `calloc`'s
    product wrap where the code's do (`NoRoom`, `Backwards`). These structures
    are not aligned; the model takes such accesses to be served as written,
    which is the external crate's affair. `extent` is a history field: the bytes
    set aside behind a header.

**GuestHeap.** Any guest program: it calls what it likes, in any order, with
pointers it owns, and any call may find no memory. `raw` has the size that the
program asked for with each pointer. A store that leaves its block (`stray`) ends
the model, and so does one outside the heap (`faulted`): a walk from
`mem_head = -1`, a `realloc` that copies to NULL, a `calloc` whose product moves
the heap backwards.

**GetLine.** One program, `fib.c`, with the bytes of the line: `NewLine`,
`ReadChar`, `EndLine` are `get_string`, `Convert` and `Junk` are `get_input`.
`text` is what was stored in the buffer and what survived each move. Polling the
UART is `UartEcho`'s subject; here a character is what `ReadChar` chooses. A NUL
is not among them: a line ends at one, as C strings do.

**FormatOps, Printf.** `FormatOps` has what one directive prints: the digits in
the order in which `_ntoa_long` puts them into its buffer, the zeros, the mark
of `#`, the sign, and `_out_rev`. `Printf` is the loop of `_vsnprintf` over a
format that is chosen while it is read, one character of it an action
(`Percent`, `TakeFlag`, `WidthDigit`, `WidthStar`, `Point`, ...), one action for
each kind of specifier. One text is handed to every function of the family at
once: to a buffer for each count of `snprintf`, the largest of which is
`sprintf`'s, to a NULL buffer (`OutNull`), and to the screen. `va` counts the
words taken from the argument list and `passed` those the caller put there; this
build leaves floats and 64-bit numbers out (`debug_config.h`), so their
directives take nothing (`LongLong`, `Float`). After that `%s` may follow a
number (`StringAstray`), and a format that ends inside a directive is read on
behind its end (`CutOff`): there the model ends. Upper and lower case letters
are one, and all the ordinary characters of a format are one.

## 3. What is checked

| Run | Instance | States | Shows |
| --- | --- | --- | --- |
| `uart` | 3 bytes of 2 values, 2 reads at end of file, any guest | 2 240 | order, no lost wake-up, no interrupt ahead of its byte; refinement of `UartPort` |
| `uart_echo` | 3 bytes out of 5 chosen at the borders of a-z and with bit 7 | 4 911 | what is typed is printed, once, in order, capitalised, as the character of its number; every byte eventually |
| `plic` | sources 1 and 10; completions of 0, 1, 8, 10, 33 | 26 112 | pending exact, claim honest |
| `loop` | MTI and SEI, one byte, two notifies, any guest | 5.69 M | nothing posted is lost; a notify is served once or withdrawn by the guest |
| `os` | two bytes, three requests, one software interrupt | 3 524 | claims, completions and liveness under the interrupt storm |
| `disk` | 9 requests (both rings of 8 wrap, and indices of 3 bits), one reset at any time, either order of set-up, one sector of the image and one beyond it | 106 466 | refinement of `DiskPort`, used ring, liveness |
| `guest` | requests of 0, 4, 12 and 16 385 bytes, a heap of 104, bytes of 16 values | 383 014 | pieces apart and as large as asked (but for `realloc` and `calloc`), headers intact, capacities true, stores inside |
| `line` | lines of at most 4 out of 0, 1, 2, `-` and a letter; a heap of 160; `int` of 6 bits, at most 12 accepted | 658 175 | the line read is the line typed; what is accepted and what is refused; the three algorithms |
| `print` | formats of at most 6 characters, widths and precisions up to 13, a word and a conversion buffer of 12 bits and characters, counts of 0, 1, 3 and no limit | 500 186 | truncation and terminator, numbers read back, fields filled |

The bounds reach the cases in question. Two values and three bytes fill every
stage of the UART's pipeline (received, shown, held) with distinguishable bytes
and leave one more read to disturb them. Two sources are all the emulator has.
The values completed share a word (8, 10) or low bits (1, 33) with a source.
With two notifies one can be served and another pending; with two bytes a byte
waits behind the storm of the first. Nine requests take both rings past their
wrap at eight, and the indices past theirs, which is at eight here and at 2^16
in the code (`VirtioAssumption`: a multiple of the ring's size). A heap of 104
bytes holds three pieces of 12 and runs out between the two requests of a call
that makes two; the product 12 * 12 is a `calloc` that fails first of all; 12 is
also the size of a string's structure. With bytes of 16 values a word has 65 536
and its upper half, where the heap lies, 32 768: 16 385 fits nowhere, four times
it wraps to 4 (a `calloc` that is given less than it asked for), 12 times it to
12 and itself times itself to 32 769, with which `sbrk` wraps and goes
backwards. In `loop` the guest stores to word 0 of the pending array,
where a source's bit is. A heap of 160 holds at most two lines and
runs out in the next, at any request of it; four characters make the buffer move
three times; two digits wrap an `int` of 6 bits as ten wrap one of 32. In
`print` everything is scaled together: a word has as many bits as the conversion
buffer has characters, as 32 and 32 in the code, so that `%b` can fill it, and
three digits in base 16, so that a pointer's field can be one wider than its
number; widths go from below the number's length to beyond the buffer; six
characters hold a directive with a flag, a width and a precision, or two
directives, so that what follows a skipped one is seen. `CHECK_DEADLOCK FALSE`
is set where the system may really stop: `Stop` in `RunLoop` (the loop ends when
`step` fails), in `Virtio` the panic on FAILED and the bound on requests, in
`GuestHeap` a stray store, in `GetLine` and `Printf` the end of the program.

Three runs show that the code does not do what a comment next to it says
(`findings` in `PROJECT.json`):

* `uart_eof` - after stdin closes, the last byte is presented as new for ever
  (`uart.rs:74`).
* `os_storm` - the UART's flag is never cleared, so SEIP is posted by every
  check and a software interrupt starves (`uart.rs:98`, the order at
  `main.rs:181-188`).
* `disk_order` - the available ring is indexed by bytes and by the driver's
  index, so with two chains the wrong request is carried out (`viritio.rs:546`).

Other disagreements noted while modelling and not given a run of their own. The
models do what the code does, so that the properties above hold with them:

* Loop: the timer shortcut returns before the test of xIE (`main.rs:94`, against
  the text quoted at 100-101), so it traps a hart that has its interrupts
  disabled, a handler that has not saved what it returns to included; `mideleg`
  is not read (`main.rs:164`, against 159-163), so M takes what it delegated; the
  timer test masks `msip` with a bit of `mip` (`main.rs:93`, against 90-91), so a
  guest that stores 1 gets no interrupt.
* UART: a byte of 128 or more is printed as the two bytes of a character
  (`uart.rs:149`), so a text typed in UTF-8 is not echoed as it was typed.
* PLIC: a claim does not clear the pending bit, the completion does
  (`plic.rs:117`, against 77-78; `PendingExact` says what the code does);
  completing one source clears the claim of the other (`plic.rs:119`, against
  85-86); priorities and enables do not gate SEIP, and a source of priority 0 is
  claimed (`main.rs:152`, `plic.rs:126`, against 25-26 and 73-74); the
  pending bits are not at the documented offsets (`plic.rs:33`).
* Disk: writing INTERRUPT_ACK does not clear the status (`viritio.rs:121-122`,
  `497`); the DRIVER_OK test is never true (`viritio.rs:504-505`, harmless,
  because the address is then computed at each access: `AccessSucceeds`); a
  driver that waits for the status to clear would wait for ever; a sector that
  the image does not have stops the emulator (`viritio.rs:520`, `524`), and one
  of 2^23 or more wraps to one that it may have (`viritio.rs:586`, not in the
  model); a notify of the value u32::MAX is none and withdraws one that is
  pending (`viritio.rs:363`, `496`); a reset leaves a pending notify
  (`viritio.rs:353-359`), so an access may run on the queue that was given up
  (`misfired`).
* CLINT: mtime stands still (`clint.rs:23-24`).
* Heap: `free` does not find the flag of its block (`mem.c:145`, against 106),
  so that nothing comes back: `HeapOK`, section 4; `realloc` looks for the size
  three bytes too low and hands back almost every piece for a larger request
  (`mem.c:163`, against 164; `Apart` names these pieces); a `realloc` that finds
  no room for the new piece copies to NULL, or, for a piece it takes to be empty,
  frees it and returns NULL (`mem.c:168-170`); `calloc`'s product wraps
  (`mem.c:224`) and gives less than was asked for; the heap starts where the
  programs are linked (`mem.c:38`, `c_test/Makefile:21`).
* Strings: when the heap runs out in the middle of a line, `string_grow` gives
  up silently and the character is stored behind the buffer (`string.c:101`,
  `148`, against `standard.c:42-43`; `Overrun` in `GetLine`); `string_shrink`
  never shrinks (`string.c:110-114`: the smaller capacity makes `string_grow`
  return); `strstr` finds only a needle that the haystack ends in
  (`string.c:61`); a number too large for an `int` is accepted when its
  remainder is small (`standard.c:23`); a line that is no number makes
  `get_input` load from NULL (`fib.c:53`); MAX_INPUT is accepted where the message
  asks for a smaller number (`fib.c:60`, against 61).
* Formatted output: with `#` and a field just as wide as the number the mark
  replaces digits (`printf.c:326`: `%#4x` of 0x1234 prints 0x34, and `%#p`
  always loses the first two digits; `MarkEatsDigits`); a sign is dropped when
  zeros fill the buffer (`printf.c:347`; `RoomForSign`); `%hhd` of -1 prints
  255, because a char of this target has no sign (`printf.c:858`); `%f` prints
  the letter f and leaves its argument to the next directive (`printf.c:988`); a
  format that ends in a directive is read beyond its end (`printf.c:988`);
  `_strnlen_s` reads one character behind a string's precision (`printf.c:258`);
  `fctprintf` stores its text over its own wrapper structure and never calls the
  function (`printf.c:1043`, against `debug.h:282-290`).

### Fairness

* `EchoSpec`: weak fairness of the input thread (an operating system thread
  that is never cancelled) and of the guest (the loop runs one instruction after
  another). Nothing is assumed of the user or of spurious wake-ups.
* `OsSpec`: weak fairness of an instruction and of a check, which is the `while`
  of `main.rs:256`, and of the input thread; strong fairness of the kernel
  enabling interrupts (`IntrOn` or a return to a user program), a promise of the
  guest: it may switch them off for a while, not for ever.
* `Virtio!Spec`: weak fairness of `DiskAccess`, because the loop runs it in the
  next check with interrupts enabled, and of the driver's `Collect`.

## 4. What is proved

**UartProofs.** `IInv` is inductive: types, `InOrder`, `SleepsOnlyWhenFull`,
`FirstInterruptHasByte` and `ReaderState`. `InOrder` alone is not: `ShowByte`
preserves it only because RHR still holds the thread's byte while the thread
owns the mutex, and `StoreByte` only because end of file comes after the last
byte; both facts are `ReaderState`. From it: `TypeCorrect`, `Inductive`,
`Order`, `NoLostWakeup`, `InterruptWithByte` for every number of bytes, set of
registers and guest, and `ImplementsPort`: until stdin is closed each step of
the two threads is a step of `UartPort` or invisible to it (`StoreByte` is
`Raise`, `ShowByte` is `Fill`, `LoadRhr` is `Receive` when LSR shows a byte).

About the echo program, for any number of bytes: `LoadChecked` and `EchoCorrect`
(which ties the bits that `Utf8` prints to the arithmetic of UTF-8).
`EchoInv` adds to `IInv` that stdin is open, that the check of LSR still holds,
and that what was printed is what was loaded but for the byte in the program's
hand (`Echoed`). `CapitalCode` ties the bits of a byte to the codes 97 to 122.
`EchoUsesPort` composes the two: each step of the program and of the threads is
one of `UartPort`.

**PlicProofs.** For every set of sources below 32 and every completed value
below 128: `PlicTypeCorrect`, `ClaimNotStale` and `PendingFaithful`. The last
rests on `BitInjective`: `(id / 4, id % 32)` determines the id below 128.

**RunLoopProofs.** For every set of interrupts, every delegation and every
guest: `LoopTypeCorrect`, `ExternalNotLost` and `NotifyServedOnce`. Their
conjunction `LoopInv` is inductive; `FirstIsMember` carries the choice of the
interrupt to take. `settledUpTo <= notified` is the part of `NotifyAccounted` that
a store needs.

The loop composes a device that is proved about by itself, and the composition
is a theorem. `LoopUsesPlic`: every step of the loop with any guest
is a step of `Plic` or leaves it alone (`check_ints` raises 0 or one of the two
sources, `PolledIsSource`), so `ClaimNotStale` and `PendingFaithful` hold in the
machine (`MachineClaims`). The UART's half is in `UartProofs`: the loop takes
`UartPort`'s own actions, and `ImplementsPort` shows that the device with its
threads stands behind that port.

About the kernel, for any number of bytes, requests and software interrupts:
`ClaimHonest`, `CompletionNotHidden`, `HandlerAlone`. `OsInv` has the reasons: a
check that posts SEI takes it at once, so SEI never stays posted and the claim
register is that of the source just polled; the handler runs masked; and a
request the kernel waits for is announced, shown or claimed (`RequestOnItsWay`),
because the disk is polled after the UART and its number is the one kept.
`KernelIsGuest` shows that every step of `RunLoopOs` is a step of `RunLoop`: the
kernel is one of its guests, and the module neither adds to the loop nor leaves
an effect of it out. It needs the kernel's invariant, the loop's and the PLIC's
together (`MachineInv`), because a handler that completed something else than it
claimed would not be covered: what it holds is outstanding
(`ClaimedOutstanding`). From it, `KernelCompletes`.

**VirtioProofs.** For every number of requests, resets and chains,
`TypeCorrect`, which needs `Answered`: never more answers than requests, so that
a reset keeps as many requests as were answered. For one request in flight at
head 0, and every size of the indices: `UsedCorrect`, `AccessCorrect` and
`ImplementsPort`. The inductive invariant `RoundInv` says where a request is on
its round (`Idle`, `Announced`, `GivenBack`), that both rings hold nothing but
head 0, so that the access finds it at the wrong byte too, and that what the
driver sees is `id` modulo the halfword (`NextIndex`). With two chains in flight
the order fails (`disk_order`); what holds for every driver, also then and after
an access that misfired, is `DiskRemembers`: a read transfers what the last
request for its sector transferred, or the image's first content, and a write
what it names. `Latest` says which request that is, `DataInv` ties it to the
image.

**GuestHeapProofs.** For every size of the heap, every set of sizes asked for
and every width of a byte: `PiecesApart`, `HeadersIntact`, `CapacityKept`,
`StoresInside`, `FaultsFromStart`, `GuestTypeCorrect`. The inductive invariant
has three parts. `HeapOK`: the blocks tile the heap from its start to its end
and none is free, so that `malloc`'s walk finds nothing and each piece is new.
`Owned`: each pointer the program holds leads to a header that still says what
it was made with, no two holders share one, and the piece behind it has the size
asked for unless `realloc` read a larger one or the size is no word; `free`
breaks exactly the header of what is given up. `Flags`: no store has left its
block unless a call ran out of memory. Each operator of `HeapOps` and
`StringOps` has a lemma that says what it keeps; the step of the program then
follows from the lemmas alone.

**GetLineProofs.** `LineIsTyped`, for every heap, line and set of digits. The
invariant needs nothing of the heap: a string's `length` is the number of
characters typed, a move keeps that many bytes (`MovedBegins`), and a NUL stands
behind them (`Begins`, `Terminated`). A store behind the buffer ends the model
(`overrun`), whatever the heap did.

`AcceptedAsTyped` and `FibsAgree` are about what `str2int` and the algorithms
compute, for every width of an `int`. `str2int` goes from the first digit to the
last and may wrap at each; `Whole` is the same without wrapping, and the loop
keeps its remainder modulo 2^w (`DigitReduced`, `Str2IntIs`). What the line
says, `Numeral`, adds the digits from the last to the first, each by its place;
by induction on where the line is cut it is the same number (`WholeIsSum`), and
`Signed` moves its remainder back to it if an `int` can hold it. `Pairs` is the
loop of `fast_fib` without an end; both recursions are its first components
(`FibIs`, `CursedIs`).

**NatTheorems.** The library's induction theorems take an operator, which the
provers cannot instantiate. The same induction over a *set* of numbers is first
order: `LeastMember` follows from the library's well-founded order of the
naturals, `Induction` and `InductionUpTo` from it, and `RecursionExists` says
that a function defined by recursion exists, for a step given as a function.
`Division`, `RemainderUnique`, `Remainder` and `RemainderOfSum` are the
arithmetic of `%` that the solver does not do by itself.

**PrintfProofs.** For every format, every set of counts, words, strings and
stars, and every size of the types and of the conversion buffer: `OutputBounded`
and `FieldsFilled`. Their conjunction with the types (`IInv`) is inductive:
`TextBounded` needs that a text is shorter than the largest count, so that
`sprintf`'s buffer has all of it to compare the others with, and `FieldFilled`
needs that a directive just carried out still has its flags and its width. The
lemmas about `FormatOps` bound the length of each stage of a number (the digits,
the zeros, the mark, the sign, the blanks); those about the output say what one
string handed to a buffer changes, for all functions at once.

`NumbersReadBack` follows the value through `_ntoa_long`. Its digits are the
remainders of successive quotients (`ChainDigits`: read from the last, digit by
digit, they give back what is left above them plus what was read, by induction);
they end because a word has no more binary digits than the buffer has characters
(`WordFits`, an assumption that holds of the code's 32 and 32). What is put in
front of them keeps the number as long as it adds zeros and characters that are
no digits; only the mark of `#` may overwrite some, in the cases of
`MarkEatsDigits`. `_out_rev` turns the buffer round and pads it with blanks
(`OutRevShows`). The sign is there exactly for a negative value when there is
room for it (`NtoaLongSign`). The invariant is stronger than the property: the
precision that a number was printed with is still the one parsed
(`PrecisionKept`).

The assumptions are the named `ASSUME`s of the modules: the sources are ids 1 to
31, sources can be completed, SEI is in play, only S-mode interrupts can be
delegated (for the kernel, SEI and SSI are, and both are in play), LSR and RHR
are among the registers, and no guest stores to LSR (read-only on a 16550, and
no program of the repository does); for the heap, that it is far smaller than
half the address space (`HeapAssumption`: 4 MiB and 2 GiB in the code) and that
no single request comes near that half (`SizesAssumption`; the products that
`calloc` forms may); for the output, that a text is shorter than 2^32 - 1
characters (the guard of `Emit`) and that the conversion buffer holds a word's
binary digits (`WordFits`); for the echo program, that a guest may transmit any
byte; for the disk, the driver of one request at a time.

Some attempts at a proof failed because the statement was wrong. Two properties
were false, and TLC found the counterexample once it was given an instance that
reaches it: `AcceptedIsTyped` drew the bounds of an `int` wrongly, and
`MarkEatsDigits` left out a pointer whose field a sign makes narrower (`%+#p`),
which needs a word of three digits in base 16 to show. Two assumptions were
missing: `WordFits`, since a conversion buffer shorter than a word loses the
first digits, and that the kernel's interrupts are in play (`OsAssumption`). The
runs `line` and `print` now have instances that reach these cases.

Only model-checked: the five liveness properties (`EveryByteEchoed`,
`RequestCompletes`, `ByteReceived`, `SoftwareTakenWhileQuiet`,
`EveryRequestCarried`), because the prover handles neither fairness nor ENABLED.
Every other property of a passing run is a theorem: `UsedInFlight`,
`AccessSucceeds` and `PortSpec` of the disk for a driver of one request at a time
(which is what the run `disk` instantiates), the others without restriction.

## 5. What is not modelled

* The hart, the bus, DRAM and paging: the external crate. `Take`, `Return` and
  the CSR writes are modelled from how the loop and the guest use them.
* `main.rs:207-254`, the step mode: a debugger prompt that never calls
  `check_ints`. `main.rs:265-292` and `cmd.rs`: the command line.
* `Clint::increment`: called from nowhere.
* In the disk: merging of stores narrower than a word, the arithmetic of
  `VirtqueueAddr::new`, config space, feature words, the panic of QUEUE_SEL, and
  the bytes of a sector (one value each).
* Panics of a build with overflow checks, where a release build wraps.
* In `printf.c`: what `debug_config.h` compiles out (`_ftoa`, `_etoa`,
  `_ntoa_long_long`), `fctprintf`, which no program calls, `puts` and `fputs`
  (loops over one string), and the stubs of the FILE functions.
* `c_test/`: the single-instruction tests have no state
  of the emulator's own. Of the library: `memmove`, `memcmp`, the loops over C
  strings, `debug_heap`'s printing and the stubs of `standard.c` (`fopen` and the
  like, which return constants).

## 6. Plan

In order; the first nine are done.

1. The UART, its port and its proofs: the only place with real threads.
2. The PLIC and its proofs.
3. The loop over CLINT, PLIC, UART port and disk notify, with any guest and with
   an xv6-like kernel; its safety proofs.
4. The disk, its port, its wrap, its set-up.
5. The guest library: the heap and the strings under any program, with proofs,
   and a whole program on top of them.
6. Formatted output, with proofs of its bounds.
7. A driver that resets the disk with a request in flight, and the proofs about
   `Virtio`, the refinement of `DiskPort` among them.
8. Proofs about the echo program, the kernel on the loop and the line.
9. Proofs about what is computed (`str2int`, the Fibonacci algorithms, the digits
   of `_ntoa_long`), by induction over sets, and about the compositions: the loop
   over the PLIC, the kernel on the loop, the echo program on the port; the
   contents of the disk.
10. A disk driver with several chains whose heads the device can find; stores
    narrower than a word.
11. `Clint` with `increment` and both halves of the 64-bit registers: when MTIP
    may change, and what a guest that programs the two halves gets.
12. `memmove` with overlapping pieces, byte by byte, and the loops over C
    strings against reference definitions.
