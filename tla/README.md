# Formal models of the CHICKEN runtime

TLA+ models of the runtime of this CHICKEN Scheme system (a CHICKEN 6 with
delimited continuations and a WebAssembly port): its threads, signals, memory,
control, sockets, numbers and data, checked with TLC and, for the scheduler,
signals, finalizers, dynamic winds and delimited control, TCP ports and TCP connections, proved with TLAPS. Line numbers
refer to the sources beside this directory (`src/`); `PROJECT.json` maps every
definition to them.

## 1. The system and its parts

| component | source | state it keeps | operations | modules |
|---|---|---|---|---|
| scheduler, threads | `scheduler.scm`, `library.scm` 7192-7262 | slots of each thread, ready queue, `timeout-list`, `fd-list`, current thread, saved registers | create, start, yield, sleep, join, kill, block for I/O, lock, unlock, condition variables, `##sys#schedule` | `Scheduler`, `ThreadSystem`, `SchedulerRefinement`, `SchedulerProofs` |
| interrupts, signals, event queues | `runtime.c` 4520-4600, 5230-5290, 14040-14060; `library.scm` 7264-7350 | queue of pending interrupts, `handling_interrupts`, stack limit, event queues | `C_raise_interrupt`, stack check, `handle_interrupt`, interrupt hook, `make-signal-handler`, `wait-for-next-event` | `Signals`, `SignalsProofs` |
| finalizers | `runtime.c` 1469-1481, 3583-3770, 12452-12502; `library.scm` 6487-6519, 7684-7807 | list of registrations, pending table, working thread, `exit-in-progress` | register, collect, run pending, `(gc #t)`, exit | `Finalizers`, `FinalizersProofs` |
| memory, garbage collector | `runtime.c` 3245-4526, 10481-10787, 12722-12766 | nursery, two heap halves, mutation stack, weak chains, scratch space | allocate, mutate, minor and major collection, resize, become | `Memory`, `Collector`, `MemorySystem` |
| calls, values, continuations | `runtime.c` 3510-3549, 8006-8287 | the next call, words left on the stack, `stack_check_demand` | apply, values, call-with-values, call/cc, collect, switch | `Calls`, `CallSystem`, `CallProofs` |
| dynamic winds, delimited control | `library.scm` 4225-4413, `continuation.scm`, `core.scm` 2039-2198, `runtime.c` 8113-8132 | `##sys#dynamic-winds`, `##sys#dc-stack` | dynamic-wind, call/cc, reset, shift, resume, continuation-return | `DelimitedControl`, `DelimitedControlProofs` |
| TCP ports | `tcp.scm` 365-601 | input buffer, output buffer, their positions, closed flags | read, peek, char-ready?, read-line, read-buffered, write, flush, close | `TcpPorts`, `TcpPortsProofs` |
| TCP connections | `tcp.scm` 603-678 | listener, sockets, why a thread was woken | accept, connect | `TcpConnections`, `SocketProofs` |
| debugger stub | `dbg-stub.c` | units and their event numbers, breakpoints, mask, what of the stream is read | register, event, requests of the client, interrupt | `Debugger`, `SocketProofs` |
| numeric tower | `runtime.c` 5686-5900, 6795-7275, 8288-11330, 11385-12083, 13127-13269, 14203-14229; `chicken.h` | none: digits of bignums | arithmetic, bits, comparison, division, gcd, conversion | `Bignums`, `Numbers`, `NumberSystem` |
| strings, UTF-8 | `utf.c`; `library.scm` 1709-2100, 8601-8638 | bytes, count, index and offset of the last lookup | ref, set, fill, copy, substring, compare, case, read | `Utf8`, `Strings`, `StringSystem` |
| vectors, locatives | `runtime.c` 5977-6660, 7738-7917, 12797-13002 | elements; object, offset and kind of a locative | ref, set, range checks, locatives | `Vectors`, `VectorSystem` |
| lists | `runtime.c` 5010-5057, 5364-5384, 5809-5974, 6367-6429, 7423-7539, 13684-13707 | pairs | length, tail, equality, member, assoc, get-keyword | `Lists`, `ListSystem` |
| symbol tables | `runtime.c` 2545-2812, 4405-4471, 13646-13681 | chains of buckets, values and properties of symbols | intern, look up, set, properties, collect | `SymbolTable`, `SymbolSystem`, `SymbolProofs` |
| literals | `c-backend.scm` 740-769, 1481-1565; `runtime.c` 2980-3061, 13271-13477 | none | encode, decode | `Literals`, `LiteralSystem` |
| process ports, string and stream ports, compiler, expander, evaluator, other libraries, tools, notebook, Windows port | see `PROJECT.json` | | | not modelled |

How they interact. Scheme threads run inside one operating-system thread. A
procedure is a C function that never returns: it calls the next one with a vector of
arguments (`Calls`) on a stack that is the nursery of the collector (`Memory`), and when
the stack is full the collector copies what is alive into the heap and goes on from the
saved arguments. Code compiled with interrupts loses the processor only at such a
*stack check*; the timer and the signals of the system reach it there, through the queue
of pending interrupts and `##sys#interrupt-hook`, which calls signal handlers, runs
pending finalizers, or switches threads. The scheduler, the library and `tcp.scm` are
compiled with `(disable-interrupts)`: they do not count down the timer, but their
procedures have stack checks too, at which an interrupt raised before, or a garbage
collection, can still come. A thread that would wait for a descriptor, a time, a mutex
or a thread calls `##sys#schedule`, which is where `poll()` and the bookkeeping of the
lists happen. TCP ports use the scheduler's `fd-list` and its "unblocked by timeout"
flag. Every thread has its own dynamic environment, which the scheduler swaps, and
which dynamic-wind and the delimited operators maintain. The collector reads the
weak buckets of the symbol tables, moves the targets of locatives, and queues
finalizers; bignums keep their digits in its scratch space.

What makes each part correct:

* *scheduler*: no waiting thread is forgotten, nobody runs twice, the lists agree
  with the slots, deadlines are neither early nor slept through, a panic means
  deadlock, environments are private, the ready queue is fair;
* *signals*: every accepted signal has its handler run once, the stack limit is
  faked exactly as long as something is pending, waiting threads wake up;
* *finalizers*: each registration runs once, on an object still in memory, and is
  never forgotten; one loop at a time; `(gc #t)` returns and exit finalizes;
* *memory*: the program cannot see that objects move; what it can reach stays, what is
  held weakly goes exactly when it is garbage; no pointer leads into an abandoned space;
* *calls*: a program comes to what its expressions mean, wherever collections and
  switches fall, and fails for a lack of stack only where an empty stack is too small;
* *delimited control*: the two run-time lists describe where the control is,
  thunks run exactly on the way in and out, and stale tails are never used;
* *TCP ports*: bytes arrive and leave in order, none lost or repeated, peeking is
  consistent with reading, an end of file comes after the data;
* *TCP connections*: one thread never stops the process, ports belong to
  established connections, no socket leaks, every client is served;
* *debugger stub*: requests are obeyed in order and once, numbers keep their meaning;
* *numbers*: results are the numbers the mathematics says, in the one representation
  they should have, whichever algorithm and digit size was used;
* *strings*: a string is the sequence of characters put into it whatever was looked up
  before; bytes that are no text survive;
* *vectors, lists, symbols, literals*: an element written is the element read, lists of any
  shape are measured, a name has one symbol that keeps its value, a constant survives
  its way through the object code.

## 2. Modules and how they correspond to the code

### ThreadSystem, Scheduler, SchedulerRefinement
`ThreadSystem` is the promise to a program: a private environment per thread, which a new one
starts with the extent and the parameters of its maker, handlers of its own and no delimiters; one
running thread, nobody back from the dead. `Scheduler` has one action per procedure
of `scheduler.scm` and per use of it by srfi-18 style operations. Its variables are
named after the slots of the thread structure. Because the scheduler is compiled
without interrupts, an operation of a thread is one action; the passes of
`##sys#schedule` are the phases `timeouts -> (sleep ->) io -> fetch -> run`, between
which the clock, descriptors and signals may change. `SchedulerRefinement` maps the
saved register sets to environments and slot 3 to statuses.

Abstractions: `timeout-list` is the set of its entries (the code keeps it sorted, and
an entry made twice with the same deadline is one entry here); threads woken by one
pass enter the ready queue in any order. The registers of a thread are a context and the
parameter vector they name. A context has its extent (dynamic-winds and ports in one), its
exception handlers and its delimiters (dc-stack); what stands in a parameter vector is
in `vectors`, because make-thread copies it: a new thread starts in the extent of its maker,
with handlers of its own, inside no delimiter (`NewContext`), and with a vector whose contents are
those of its maker's at that time.

### Signals
One action per access to the queue of pending interrupts in the C code (`pc` is the
place between two of them), so that a process signal can arrive at each
(`use.async`), or only at stack checks. `struck` remembers the places at which a signal
was accepted, so that the properties can name the windows in which the code does lose
one. What a thread does on top
of its program is a stack of frames (hook loop, handler, event-queue procedures).
A stack check that fails because the nursery is full and one that fails because the
limit is faked both enter `C_reclaim`; a check that fails over an empty queue collects and is
made again (`CollectAgain`, which changes nothing). `owed` counts accepted signals whose handler has not run.

### Finalizers
One frame per library procedure in progress (`##sys#init-finalizer` between its
steps, the loop of `##sys#run-pending-finalizers`, a finalizer called, `(gc #t)`,
`exit`); a step goes from one stack check to the next, because there the thread can
be preempted and the heap collected (c-backend.scm:910-940 emits a check for every
procedure and continuation that is not direct). `Reclaim` is the finalizer part of a
major collection: with entries pending it only marks; otherwise it moves the
registrations of dead objects, newest first and up to `C_max_pending_finalizers`, into
the table. Minor collections and heap resizing treat all registrations as roots and
change nothing here. Objects hold no references to each other; `held` are those the
program reaches, and procedures in progress are roots too. `owed` in a frame is a
snapshot taken for the properties. The size of the table's vector is not modelled.
Writing `Keep`, `Drop`, `Kill` and `Escape`, the program may do whatever user code can.

### TcpPorts, TcpConnections
`TcpPorts` is `io-ports`: the buffer indices are the code's, the bytes of the peer are
numbered and have a kind (single, lead and tail of a two-byte character, CR, LF), so
that order, loss and repetition are visible; so are the bytes to be written, and 0 is any other
byte. `Handed` is what write-bytevector makes of bytes that stand at an offset in their
bytevector: as many, from its start. The socket delivers any part of what
is there, and takes any part of what is sent. A thread can be suspended only where the
code calls the scheduler. `consumed` is what was taken from the port, whether or not
the operation that took it then timed out. `TcpConnections` uses one step for a run of
a thread between two waits; `poll()` wakes every thread registered for the
descriptor (as `##sys#unblock-threads-for-i/o!` does), a signal forces the primordial
thread, slot 13 tells about deadlines.

### DelimitedControl
`winds` and `meta` are `##sys#dynamic-winds` and `##sys#dc-stack` with the innermost
element last; each cell has an identity, standing for `eq?` of pairs. `path` is what
the code holds only as continuations: the dynamic-winds and delimiters the program is
in. The frames a continuation goes through run their thunks one step each, and any
of them may leave by another continuation. `FramesOf` says which dynamic-winds a path has by
their places, so that it can be reasoned about; `FramesAssumption` in `MCControl` compares it with
the filter of the library.


### Memory, Collector, MemorySystem
The globals of `runtime.c` are the fields of one record `r`; operators take it and return
it, as the C functions change it. An address is a space and an offset in words; objects are
vectors, weak pairs, locatives, bignums with their bytes, and static roots. `Memory` is
the mutator's side (`C_mutate_slot`, `C_scratch_alloc` with the replacement of the whole
space, `C_mutate_scratch_slot`, `C_migrate_buffer_object`), `Collector` the
collections: `Mark` is `really_mark`, `MarkNested` Cheney's scan, and `Overflow` sets
`jump`, under which every operator leaves the memory alone until the entry point
that `setjmp` marks catches it. The phases of `C_reclaim` are operators that pass the
record on: `MarkMinor`, `Escalate`, `MajorCollection` (`Dead`, `MarkUndead`, `Queue`, `Settle`),
`Resize`, `Unwind`. `MemorySystem` is a program with two values in hand that makes
objects of each kind, writes, registers finalizers and calls the collector in every
way; no step of it can see addresses. `Name`, `Reach`, `Graph` are what
the properties compare before and after. `lost` is set when a new heap was
abandoned half full; the properties are then limited (see the table below).

### Calls, CallSystem
`call[t]` is the vector of arguments of the next C function (`av`), each action one C
function from its entry to its tail call, `free` the words left on the stack.
`Reclaim` is `C_save_and_reclaim`: it handles a pending interrupt, whose hook may switch
threads, and collects otherwise; the call is made again. Programs are expressions of
the primitives under test, nested up to `Nesting` deep, and `Expressions` holds those of each depth by
how many continuations are in scope (`ExpressionsAssumption`). `Meaning` in `CallSystem`, a
recursive function, says what an expression comes to with no stack; `Sizes`, which vectors of arguments
it asks for. `MCControl` chooses the expressions.

### Debugger
`line` is what `socket_read` has copied to its buffer, `input` what it has received;
the stream hands over any number of characters. The client sets and clears breakpoints
on any of `EventNumbers`, also before it was told of them. `table` is what the client knows: the
events behind the numbers it was told. Requests that only report are one, "query".

### Bignums, Numbers, NumberSystem
`Bignums` follows the digit loops on sequences of digits of `W` bits, with every C operation
modulo 2^W: the loops, estimates, corrections and fall-backs of
multiplication, division and bit operations are the code's; where a word is made
from two halves the model does so too (`wide` is the build with double words).
`Numbers` adds flonums as integers times powers of two with `mant` bits, ratnums, and the
operators that dispatch on representations. In `NumberSystem` a step
`Call` chooses a build, an operation and its operands, `Answer` is what the code returns,
and `Return` is the step in which the program gets it; the properties compare the
answer of every `Return` with reference definitions on TLC's integers.

### Utf8, Strings, StringSystem
`Utf8` has the decoder, encoder and counters as functions of bytes. A string of `Strings` is
`[bs, count, index, offset]`, the slots of the object; each lookup returns the string
with its remembered position moved, as the code mutates it. `StringSystem` keeps `text`,
the codes the program means, beside it; `clean` ends a behaviour after which the text is
not defined by the manual (bytes that join, `read-string!` over other widths).

### Vectors, Lists, SymbolTable, Literals and their systems
`Vectors` scales the machine down: a byte has two bits, a word eight bytes, and all
limits follow. `Lists` runs each C loop, which "loops" when it comes back to where it was.
`SymbolTable` is `lookup`, `add_symbol` with weak and strong buckets, persistence and what
a minor or a major collection does to chains (`Kept` is the walk that unlinks broken buckets);
`SymbolSystem` keeps what the program was promised. `Literals` writes and reads constants byte by byte and counts the words, those
reserved as literal-size counts them (a ratnum or a complex number without its header) and those used.

### Composites and uses
`MCSockets`, `MCControl` and `MCData` put models of one area side by side: `part` says
which of them a behaviour belongs to, the others stand still. A behaviour of `MCData` may
`Stop` in any state, and most properties of data ask there what the program would see: as
properties of that step they are evaluated once in each state. Those of symbols are of every state and step. `Signals` and
`TcpConnections` have a variable `use`, and `TcpPorts` has `portUse`, chosen by `Init` from
the constant `Uses` (`PortUses`) and never changed: what the program, and the world outside, does with
the component in this behaviour, such as which signals it handles, what the peer sends
and which reading procedures are called.

## 3. Runs

Bounds are in the `.cfg`; the instances are those at which each mechanism meets a
competitor. Passing runs:

| run | properties | what it shows, and why the bounds are enough |
|---|---|---|
| scheduler | TypeOK, NoThreadLost, FdListSound, ReadyQueueSound, IdlesRightly, OnlyWaitingWait, NoEarlyTimeout | three threads: one waits, one wakes it, one shares the descriptor; delays of two in a clock to four make deadlines overlap, so that an entry of an earlier wait is found before, at and after the deadline of the next one |
| scheduler_sync | MutexOwnersAgree, ImplementsThreadSystem | owner, waiter and killer of a mutex, a condition variable and joins; threads made outside and inside of a handler and a delimiter, and two values of the parameters, tell an environment that leaks into another thread, or out of the maker into a new one |
| scheduler_live | ThreadsProceed | one thread without a deadline (descriptor, mutex, join) against one with a deadline, three moments |
| signals | SignalsOnce, InterruptsSound, WaiterWaits, InterruptsProceed | two signals and the timer compete for two places; each signal comes a second time while its first handler may still be running; the timer can take the processor from a hook; in two of the uses the signals come between any two accesses to the queue, with and without user interrupts |
| finalizers | RunOnce, ItemsKept, TableSound | two registrations of the same or of two objects and a table of one, which the second registration makes grow (or fail to): queued, left over and running at once; two threads that are killed or escape. Three registrations give the same answer (6.7 million states) |
| finalizers_live | FinalizersProceed | two forcing threads, table too small for both registrations |
| sockets | InputWhole, OutputWhole, LoneAcceptorNeverBlocks, ConnectResults, EveryClientAccepted, RequestsObeyed | ports: a buffer of three bytes is refilled within and between seven bytes of lines; chunks of two against an output buffer of three and writes of up to four, also of bytes at an offset; both directions at once; two-byte characters. Connections: accept with deadline beside two connecting threads; two acceptors and signals. Debugger: three requests cut anywhere, two units loaded before, between and after listings |
| control | ListsMatchControl, MeaningKept, OverflowIsReal | depth three holds a dynamic-wind inside and outside of a reset; one kept continuation and one segment, each called any number of times. Calls: all programs of nesting two with up to four values, beside a second thread, on a stack of six words, so that some calls fit an empty stack only and some none |
| memory | HeapInOrder, MovesUnseen, GarbageExact | four objects and six operations in halves of ten words that grow up to 64: a copy that fills its half, then its larger heap; scratch space of eight words against bignums of three and twenty digits |
| numbers | ExactlyRight, BitsRight, ConversionsRight | digits of six and eight bits, both widths of arithmetic, with and without room for recursion; operands of up to five digits from the corners of the digits, with the thresholds of Karatsuba and Burnikel-Ziegler at two and one, so that recursion, odd splits and corrections occur; doubles of nine and five bits, below and above a digit, with subnormals |
| data | StringsHoldText, TextIsUnderstood, VectorsAreExact, ListsAreKnown, SymbolsPersist, GarbageSymbolsGo, ConstantsSurvive | strings of up to three characters of one and four bytes, texts beside them whose characters change their length with their case or are folded to several, or are stray bytes, and all sequences of four of ten critical bytes; numbers at the edges of every width; all graphs of three pairs; two names in one chain with two symbols at a time; constants of three nested blocks, ratnums and complex numbers among them, with sizes at the limit of the encoding |

ItemsKept and RunOnce are stated for a pending table that was never replaced,
SignalsOnce as long as no signal is accepted where C code has loaded or changed the count of the queue
(`HalfWay`), and its part that none is lost for handlers that do not escape; InterruptsSound as long as
none is accepted between the call of `C_i_pending_interrupt` and its test of the queue;
that OutputWhole has the right bytes in the right order for bytevectors that are written from their
start (`WritesWhole`) and up to the first failure; LoneAcceptorNeverBlocks for one acceptor; the uses of the ports in the run are `SoundUse`,
without which InputWhole and OutputWhole are false; continuation-return is used
in the run only towards continuations in the same dynamic-winds (`Returns = "level"`);
`Signals = FALSE` in the run control keeps signals out of the primitives of runtime.c,
where the timer never arrives; Shifting, Rounding and Wholes in `NumberSystem` name the
operands they leave out; ConstantsSurvive allows the words that literal-size does not count
(`Uncounted`), and ListsAreKnown says of get-keyword where it loops. Outside of these conditions the code does not have the property:

### Disagreements
The run **apply_overflow** finds OverflowIsReal violated once signals may arrive anywhere:
`C_apply` and `C_apply_values` note in `stack_check_demand` that the call is being tried
again (runtime.c:8030, 8187); when a signal then fakes the stack limit (5266), the second try
fails too, and a call that would fit ends in "stack overflow". NEWS:1216-1217 says of 4.10
that the "signal handling code can no longer trigger "stack overflow" [...] errors".

The same modules show the following ones. Each is reproduced by taking the named
configuration, making the change, and checking the one property with the specification
named there (`Spec` or `FairSpec` where it says so) and `CHECK_DEADLOCK FALSE`. Those that
are not in a run are invariants, except TimeoutFlagKept, EverySignalHandled, QueuedIsRun
and ForceRunsFinalizers; a name of the form S!P needs a definition `P == S!P` in a module that
extends `MCData`, with `Parts = {"strings"}`, and the others are in a module that the run extends.

| configuration and change | property violated | what the code does, and what is said of it |
|---|---|---|
| Scheduler.cfg: two threads, `Delays = {1}`, `MaxTime = 2` | TimeoutFlagKept | `##sys#force-primordial` clears slot 13 (scheduler.scm:239) although the same pass has set it because the deadline passed ("mark as being unblocked by timeout", scheduler.scm:199): the primordial thread goes on as if its event had come |
| Signals.cfg: `Uses <- AsyncUses`, Spec | LimitFindsInterrupt without its condition on `struck` | `C_i_pending_interrupt` (runtime.c:14050) empties the queue and leaves the limit faked, which only `handle_interrupt` restores (comment at runtime.c:5261-5265): each stack check collects garbage until the next interrupt |
| the same | AcceptedKept | a signal between the accesses of `handle_interrupt` (runtime.c:4550) or `C_i_pending_interrupt` (14050) to the queue is dropped; the comment at 5313-5315 says why that should not be |
| `Uses <- BreakUses` | AcceptedKept | a user interrupt that nests between the pop of a signal and the call of its handler (library.scm:7339) discards it; "it will be stored in a queue" (manual, process signal, 31-33) |
| `Uses <- BlockedUses` | WaiterWaits | a user interrupt escapes from a wait and leaves the thread in slot 3 of the event queue (library.scm:7307): the next wait is the error "event queue blocked" |
| `Uses <- SleepUses` | SleepsUntilSignal | a signal handled between the test for an empty queue and `sleep()` (library.scm:7308) is noticed up to 100 seconds later; the manual (process signal, 37-38): "until one of the signals given ... occurs" |
| `Uses <- SleepUses`, FairSpec | EverySignalHandled | `##sys#suspend-thread-on-event` sleeps the process and never schedules (library.scm:7256; 7253: "should redefined in thread APIs"): the thread whose hook holds the signal gets no turn |
| Finalizers.cfg: one thread, no kills, no escapes | NoneForgotten, CalledOnce | `##sys#init-finalizer` installs a copy of the table (library.scm:7696-7699); a collection between copy and installation fills the old one, whose entries are forgotten, and an interrupt there runs entries that the copy brings back; the manual (chicken gc, 40-43): the procedure "will be called" |
| FinalizersLive.cfg: `Kills = TRUE`, FairSpec | QueuedIsRun | working-thread is reset only at the end of the loop (library.scm:7780): when that thread is terminated, or leaves by a continuation, no finalizer ever runs again and `(gc #t)` does not return |
| Finalizers.cfg: `Realloc = {FALSE}`, `InitialMax = 2`, no kills, no escapes | ForceRunsFinalizers | `##sys#force-finalizers` stops when the table is empty after a collection (library.scm:7797), also if that collection could not queue newer garbage because an earlier batch was pending, which an interrupt has run since; tests/test-finalizers.scm:52-57 rely on `(gc #t)` |
| the same | ExitRunsFinalizers | exit does not wait for the entries another thread is running (library.scm:6505); the manual (chicken gc, 47-48): finalizers "are called on normal program exit" |
| the same | ExitProceduresLast | procedures of on-exit run before the finalizers (library.scm:6497-6509); the manual (chicken base, 1246-1247) says finalizers "are run before exit procedures" |
| the same | ExitIsInProgress | exit called in a finalizer fails with exit-in-progress set (library.scm:6490): every later exit warns and returns |
| Sockets.cfg: `readOps |-> {"char", "ready"}` in `Decodes` of `MCSockets` | ReadyCharDoesNotWait | char-ready? looks for one byte (tcp.scm:425); the manual (scheme base, 4202-4203): the next read-char "is guaranteed not to hang" |
| the same with "peek", without `SoundUsesAssumption` | InputWhole | peek-char decodes what happens to be behind the first byte of a character (tcp.scm:438-452); the manual (scheme base, 4165-4167) |
| Control.cfg: `Parts = {"delimited"}`, `Returns = "any"`, `MaxPath = 2` | ListsMatchControl | continuation-return does not unwind (runtime.c:8113-8132, continuation.scm:95); the manual (continuation, 44-52) defines it by continuation-graft, which does |
| Memory.cfg | SurvivesResizing | when the heap that a resizing copies into is full as well, the collection starts again with roots that point into that abandoned heap (runtime.c:4073-4078); the message there promises an end of the program |
| the same | ScratchNeverForwarded | `(##sys#gc '())` resizes the heap without unwinding the stack (runtime.c:10506-10510) and leaves forwarding pointers in the scratch space, which the next growth of it takes for corruption (3367) |
| Numbers.cfg | ShiftsRight | a right shift of a negative bignum whose result is a power of the digit base has one digit too few: `(arithmetic-shift (- 1 (expt 2 128)) -64)` is 0 (runtime.c:7249); the manual (chicken bitwise, 17-19) |
| the same | RoundsAlike | a negative ratnum is rounded by a comparison meant for positive ones (runtime.c:11422): the double of -2/5 is not minus that of 2/5; comments at 11421, 11429, 11449-11452 |
| the same | RandomReaches | random bignums never come to the top of their range (runtime.c:14205-14229); the manual (chicken random, 32) |
| the same with `Abs(a) < 2^mant` left out of Wholes | ExactlyRight | quotient, remainder and modulo of two flonums divide and truncate the rounded quotient (runtime.c:9590, 9658, 9706, 9773): `(remainder 1e17 3.0)` is 0.0 |
| Data.cfg | S!ReadKeepsText | `C_utf_overwrite` (utf.c:296-332), called by read-string!, leaves count and remembered position as they were when bytes of another number replace the characters (library.scm:8616); the manual (chicken io, 66-68) |
| Data.cfg with `Oddities = {187457}` | S!EveryCodeIsKept | the encoder tests `(u & 0xff00) == 0xdc00` (utf.c:184), which U+2DC41 passes too: it is written as one byte; the manual (Data representation, 18-21) |

Further ones were read off the code while it was modelled, without a run of their own:

* `read-buffered` of a TCP port passes the end of the input as a length (tcp.scm:506;
  library.scm:1786-1787); a limit that ends at a carriage return makes read-line receive
  over unread bytes (tcp.scm:485); one index serves both buffers (373; the manual, tcp,
  143-144); closing the input port closes the socket under a last flush (436); two
  acceptors of one listener can block the process (618; the manual, 58-59); `tcp-connect`
  takes a deadline or a forced wake-up for an established connection (666).
  The uses of the runs leave these out. A write that times out leaves the position as it was, and the
  next flush sends again what had been sent (523): what comes after `failed` is left out.
* `write-bytevector` to a TCP port ignores the offset it is given (tcp.scm:569-574): of the bytes from
  `from` to `to` it sends as many, but from the start of the bytevector. The use `Slices` does it, and
  OutputWhole is false in it without `WritesWhole`.
* The loop of `get-keyword` ends at a pair with the keyword or at an immediate and moves on over a pair only
  (runtime.c:13687-13704): on a list that ends in another object behind an element that is not asked for,
  such as `(k v . 1.5)`, it does not return, and library.scm:3677 only asks for a pair or `()`.
* `literal-size` counts two words for a ratnum or a complex number besides its parts
  (c-backend.scm:763-768), the decoder uses three (runtime.c:13432-13453): the words reserved for a unit with such
  constants are fewer than it takes. Without `Uncounted` ConstantsSurvive is false.
* `string-copy!` without start and end computes its length before they have defaults
  (library.scm:1953-1976; the manual, scheme base, 3306-3314), and `string-fill!` refuses an
  end equal to the length (1912-1933).
* `list-tail` cuts its index to an int (runtime.c:5957); `equal?`, `memq`, `assq` and
  `get-keyword` do not return on some circular lists either; call/cc continuations of one value refuse others
  than one where `values` takes the first (8083-8095, 142).
* `locative-set!` truncates where the vectors raise an error (12854-12951).
* In dbg-stub.c a partial write is followed by one of the full length (188), a listing
  with a pattern numbers matching events only (352-373), and an interrupt that comes while an event
  is being reported is forgotten (`interrupted = 0`, 568-582).

Runs that do not check deadlock say so because the modelled system may really stop:
the clock reaches `MaxTime`, all bytes are transferred, the process has exited or
panicked, the program has ended, or a waiting thread waits for something nobody sends.


### Fairness
* `Scheduler`: the passes of `##sys#schedule` are taken because nothing else can run
  meanwhile; the clock advances; `poll()` and `sleep` return at their deadline;
  a slice of a thread ends by the timer interrupt (`Yield`). Descriptors
  becoming ready, signals and all operations of programs are not fair. Hence
  ThreadsProceed (a ready thread runs, a deadline wakes) holds for programs compiled
  with interrupts.
* `Signals`: C code goes on, hooks and handlers go on when their thread has the
  processor, the timer expires again and again, and each thread gets a turn when
  switches happen (shown for the real queue by scheduler_live). Stack checks that
  fail are strongly fair: each procedure call is one.
* `Finalizers`: each thread's library steps and finalizers go on (finalizers
  return), and an interrupt comes while something is pending, as long as some
  thread runs code compiled with interrupts.
* `TcpConnections` (`SocketsSpec` adds its Fairness): threads the scheduler reports readable are woken and run; a
  blocked `accept()` returns when a client comes.

Properties under fairness are stated for the uses they are meant for: a program whose
accept() fails each time, or whose timeout is 0, accepts nobody, and a thread that waits
for signals sleeps the process.


## 4. Proofs

Each theorem holds for every value of the constants that the named assumptions of its
component allow. The proof modules extend the components they are about.

**`SchedulerProofs`** proves for all threads, descriptors, mutexes, condition variables,
contexts and delays (`Threads` finite, kinds of block objects disjoint, one primordial
thread: the named assumptions of `Scheduler`):

* `TypeCorrect`: `Spec => []TypeOK`, one lemma per group of actions;
* `NoThreadIsLost`, `FdListIsSound`, `WaitingIsExclusive`: NoThreadLost,
  FdListSound, OnlyWaitingWait and OneRunning.

NoThreadLost is not inductive by itself. That a thread unblocked by one event is not
registered for another needs that only waiting threads have block objects
(OnlyWaitingWait); that an event of a descriptor wakes only threads waiting for it
needs FdListSound; and that the operations of the current thread do not put a waiting
thread anywhere needs OneRunning. `WaitInv` is their conjunction. The lemma
`WakeKeepsWait` shows once that a step which wakes a set of threads and removes them
from fd-list keeps the invariant; every waking action cites it.

The rest of the module goes on from `WaitInv`:

* `ReadyQueueIsSound`: ReadyQueueSound. The model appends the woken threads in any order;
  `IsOrder(q, W)` says that q lists the set W once, and lemmas say how such lists
  concatenate. Since only waiting threads are woken, none of them is in the queue already.
* `OwnersAgree`: MutexOwnersAgree, inductive together with `WaitInv`: a mutex is handed to
  a thread that waits for it, so to one that is not gone.
* `NeverEarly`: the action property NoEarlyTimeout.
* `IdlesAsItShould`: IdlesRightly. The pass over timeout-list stops at a deadline some
  thread waits for; that this is the least one rests on `LeastNat`.

* `SchedulerImplements`: each step of the scheduler is a step of `ThreadSystem` or a stutter
  under the mapping of `SchedulerRefinement`. It needs `RegsSaved` too: while
  `##sys#schedule` runs, the registers of the thread that entered it are in its buffer; and
  `OwnVectors`: the registers of each thread name the parameter vector that was made for it, so
  that no thread gives the parameters of another one values.

**`SocketProofs`** on connections, for any threads and clients:

* `AcceptorNeverBlocks`: LoneAcceptorNeverBlocks for finite `Threads`. `AcceptInv`: the thread that
  poll() reported readable finds a connection, because no other thread accepts. The case
  that two threads accept is one of the disagreements that section 3 lists below its table.
* `ConnectTellsTruth`: ConnectResults if no use has a deadline for connecting and signals
  wake no connecting thread (`Patient`). In the other uses tcp-connect takes a deadline or a
  forced wake-up for an established connection, and the property is false.

**`SignalsProofs`**, for any threads and signals and any length of the queue (threads need not
be finite in number); `TypeInv` adds to the types what the process is doing at each access to
the queue:

* `FakedLimitIsServed`: InterruptsSound, for signals at any place. `RaisedInv` says that queue, hook,
  frames and events hold reasons that were raised, whatever is overwritten. `LimitInv` says at which places a
  faked limit is allowed to be looked at, and that an enabled interrupt is pending there, unless one was
  accepted at "next"; without that exception TLC has a counterexample.
* `NamedWaiterWaits`: WaiterWaits, if no use has both user interrupts and threads that wait for
  events (`BreaksOrWaiters`), by the kinds of frames a thread can have below others (`WaiterInv`).
  Without the assumption `BlockedUses` is a counterexample.
* `SignalsHandledOnce`: SignalsOnce, for signals at any place too. As long as none was accepted at a place of
  `HalfWay` (`Orderly`), `QueueInv` says that the queue holds each reason once and that the count the
  code has loaded is still the count, and `OwedInv` is an account: for each signal, what is accepted and not handled is the
  number of handlers that are to run, plus one while it is in the queue or with the hook. A
  user interrupt can throw handlers away, so then it is at least that.

**`FinalizersProofs`**, for any threads, objects and registrations and any length of the table:

* `TableIsSound`: TableSound, the types and that at most one frame of all threads is in the loop
  over the table, the one that working-thread names.
* `FinalizersRunOnce`: RunOnce. `FramesOK` says how far the loop has come: while the table is
  not replaced, the entries before the next one of the loop have been called and the others
  have not (`LoopOK`), also after a collection in the middle of it, which leaves a table
  with entries alone. `NodesApart` keeps two procedures from making one registration.
* `RegistrationsKept`: ItemsKept. `ListOK` says that list and table have nothing in common and that
  what is listed has not been called, `MemoryOK` that its objects are in memory, and `CopyOK` and
  `KeptOK` what `##sys#init-finalizer` holds between its steps.

A collection takes the registrations of dead objects in the order of the list. `Those` chooses
them by their rank, without recursion, so that lemmas can say what the choice lists and that
the rest of the list is disjoint from it; TLC compares it with the filter of the
library (`ThoseAssumption` in `MCFinalizers`). NoneForgotten and CalledOnce without the condition that the table is
kept are false, as section 3 says.

**`TcpPortsProofs`**, for any peer, any sizes of buffers and chunks, any limits of lines up to `NoLimit` and
any reading and writing procedures, if every use is a `SoundUse`:

* `InputComesWhole`: InputWhole. `ReadInv` says of the stream that the buffer holds the last
  bytes received and that what the program took is all that is not held (`StreamOK`). For read-line
  that is not enough, because a line is put together from several fills of the buffer:
  `LineOK` says that what it has come past since its first byte holds no end of a line, and how
  much of the limit is left, and differs between the places where it waits (for more, or for the
  byte behind a carriage return at the end of the buffer). `AnswerOK` says what the string
  returned means in the bytes of the peer: the limit was reached, or a line ends there, or
  the input does.
* `OutputGoesWhole`: OutputWhole. Up to the first failure, what was written and not sent is,
  in this order, the rest of the message being sent or the output buffer, and the characters
  that did not fit (`WriteOK`). Of bytes that were at an offset in a bytevector this can be said of
  their number alone (`Byte`: if `WritesWhole`, each is the one it should be). `ShutOK` says that the socket is shut down only after the
  output port was closed.

Each part of `SoundUse` excludes one of the disagreements of section 3: `OneDirection` the index
that is shared by both buffers, `FlushesFirst` closing the input under a last flush, `TakesAll` the
length that `read-buffered` passes on, `PeeksSingles` peeking at characters of several bytes,
`LimitsSpareCr` a limit that ends at a carriage return. Without them TLC has counterexamples.

**`DelimitedControlProofs`**, for any dynamic-winds, any depth and any number of continuations
and segments that are kept (`Frame` may be infinite), if `Returns = "level"`:

* `ListsAreControl`: ListsMatchControl, which includes that shift and the return to a delimiter
  never raise their errors of a left extent. In `ControlInv`, `Fits(w, m, p)` says, place by
  place and without recursion, that a path `p` consists of the frames of the winds `w` and the
  delimiters of `m`, and that each delimiter remembers the path in front of it and the winds in it.
  ListsMatchControl speaks of a running program alone and is not inductive: in between, the lists
  and the path go apart. `ControlInv` says for each way the control can be on where they meet
  again: a continuation on its way fits by itself, whatever the winds are meanwhile
  (`Unwinding`); winds that are left have those of the delimiter as a tail, and fit there
  (`Leaving`); a segment that is entered fits as far as it has come (`Entering`); and every
  continuation that is kept fits. `EnterFits`, `LeaveFits`, `PushFits`, `PopFits` and
  `SegmentFits` say how the operations on the lists keep `Fits`; `FitsFrames` and
  `FitsDelimiters` derive the counted form of the property.

With `Returns = "any"` it is false, as section 3 says: continuation-return leaves winds behind.

**`SocketProofs`** on the debugger stub, for any units, numbers of events and any number of requests:

* `ObeysRequests`: RequestsObeyed. `NetInv` says that a line being read holds no newline but at
  its end; then a complete one is the next request of the client (`LineIsRequest`), however the
  stream was cut. `InfoInv` says that the events of the units listed are a prefix of all events,
  that all are different, and that the table of the client is this prefix. `BreakInv` says
  that no number was carried out that named no event: otherwise a unit loaded later could
  give a meaning to a number that was set before. The numbers of events come from joining the
  rows of the units; `JoinsExists`, `JoinsUnique` and `FlattenAppend` say what the recursive function
  of the library computes, by a least counterexample.

**`CallProofs`**, for any threads, any atoms, any set of expressions nested to any depth and a stack
of any size:

* `KeepsMeaning`: MeaningKept, with signals at any time. The invariant is about one thread: there is
  a set of continuations with values each of which leads to the outcome that the program has
  by its meaning, and the thread's next call delivers to one of them or evaluates an
  expression that does (`OnCourse`). `Sound` says of each such pair what the continuation makes
  of the values: the end, `list`, or the next expression. An expression is evaluated once,
  so the set only grows, by the continuation that is new (`SoundGrows`). That needs no induction over the
  continuations. One over the depth of expressions is needed for what `Meaning` computes: that the
  recursive function exists (`MeaningExists`) and comes to a continuation in scope
  (`MeaningRange`), by a least depth where it does not.
* `OverflowsForReal`: OverflowIsReal, if signals come at stack checks only (`~Signals`). `DemandInv`
  says that a demand is remembered only while the call that made it is about to be repeated on an
  empty stack with no interrupt pending. With signals at any time it is false (apply_overflow).

**`SymbolProofs`**, for any names, any hash function, any properties and any number of symbols:

* `SymbolsAreKept`: SymbolsPersist. SymbolsPersist is not inductive: it says nothing of when a bucket may be weak.
  `GoodTable` says that a bucket that is not broken is in the table of its kind and the chain of its name,
  that the names of a chain differ, and that the bucket is weak exactly when its symbol has nothing to lose
  (`Worthless`); `HeldInside` says that what the program holds and got by a name is still inside of the table, and
  `Remembered` that the symbols inside have what the program has set of their names. A step looks up
  a name (`LookupTable`), adds a symbol (`AddedFacts`), changes one in step with its buckets
  (`ChangedInv`) or takes some away (`CollectFacts`). That unlinking leaves the other buckets, each
  once, is what `KeptFacts` says of the recursive function `Kept`, by a least counterexample.
* `GarbageSymbolsTaken`: the action property GarbageSymbolsGo. A symbol with nothing to lose is in no strong
  bucket, so nothing but the program keeps it alive.

Only model-checked: liveness, which needs fairness and ENABLED, and the modules about
numbers, memory and data but for symbols. `Bignums`, `Collector`, `Lists`, `Literals` and their kin are recursive
operators over digits, objects and graphs, and what those compute for every input is an induction
over data that the prover cannot do; there TLC compares them with reference definitions over
all inputs within the bounds.

### Mutants
Every property of a passing run has a mutant in the module of the code it is about: an
operator next to the one it replaces that changes it as a slip in the code would (a flag
not reset, an off-by-one, a list not cleaned up, a slot not remembered), and that TLC
finds violating that property. `PROJECT.json` pairs them.

## 5. Not modelled

* **Process ports, fork and processes** (`posix.scm`, `posixunix.scm`): what happens after a
  fork to descriptors, threads and pending signals depends on the operating system more
  than on this code. That a custom output port retries a write that would block without
  waiting for its descriptor (posixunix.scm:982) is a loop through the scheduler whose
  progress depends on a peer outside of the model.
* **String and stream ports, printer and reader** (`library.scm`, `port.scm`): sequential;
  the state is a position in a string. The lines that TCP ports share with them
  (`##sys#scan-buffer-line`) are in `TcpPorts`.
* **Parameters, exceptions, conditions**: parameters and handlers are part of the dynamic
  environment of `Scheduler` and `DelimitedControl`; what a handler does with a condition is not.
* **Complex numbers** other than as literals, **trigonometric functions**, `string->number` of anything but integers: flonum
  functions of the C library, or parsing without a state.
* **Dynamic loading, evaluator, expander, compiler, egg installer, tools**: transformations of
  programs. What the back end writes of constants and `runtime.c` reads is in `Literals`.
* **Browser notebook and wasm port** (`emscripten/`): callbacks of the browser. Where `runtime.c`
  differs for it (how a heap is grown, 4289-4315) the models follow the other branch.
* **Windows port**: other branches of the same procedures.
* **Generated tables** (`utf-tables.c`): the models take small tables of the same shape as constants.
* Inside modelled parts: profiling and statistics, the debug output, `C_callback` and the
  nesting of Scheme in C, the alignment holes of 32-bit builds, and the GC roots that C
  code keeps (one finalizable root stands for them).

## 6. What could come next

1. A specification of an ideal memory (a graph with reachability) that `MemorySystem`
   implements as a refinement, instead of the comparison of graphs before and after.
2. Callbacks from C into Scheme on top of `Calls`, with the collector of `Collector`
   in place of its single `Reclaim`.
3. Custom ports on `Scheduler`: the loops of `posixunix.scm` around read and write.
4. The compiler's closure conversion and the `values` protocol it relies on in `Calls`.
