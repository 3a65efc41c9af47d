# Liunix in TLA+

Liunix is a small 32-bit x86 teaching kernel: a boot loader, paging, a bitmap page
allocator, interrupts and system calls, kernel threads with a tick-driven scheduler, a
mutex and a reentrant lock, and drivers for the console, the keyboard, the timer with its
beeper, and the CMOS clock. This directory models it. TLC checks the models on small
instances; TLAPS proves every invariant that they check, and the five refinements, for every
instance.

Paths below are relative to the repository; `task.c` is `src/kernel/task.c`, and so on.

## 1. The system

### Components, their state and operations

| Component | State | Operations | Interacts with |
|---|---|---|---|
| Scheduler (`task.c`, `thread.c`, `schedule.asm`) | `task_table`; of each task `state`, `ticks`, `jiffies`, its list node; `sleep_list`, `block_list` | `task_init`, `task_yield`, `task_sleep`, `task_wakeup`, `task_block`, `task_unblock`, `schedule` | the clock calls it; system calls and the mutex call it; lists hold its tasks |
| Clock (`clock.c`) | `jiffies` | `clock_handler` | calls `task_wakeup`, may call `schedule`; shares `ticks` with the sleep list |
| System calls (`gate.c`, `lib/syscall.c`) | the variable `task` of `sys_test` | `test`, `yield`, `sleep` | `task.c` |
| Mutex and lock (`mutex.c`) | `value`, `waiters`; `holder`, `repeat` | `mutex_lock`, `mutex_unlock`, `lock_acquire`, `lock_release` | `task_block`, `task_unblock`, `task_yield` |
| Lists (`lib/list.c`) | `prev` and `next` of every node and of two sentinels per list | insert, remove, push, pop, search | used by the scheduler and the mutex; one node per task for all lists |
| Memory (`memory.c`, `lib/bitmap.c`) | `memory_map`, `free_pages`, `kernel_map`, page directory and tables | `memory_init`, `memory_map_init`, `mapping_init`, `get_page`, `put_page`, `alloc_kpage`, `free_kpage` | the loader's memory map; `task_create` allocates from it |
| Keyboard (`keyboard.c`) | key states, lock states, extended-code state | `keyboard_handler`, `set_leds` | the controller, polled with interrupts off |
| Console and printk (`console.c`, `printk.c`, `vsprintf.c`, `debug.c`, `assert.c`) | `screen`, `pos`, `x`, `y`, video memory, static buffers | `console_write`, `printk` | called from threads and from handlers |
| Beeper (`clock.c`) | `beeping`, the speaker bits | `start_beep`, `stop_beep` | the console's `\a`, the RTC handler, the clock |
| CMOS clock (`time.c`, `rtc.c`) | `startup_time`, `century`, CMOS registers | `time_init`, `time_read`, `mktime`, `localtime`, `rtc_init`, `set_alarm`, `rtc_handler` | the interrupt controllers, the beeper; `kernel_init` has its calls in comments |
| Interrupt set-up (`interrupt.c`, `handler.asm`, `global.c`) | IDT, PIC masks, `handler_table` | `idt_init`, `pic_init`, `set_interrupt_mask`, `send_eoi` | all drivers |
| Boot (`boot.asm`, `loader.asm`, `start.asm`, `main.c`) | memory layout, order of initialisation | - | everything |

### What is hard

*Concurrency.* There is one processor. Every gate is an interrupt gate (`interrupt.c:169`),
so a handler or a system call runs with interrupts off and is one atomic step up to the point
where it switches tasks. What interleaves is the clock with threads that run with interrupts
on, and threads with each other at every `schedule()`. `mutex_lock` and `mutex_unlock`
disable interrupts themselves; `lock_acquire` and `lock_release` do not, so the clock may
interrupt them between any two statements, and `mutex_lock` gives up the processor inside
its loop.

*One field, two meanings.* `task_t.ticks` is the remaining time slice of a task, and, while
it sleeps, the clock value at which it wakes. It is a signed `int`; `jiffies` is unsigned.
`task_sleep` sorts by the signed value, `task_wakeup` compares the unsigned one and stops at
the first sleeper that is not due.

*One node, several lists.* A task has one `list_node_t`. That it is on the list that its
state names, and only there, is asserted piecemeal (`task.c:66`, `task.c:113`,
`list.c:85`) and established nowhere.

*Hand-over.* `mutex_unlock` frees the mutex, readies one waiter and yields. Nothing reserves
the mutex for that waiter.

### What makes each component correct

- Scheduler: one task is `TASK_RUNNING`, the one whose stack is in use; states and lists
  agree; a sleeper wakes at the tick that it asked for; no runnable task is lost; the idle task
  can always be fallen back on.
- `sys_test`: the blocked caller is the one that the next caller unblocks.
- Mutex: one owner; `holder` and `repeat` agree with where the owner is; an unlock never leaves
  all waiters blocked.
- Lists: `prev` and `next` are inverse; a node with NULL pointers is on no list, any other on
  exactly one; the walks visit sequences in order.
- Memory: both maps mark exactly what is in use; no page is handed out twice; no page
    that the kernel uses is handed out; the memory accepted at boot is there.
- Keyboard: key and lock states agree with the events.
- Console: the cursor and all that is written stay in video memory; screen, cursor and
  registers agree; each character of a text appears in order, as itself, and is only lost off the
  top. Formatted output: a number reads back, a field has its width.
- CMOS clock: the seconds since 1970 are those of the calendar; a reading is the time of one
  instant; an alarm rings in its second, and the clock never falls silent. A beep ends.
  (Readings during an update, many dates that are converted back, and alarms that are set while
  an old one rings do not have these properties: see below what is claimed.)

## 2. Modules

| Module | What it is |
|---|---|
| `TaskLists` | `StopAt`, where a walk over a list stops, and `Unlink`, on sequences of tasks |
| `Sched` | scheduler, clock interrupt and system calls |
| `TaskSpec`, `SchedRefinement` | what the scheduler promises to threads, and the refinement mapping |
| `Mutex` | EXTENDS `Sched` with the mutex and the reentrant lock |
| `ReentrantLock`, `MutexRefinement` | a lock that is taken and given up in one step, and the refinement mapping |
| `List` | `list.c` pointer by pointer, and the two walks of `task.c` as functions of the memory |
| `ListSpec`, `ListRefinement` | lists as sequences, and the refinement mapping |
| `Memory` | boot of the memory, page frames, kernel pages and their bitmap |
| `PageSpec`, `MemoryRefinement` | memory as two sets of pages, and the refinement mapping |
| `Keyboard` | the keyboard driver with the keyboard and its controller |
| `Console` | EXTENDS `Beeper` with the console, byte by byte of video memory |
| `Format` | the conversions of `vsprintf`, `printk`'s and `debugk`'s text, and what a text has to be |
| `Printk` | `printk` and `console_write` on `Console` and `Format` |
| `Terminal`, `ConsoleRefinement` | cells, a cursor and the text still to be shown, and the refinement mapping |
| `Beeper` | `start_beep`, `stop_beep` and the tick, shared by `Console` and `Rtc` |
| `Calendar` | the conversions of dates, and the calendar they are compared with |
| `Rtc` | EXTENDS `Calendar` and `Beeper` with the CMOS clock, its driver and the interrupt controllers |
| `SchedProofs`, `MutexProofs`, `ListProofs`, `MemoryProofs`, `KeyboardProofs`, `ConsoleProofs`, `RtcProofs` | proofs |
| `Lemmas` | what the proofs have in common: induction, recursion, division, sequences |
| `MCSched`, `MCSchedWrap`, `MCMutex`, `MCList`, `MCMemory`, `MCKeyboard`, `MCPrintk`, `MCRtc` | constants for TLC |

Definitions whose names end in a suffix (`TaskSearch_NoIdle`, `InsertBefore_Swapped`, ...)
and whose comment begins with "Mutant" are plausible bugs. They are used by no
specification: each is substituted for the definition after it to see that a property notices.

### Sched

The variables are the C variables: `current` is `running_task()`, `state`, `ticks` and `jif`
the fields of `task_t`, `sleepList` and `blockList` the lists as sequences (the form that
`List` justifies), `sysTask` the variable of `sys_test`, and `intr` says whether a thread has
enabled interrupts yet. `Table` is the task table in slot order; its first task is the idle
task. A thread first runs inside the handler that switched to it, with interrupts off,
until its `set_interrupt_state(true)` (`Start`).

| Action | Code |
|---|---|
| `Init` | `task_init`; then the boot context waits for the clock with one tick left (`task_setup`) |
| `ClockBoot`, `ClockKeep`, `ClockSwitch` | `clock_handler` with `task_wakeup`: on the boot context, with the slice lasting, with the slice ending |
| `Yield`, `Sleep` | the system calls, with `schedule` |
| `TestBlock`, `TestUnblock` | the two branches of `sys_test` |
| `Start` | the first instructions of a thread |

`Schedule(st, tk)` is `schedule` with `task_search`; callers pass the states and ticks that they
have already assigned. The search loop is a recursive function over the table and keeps the
condition of `task.c:52`, whose two criteria are joined by "or", as it is. Machine words are
bounded by `Half` (2^31): `U32`, `S32` and `Decrement` are the conversions. The idle thread only
halts and yields (`Call`); a thread that calls something else is any mixture of the calls.

### Mutex

`pc` says between which statements of `lock_acquire` or `lock_release` a thread is. One action
per statement or atomic stretch. In `retry` the thread is inside the loop of `mutex_lock`, with
interrupts off, so that `LockClock` excludes it. `Call` remains possible for a thread that holds
the lock: it may sleep, yield or block while holding it. Threads release only what they hold
(`lock_release` asserts that).

`ReentrantLock` has no mutex below it, no places in the code and no order of waiters: an owner, how often
it has entered, who asks, and who of those sleeps. The lock is taken in one step, when nobody owns
it, and given up in one step by its owner, which wakes a sleeper if there is one. `MutexRefinement` maps the statement
that sets `value` in `mutex_lock` to taking the lock, and the one in `mutex_unlock` to giving it up. `repeat` counts one less than
the depth from there to the last statement of `lock_acquire`, and `holder` is not in the mapping at all.

### List

`mem` holds `prev` and `next` of every node and of the sentinels of each list. Each function
of `list.c` is a function on `mem`; the actions guard it by what the callers assert. The walks
of `task_sleep` (`Anchor`) and `task_wakeup` (`Drained`) are functions too, in the loop's own
order: `task_wakeup` saves `ptr->next` before the node is removed.

### Memory

The variables are the static variables of `memory.c`, the bitmap `kernel_map` (`bits`, of each
byte the bits that are 1), the page directory and tables, and the locals of `bitmap_scan`
(`scan`). Two variables are not in the code: `owned` and `kowned`, what the callers have been
given and have not returned. They are never read by a guard that stands for code; they say which
calls a caller may make, and the properties compare the maps with them. The boot is four
actions in the order of `start.asm` and `kernel_init`: `ReadZone` for each record of the loader
(or `UnknownLoader`, the panic on another magic number),
`memory_init`, `memory_map_init`, `mapping_init`; `pc` says which is next. A failed assertion or a
panic makes `pc` "halted". `bitmap_scan` is `ScanOn`, `ScanFound` and `ScanFailed`, one iteration a
step. `free_kpage` is given the first page of a run that the caller has, and any count: it clears bits one
by one, and one that is clear already, or past the bitmap, halts the kernel with those before it cleared. All of it runs before threads exist or with interrupts off, so there is nothing to
interleave; `get_page` and `put_page` are static and have no caller yet, so they are modelled for
the callers that their comments describe.

`PageSpec` knows neither counts nor maps: frames are given lowest first, a request for n kernel
pages gets the lowest free run, and the system stops only when it cannot boot, when there is
nothing left to give, or when more is returned than was given (`FreeTooMany`).

### Keyboard

`pressed` is the set of the entries `keymap[row][2]` and `[3]` that are true, `locks` the three lock
states, `extcode_state` itself. One interrupt is one action (`HandlePrefix`, `HandleOther`,
`HandleRelease`, `HandlePress`), except that the handler of a lock key goes through `set_leds`:
`SendCommand`, `AckCommand`, `SendLeds`, `AckLeds`, where each `inb` of the polling loop is a step
(`Acknowledge`), so that the keyboard acts in between. `keyboard_init` begins in `set_leds`
too. What is typed is a row and a column of `keymap` (`input`).

The keyboard is external: a queue of bytes, a data register that keeps its last byte, a
pending interrupt, a command register, and an acknowledgement for each command, which may
overtake queued scan codes or not. `sent` and `seen` are ghosts: keys held and locks on as of the
codes sent, and as of the codes that the handler has taken. `disturbed` is a ghost as
well: `keyboard_ack` has dropped a scan code, or an acknowledgement came between a prefix
and its code. `KeysAgree` says that nothing else makes the states wrong.

### Console, Format and Printk

`con` is a record of the static variables `screen`, `pos`, `x`, `y`, the video memory `mem` and
the two registers of the controller (`start`, `cursor`), so that each command of `console.c` is a
function on it. Addresses count from `MEM_BASE`. `mem` goes on below and above the video
memory, where every byte is `Foreign`: a store there would show. A store has the
width of the code's pointer: a character, its attribute and a blank are each 32 bits. One step
is one round of the loop of `console_write` (`WriteNext`); `printk`
formats and leaves the text in `buf`, and so does `PrintCharacter`, a call with one character and nothing to format. When
the text has been shown the model empties `buf`, which the code does not read again. Whatever prints does so with interrupts off (boot, handlers, system
calls), so nothing comes between the steps; `\a` calls `StartBeep`, and the clock's part in the beep is
left to `Rtc`. A character is one of 0 to 127.

`Format` takes a format as the parser of `vsprintf` has taken it apart: conversion, flags, width, precision
(`None`, a number, or a negative number that came through `*`), argument. `number` is stated by
its parts (padding, sign, prefix, zeros, digits) where the code counts a width down in four
places; `IntegerFits` and its siblings read the text back, or compare it with the argument (`TextFits`). `Items` are all that the parser can make of a conversion,
and `Parsed` those whose argument has the type that the conversion names. A double is its sign, whole part and fraction in
parts of `Micro`.

`Terminal` has no addresses: cells in reading order, a cursor, and the text that is still to be
shown. `Type` takes the first character off the text, and `Shown` says what that character does: it is `Put` at the cursor
as itself, or erases, or moves the cursor, or does nothing; a NUL drops the rest. A cell behind the cursor may be wiped by
`Put`, because a character's 32-bit stores do that; a cell before the cursor changes only by
`Backspace` and by scrolling. `ConsoleRefinement` maps the cells that the controller would
show, from the address in its own registers, to it, and what `buf` still holds to the text.

### Calendar, Rtc and Beeper

`kernel_init` has the calls of `time_init` and `rtc_init` in comments (`main.c:24`), and nothing calls
`set_alarm`. `Rtc` models them in the order of these comments, with `set_alarm` called by a
thread with interrupts on.

| Action | Code |
|---|---|
| `Init`, `clock_init`, `rtc_init` | `interrupt_init`; the handlers and masks of both devices |
| `SelectRegister`, `AccessData` | the two port accesses of `cmos_read` and `cmos_write`: the index, then the data, the latter as a part of the actions below |
| `ReadRegister`, `CompareSeconds`, `Accept` | a read in the loop of `time_read_bcd`; its end, with `time_read` and the caller's work up to its next access |
| `set_alarm`, `WriteAlarm`, `AllowAlarm`, `ClearFlag` | `set_alarm`, access by access |
| `clock_handler`, `rtc_handler` | the two interrupts, through `interrupt_entry` |
| `BeginUpdate`, `EndUpdate` | external: the clock's own second |

The variables `now`, `updating`, `alarm`, `AF`, `AIE` are the CMOS clock, `masked`, `pending`,
`service` the two controllers: an edge makes a request, a masked line or one below a level in service
waits, and an end of interrupt goes to the highest level in service. `index` is what an access
under way has selected: its own register, or register C if `rtc_handler` has run since (`Diverted`); then a
write is lost, and a read takes the flags (`Flags`) and clears them. `handler_table`, `tm`, `secs`,
`startup_time`, `jiffies`, `beeping` are the code's. `clean`, `ticks`, `taken`, `torn` and `due` are ghosts:
whether the pass over the registers met an update, how long it has taken, the time when it was
accepted, whether an access of the call went to another register, and the seconds to the next alarm.

`Calendar` computes as the code does: `mktime` multiplies in `int`, which wraps, and adds up in
`time_t`, which is unsigned. `TimeHalf` is 2^31. (The C standard does not say what an overflow
gives; the makefile asks for no optimisation, and the multiplication that the compiler then emits wraps.)

The properties claim less than one would like where the code does less:

- `ReadingWhole` is about readings that met no update. `time_read_bcd` does not ask whether an
  update is in progress, and during one a register reads as before or as after it, so that any
  field may be from before a carry and be accepted.
- `LocaltimeConverts` is about the dates on which `localtime` is the inverse of `mktime`: from March on,
  in years of 365 days, and not in the last n days of a year after n leap days since 1970. Of other dates it says
  nothing.
- `AlarmOnTime` is about alarms that are set without `rtc_handler` between the two port accesses of one of
  `set_alarm`'s reads and writes. It is in seconds modulo a day: a delay of a day and two seconds rings after two. A
  time that passes before register C is cleared is due a day later. An alarm that was set earlier may ring while
  the next is being set. After a torn call the next alarm is claimed again.
- `BeepEnds`: a beep ends at the first tick after `jiffies` has passed 1, not five ticks on,
  since `beeping` is a `bool`. When `jiffies + 5` is 0, one tick in 2^32, nothing is
  recorded and the beep lasts until the next one.
- `FormatRight`: a double reads back if its fraction is zero or has no zero right after the point. Nothing is claimed of
  other fractions (1.05 is printed as 1.50000) and of a negative precision.

## 3. Runs

| Run | Instance | Shows |
|---|---|---|
| `sched` | idle and 3 threads, sleeps of 1 to 3 ticks, 5 ticks of clock, no overflow | types, one running task, lists and states agree, `sys_test` forgets nobody, no sleeper is late, and the refinement of `TaskSpec` |
| `sched_wrap` | idle and 2 threads, a word of 6 values (`Half = 3`), the clock never stops | every sleeping thread wakes, also across both overflows |
| `mutex` | idle and 3 threads, 4 ticks, nesting 2 | mutual exclusion, holder and depth, no lost wake-up, waiters and states agree, and the refinement of `ReentrantLock` |
| `list` | 4 nodes, 3 lists | pointers are inverse, pointers mean membership, walks and operations are those on sequences |
| `memory` | 8-byte pages, 2 tables of 7 entries, 8 heap pages, a word of 256, 7 memory maps | the maps agree with what was given, also after a return with a wrong count, runs are new and long enough, the kernel is mapped, the memory exists, and the refinement of `PageSpec` |
| `keyboard` | 6 keys, 3 presses, repeats or releases, a queue of 5 bytes | key and lock states follow the codes, capitals follow the keys, LEDs the locks, and `set_leds` ends |
| `console` | 2 columns, 3 rows, 26 bytes of video memory, 10 characters, 1939 calls | stores stay in bounds, variables and registers agree, texts are right, each character does what it does to a terminal (the refinement of `Terminal`) |
| `time` | a hundred years, days of 8 seconds, ints of 400000 values, ticks of 7, a delay above a day | readings, `mktime` and `localtime` against the calendar; alarms in their second through both controllers; beeps end |
| `due_sleepers` | as `sched_wrap` | **violated**: a due sleeper stays asleep |
| `slice` | the tasks of `task_init` | **violated**: a running task has a negative slice |
| `mutex_handoff` | as `mutex` | **violated**: a woken waiter finds the mutex taken |
| `sticky_keys` | as `keyboard` | **violated**: a key counts as pressed that is not held |

*Bounds.* `Horizon` stops the clock (in `sched_wrap` it equals the number of words: no
bound). Five ticks are enough for a thread to sleep the longest time, wake, and sleep again
while two others are on the sleep list in either order; three threads are what it takes to
have two waiters in the mutex, or two sleepers and a runner. Four ticks let the owner of the
lock be interrupted and its waiters block, wake and block again. `MaxRepeat` bounds
nesting; two levels meet both branches of `lock_acquire` and of `lock_release`. On a list of
four nodes an operation meets a first, an inner and a last node. The word of
`sched_wrap` is the smallest in which sleeps of two lengths stay below half a word, as those of
the real `sleep()` do (2^32 ms are fewer than 2^31 ticks), so that each sleep meets each phase
of the clock and wake-up times are out of order as `int`, as `u32`, or as both.

In `memory` pages and memory are finite, and `MaxCount` limits a request to 3 pages. The map array takes
3 of the 8 heap pages, so that runs cross bytes of 4 bits, the heap fills up, and freed parts
of runs leave gaps that are too short. The memory maps include zones in both orders, too
little memory, memory that is not whole pages, and zones above and larger than the word. Deadlock is
not checked in the `memory` runs, since a kernel that panics stops.

In `keyboard` three events suffice for a second lock key to meet the late answer of the first, for a
prefixed key to meet it too, and for Shift, Caps Lock and a letter to be combined; the longest key
sends four bytes, so that an acknowledgement still finds room. Users may stop typing, so
deadlock is not checked.

In `console` two columns make each character the first or the last of its row, and three rows let the copy of
the screen overlap itself by more than it moves, so that its direction matters. 26 bytes are a
screen, the row that it scrolls over, the row after that one, and one cell: as in the code, where 16384
bytes leave much more, the condition of `scroll_up` always holds. With 4 values a register the high register is in
use. Calls are made once, on the cleared screen, and followed by line feeds
(`FirstCall`), because what they leave to the console is characters; texts of single characters
are not bounded in length. Precisions are none, 0, 1, 2 and 3.

In `time` a day has 2 hours of 2 minutes of 2 seconds, so that all carries meet each other, and every
field of an alarm is one digit; that conversions to and from BCD are right for more is
checked by `ReadingWhole` on years, months and days. The boots are the first, 28th and last days of the
months of a hundred years, and the days of February, at midnight or in the last second. With half an
`int` of 200000 (`TimeHalf`) the product of `mktime` overflows from 69 years on, as that of 2^31 with days of 86400 seconds does, and a `time_t` has room
for the hundred years. Register C holds, besides the two bits of an alarm, none or two other flags (`OtherFlags`). A reading takes less than
a minute. Registers are read during an update only in `time_init`; once the
machine is up the date stays, which no alarm sees; after all times but one (`LongRun`) the
machine is not followed on (`Stop`); no time passes between `time_init` and `rtc_init`. A
word of 7 is the least in which a recorded beep meets the ticks before, at and after the end of
the word. The timer's interrupt comes at any time and does not wait.

*Fairness.* `sched_wrap` needs weak fairness of `Clock`, because the timer
keeps raising its interrupt and every thread runs with interrupts on except for bounded
stretches, and of `Start`, because a thread that has the processor executes its first
instructions. `keyboard` assumes that the
keyboard sends what it has queued and answers what it is sent, and that the processor goes on with the
handler. `time` assumes that the timer's interrupt is taken again and again. No fairness is assumed of calls or of the choice among tasks: the scheduler
promises neither (a thread whose `ticks` go below 0 keeps the processor for 2^32 ticks).

### What the violated runs say

- `due_sleepers`: `task.c:123` says that `task_wakeup` resumes the tasks whose `ticks` are
  at most `jiffies`. The list is in signed order (`task.c:106`), the test unsigned
  (`task.c:128`), so near 2^31 a sleeper that is not due can stand before one that is. It still
  wakes when the clock comes round (`SleepersWake`), up to 2^32 ticks late.
- `slice`: `task.h:43` calls `ticks` the remaining slice. `task_wakeup` sets it to 0
  (`task.c:134`), `schedule` refills the slice of the task that it leaves, not of the one that it
  enters, and the first tick makes -1, which `clock_handler` does not take for an end.
- `mutex_handoff`: the comment at `mutex.c:60` says that yielding makes the new process get
  the mutex. The yield may choose another thread, which takes the mutex first; the woken
  thread blocks again, at the head of a list that is served from the tail.
- `sticky_keys`: the table at `keyboard.c:121` says of each key whether it is pressed.
  `keyboard_ack` drops what is not an acknowledgement, so a release or a prefix that arrives while a
  lock key is handled is lost.

### Where the repository says something else

More sentences of the repository are not what the code does. No run is about them, and no property takes
what the code does there for right.

- `memory.c:43` calls `free_pages` the number of free pages; `mapping_init` marks every kernel page in
  `memory_map` (`memory.c:187`) without lowering it, so that it is too high by a constant.
- `rtc.c:56` says that `set_alarm` makes the interrupt happen after so many seconds. The two port accesses of `cmos_write` may
  have the handler of an old alarm between them; what should go to the alarm's registers or to register B then goes to register C, and the
  alarm does not ring in its second, or at all.
- `time.c:75` expects an error of `localtime` only after 365 leap years; it is wrong in January and
  February, in leap years, and on the last days of a year.
- `time.c:161` promises an error below a second; during an update registers may be read that are from before and after a carry.
- `time.h` gives `tm_mon` the range 0 to 11 and `tm_yday` 0 to 365; the code counts months from
  1, and `get_yday`, unlike `localtime`, counts days from 1 too. What `get_yday` returns is used for nothing.
- `vsprintf.c:283` takes the absolute value of a negative precision; the code takes 0.
- The README (line 247) says that idle runs when all processes are blocked; for
  `task_search` the idle task is one more candidate (`task.c:52`), and since a woken thread has 0 ticks it
  may win.

## 4. Proofs

Every theorem holds for all values of the constants that satisfy the named assumptions of
the modules: `TableAssumption` (slots hold different tasks; the boot context and NULL
are not among them), `TimeAssumption` (positive word, tick and priorities), `CellAssumption`
(sentinels and NULL are no nodes, nodes are finitely many), `LayoutAssumption` and `RoomAssumption` of the memory,
`KeysAssumption` and `RepeatAssumption` of the keyboard, `ConsoleAssumption` and `TextAssumption` (characters are
ASCII), `FormatAssumption` (a word has at least two values; the parts of a double's fraction are a power of ten) and
`CallAssumption` (arguments have the types that their formats name), `RtcAssumption` (lengths of units that two decimal digits can show, start-ups at dates) and `CalendarAssumption` (a `time_t` has room for a hundred years). TLC evaluates all of them in the
runs. Two theorems have a hypothesis of their own, `NoOverflow` and `ZonesAreLow`; both
are said below. The proofs of a component are in the module of its name with the suffix `Proofs`.

| Component | Theorems | Properties |
|---|---|---|
| Scheduler | `Invariance`, `TypeCorrect`, `OneTaskRuns`, `ListsConsistent`, `RendezvousConsistent`, `SleepersAreEarly`, `SchedulerImplements` | all safety properties of `sched`, the refinement of `TaskSpec` included |
| Mutex | `LockInvariance`, `LockTypesCorrect`, `MutexExcludes`, `HolderAgrees`, `NoWakeupIsLost`, `WaitersAgree`, `LockImplements` | all of `mutex`, the refinement of `ReentrantLock` included |
| Lists | `LinksConsistent`, `PointersMeanMembership`, `ListsImplement`, `WalksAreStops` | all of `list`, the refinement of `ListSpec` included |
| Memory | `MemoryInvariance`, `MemoryTypes`, `FramesAreMarked`, `HeapIsMarked`, `RunsAreGivenOnce`, `AllInvariance`, `KernelIsMapped`, `MemoryIsThere`, `MemoryImplements` | all of `memory`, the refinement of `PageSpec` included |
| Keyboard | `KeyInvariance`, `KeyTypesCorrect`, `DriverFollowsKeys`, `CapitalsAreRight`, `LedsAreRight` | all of `keyboard` but its liveness |
| Console | `ConsoleInvariance`, `CursorIsRight`, `StaysInVideoMemory`, `ConsoleIsTerminal`, `TextsAreRight` | all of `console`, the refinement of `Terminal` included |
| CMOS clock | `RtcInvariance`, `ClockTypesCorrect`, `ReadingsAreWhole`, `AlarmsRingOnTime`, `StartsAtTheRightTime`, `ConvertsSomeDates` | all of `time` but its liveness |

**Scheduler.** `IInv == TypeOK /\ OneRunning /\ ListsMatchStates /\ OneRendezvous`. No conjunct is
inductive alone: that `schedule` demotes the right task needs `OneRunning`, that unlinking removes the
task needs the lists to be injective, that the idle task can be taken needs its state to be ready or
running, and `sys_test` unblocks a blocked task only by `OneRendezvous`. The step for an action that
ends in `schedule` uses `ScheduleEffect`, about any states and ticks that a caller may pass (`CallState`).
`SleepersAreEarly` is `NoOverflow => (Spec => []NoOversleep)`. `NoOversleep` alone is not inductive:
`task_wakeup` stops at the first sleeper that is not due, so the invariant is strengthened by `SleepOrder`,
the order of the sleep list. `NoOverflow` (no sum of the clock and a sleep reaches 2^31) is needed: `due_sleepers` is the counterexample without
it. `SchedulerImplements` has the same hypothesis, since `TaskSpec` wakes sleepers on time.

**Mutex.** `LockIInv == OwnerInv /\ QueueInv /\ NoLostWakeup`. `OwnerInv` ties the
value of the mutex to the place of its owner between two statements, and holder and depth to that place.
`QueueInv` carries the invariant of the scheduler along and says that the
waiters are the blocked tasks inside the loop of `mutex_lock`. That an unlock loses no wake-up is inductive
only with both: the task that is unblocked has to be one that will look at the mutex again. `LockImplements` takes each
statement of `lock_acquire` and `lock_release` to a step of `ReentrantLock` or to a stutter. The owner that the mapping
chooses is the only one (`MutualExclusion` in `OwnerInv`); that giving the lock up finds `repeat` at 0, and that the task it unblocks
is asleep in the abstract lock, are conjuncts of `LockIInv`.

**Lists.** `IInv == LinksAgree /\ \E q : Represents(mem, q)`. Agreement of `prev` and `next` leaves open that a list
begins at one head and ends at the tail of another, or that nodes form a ring; `Represents` adds that
from every head `next` visits the nodes of some sequence and the tail, that
sequences of different lists have no node in common, and that all other nodes have NULL pointers. Each operation inserts or
removes at one place of one sequence (`InsertRepresents`, `RemoveRepresents`), which also is the refinement.
`WalkFollows` and `DrainedStops` are inductions along a walk: what `Walk` meets is the
sequence, and after k turns of the loop of `task_wakeup` the first k nodes are gone while `ptr`, read before, is the
node after them. The refinement is what allows the models of the scheduler and of the mutex to use sequences.

**Memory.** `IInv == TypeOK /\ BootFacts /\ ScanFacts /\ FramesMarked /\ HeapMarked`. `BootFacts` is what each part
of the boot leaves to the next, for the promises only begin when the kernel is up. `ScanFacts` is the loop
invariant of `bitmap_scan`: the `counter` bits before `next` are clear. Without it a run that is
marked might have been somebody's. `RoomAssumption` (the array for the largest memory fits into the
kernel's pages) is what makes the first `bitmap_scan` succeed, whose result nobody looks at. `AllInv` adds
`CountFacts` (what `free_pages` is until `mapping_init`, and that it moves with the free pages from then on), `ZoneFacts` and `TableFacts` (what the chosen zone and the page tables are), and `PastFacts`:
the bits that `bitmap_scan` has left behind hold no run that is long enough, so that the run it
finds is the lowest, as `PageSpec` asks. `MemoryIsThere` assumes `ZonesAreLow`: no zone begins 1 MB above a multiple of 4 GB, which
`memory_init` would take for the one at 1 MB, since it keeps 32 bits of the base.

**Keyboard.** `KeyIInv == TypeInv /\ StreamInv /\ TypedInv /\ LedInv`. `KeysAgree` is about the driver, but what makes it right
is in the queue: `StreamInv` says that the bytes not yet seen lead from what the driver has seen to what was
sent, prefix by prefix, unless something was dropped (`disturbed`). `TypedInv` is about the letter of the last interrupt, and `LedInv` says how far
the command for the LEDs and its argument have come at each step of the handshake.

**Console.** `ConsoleInv == ConInv /\ TextInv`. `ConInv` is `Sane(con)` with the registers: `screen` is at the
first row of the video memory or one row below (`scroll_up` copies back as soon as it moves on), `pos` is the
address of `(x, y)`, and no byte outside of the video memory was touched. `TextInv` keeps the text ASCII. `ConsoleIsTerminal` takes each
case of `console_write` to what `Terminal` does with the same character (`ScreenStep`), byte by byte of the 32-bit stores, and the loop over `buf` to the
text that gets shorter (`RestOfText`); `memcpy` is treated as the
loop that it is, forwards.

**Formatted output.** `TextsAreRight` needs no induction over steps beyond `Called`: while characters are left to write, the
buffer holds what the call formats. The work is in the conversions, for words of any number of values.

- *Digits.* `LeftOf` is what the loop of `number` has left after i turns; it decreases until it is 0, so there is a
  first such turn (`LeftEnds`), and the remainders spell the number (`DigitsSpell`, with `Spells`: values v with
  `v[i] = v[i - 1] * base + d[i]`). What is spelled is what is read back (`ReadSpelled`), also behind zeros (`ZerosSpell`). `Read`
  and `Digits` are recursive functions; `SameRun` says that two runs of one recursion agree, by induction along them.
- *Fields.* `NumberLaid` says that `number` makes spaces, sign, prefix, zeros, digits and spaces, and how many of each: padding on one side only,
  zeros only up to the precision or the width, nothing beyond the size. `FieldSeen` says that from any such
  field `Stripped`, `DigitsIn` and the first character recover the parts. `WordNegated` adds that the absolute value, which is
  taken in a word, is right for the least number too. Together they give `IntegerRight`.
- *Doubles.* The digits of a fraction without leading zeros are as many as its size in powers of ten says
  (`DecimalLength`, over `TenToSteps`), so the text reads back if the first digit is one of tenths (`FractionReads`, `DoubleRight`).
- *Strings and bytes.* `TextRight` counts the padding; `TextLongest` finds the characters that may be shown. For addresses, `FieldsAreCut` shows that the search for the next separator finds the bytes one
  after the other, because no digit, sign or padding is a separator.
- *Calls.* `FlattenIsFlat` says where each conversion lies in the whole text, so that the text of a beginning of the format is a beginning of
  the text (`ConversionsInPlace`); `CallRight` moves this behind the place that `debugk` writes, and to before a NUL.

**CMOS clock.** `RtcInv == ClockTypes /\ PicInv /\ ThreadInv /\ ReadInv /\ StartedInv /\ WriteInv /\ AlarmInv`. `ReadInv` is
the reason for `ReadingsAreWhole`: a pass that met no update read the seconds n seconds ago, n less than a minute. While n is 0 all
fields read so far are of now; otherwise the seconds differ, and the end of the loop notices. `StartedInv` and `WriteInv` carry the reading to `startup_time` and to the registers of the alarm. `AlarmInv` says that, unless an access of the call was torn, the
registers hold the time at which the alarm is due, and that the flag is set in that second until
the interrupt is taken, which needs the controllers to let it through (`PicInv`).
`StartsAtTheRightTime` takes `mktime` to the number of the second, from 1970 on (`MktimeRight`): a product that
has overflowed is off by a multiple of 2^32, which the `time_t` takes back (`OverflowUndone`), and the sum of a hundred years fits
(`SecondsFit`). `ConvertsSomeDates` is about the calendar: `localtime` is the inverse of `mktime` on the days that
`LocaltimeConverts` names.

`Lemmas` proves what insertion, unlinking and splitting do to a sequence, for the operators of
`TaskLists` and `SequencesExt`; division with remainder; and two facts about recursion that the others build on:
`SetInduction`, induction in the form of a set of numbers, and `Recursion`, that a function defined by recursion over 0 to n
exists. With them `memcpy`, the walks over lists and the bytes of a key are recursive functions about which one can reason.

Model-checked only: liveness (`SleepersWake`, `HandlerReturns`, `BeepEnds`), for which the prover has
no rules; and that the four properties of the violated runs fail.

## 5. Not modelled, and the plan

All components but the boot are modelled, and every safety property that a run checks is a theorem, as are the five
refinements. What could follow:

| Module | Content |
|---|---|
| `Format` | the parser of formats in front of `Items`, with `%n` and the length of the buffer |
| `Rtc`, `Console` | a thread and a handler that print at the same time, once a thread prints with interrupts on |

Left out for good: the boot sector and the loader (straight-line set-up of the machine and
polled disk input), the descriptors of `idt_init` and `gdt_init` and the counters of `pit_init` (constants
written once), `exception_handler` (it prints and hangs), the port-access stubs, the functions of
`string.c` other than `memcpy` and `strlen`, and the wording of messages. Modelled only
through their effect: `task_switch` (the change of `current`), exit from an interrupt,
`interrupt_disable`. Of `memory.c`, `get_pde`, `get_pte` and `flush_tlb` have no caller and are
left out, and so are `get_screen` and `get_cursor` of `console.c`. `get_yday` is called, but its result is used for nothing.

Not modelled of the modelled parts: the slots of `task_table` running out (no code creates more than three
tasks); the dead branch for Print Screen (`keyboard.c:300`); the prefix of Pause
(`keyboard.c:278`), which counts as Ctrl and Num Lock; the parsing of formats, `%n`, and a text
that
overflows the buffer, which `vsprintf` asserts only afterwards; weekday and century; a thread and a
handler that print at the same time, which would share `printk`'s buffer, because in this
version no thread prints with interrupts on.
