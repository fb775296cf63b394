# TLA+ models of the ESP32-C3 embedded engineering examples

The repository is a course of 25 stand-alone ESP-IDF programs for the
single-core ESP32-C3, `examples/01_mcsr` to `examples/25_flash_security`, with
scripts that build them and run them in QEMU.  Each example is one `main.c`:
an `app_main`, usually some FreeRTOS tasks, interrupt handlers or timer
callbacks, and the shared state they work on.  This directory holds TLA+ models
of the twenty examples that keep state, TLC configurations that check them, and
TLAPS proofs.  Where the program keeps a promise of its text, a property of a
passing run says so; where it breaks one, a run states the promise and TLC
refutes it.

## 1. Inventory

The examples share no code and no state; what they share is the platform, so
the models have the same environment: FreeRTOS on one core (a ready task runs
only if no ready task has a higher priority, tasks of one priority are
time-sliced, `xTaskCreate` of a higher-priority task preempts the caller at
once), the tick interrupt that ends delays and timeouts, resets that leave RTC
memory or not, and the ESP-IDF services the program calls.  `app_main` runs in
the main task, of priority 1.

| Example | State | Operations, interaction | What is hard | What makes it correct |
|---|---|---|---|---|
| 01 mcsr | `prev_lo`, `hi_bits` | `mcycle64` extends a 32-bit counter | the counter wraps anywhere | every count and difference exact |
| 02 uart_jtag | line buffer, index | `echo_task`, `heartbeat_task` | buffer at its limit | every line echoed once, NUL inside the buffer |
| 03 tasks | run counters | four tasks of different priorities | starvation | the lowest reports in time |
| 04 queues | `g_data_queue`, counters per task | three producers, one consumer, timeouts | full queue, several senders | conservation, FIFO |
| 05 watchdog | TWDT, `g_simulate_hang` | tasks A and B check in once a second, A makes B hang | order of check-ins, ignored results | fires on a hang only, and in time if its configuration is accepted; then reboots (section 4) |
| 06 low_power | RTC counters | deep-sleep cycles | state across resets | counts survive the sleep |
| 07 race_mutex | `g_counter`, `g_done_count`, `g_mutex` | two workers, `run_phase` polls | lost updates, also of the counter polled | mutex phase exact, result read when all is done |
| 08 priority_inversion | `g_resource`, three tasks per scenario | binary semaphore, given semaphore, mutex | empty semaphore, deletion under waiters, what inheritance helps | each task on its own scenario's semaphore, which outlives its users (section 4) |
| 10 isr_latency | `g_isr_cycle`, `g_sample_ready` | interrupt handler, polling loop | late interrupts | a latency belongs to its own trigger |
| 11 logic_analyzer | `g_buf`, `g_head`, `g_tail` | sampler and analyzer on a lock-free ring | release before read, wrap-around, starvation | FIFO, slot in use never written |
| 14 cache_coherency | flash, cache | erase, write, read, invalidate | ignored errors, stale lines | flash read after the invalidation |
| 15 flash_mmu | MMU table | `vaddr_to_flash_offset`, mapping of a partition | page ends, two buses, one table | inverse of the mapping |
| 16 pmp_sandbox | PMP entries | NAPOT encoding, packed registers | neighbours set or locked, TOR entries that share an address | entry 6 covers the buffer, no other register changes |
| 17 ota_mmu | otadata, RTC record | switch of the boot partition | what a restart leaves in memory | switches once and reports it (section 4) |
| 18 boot_diagnosis | RTC variables | four boots, three triggers | state that is to outlive its boot | the fourth boot is reached (section 4) |
| 19 heap_fragmentation | heap, pool bitmap | fragmentation, `pool_alloc`, `pool_free` | full heap, stale pointers to slots that have a new holder | no slot taken from its holder, nothing leaked |
| 20 dma_cache | buffers, SPI bus and device | three demonstrations with clean-up | partial failure | everything acquired is given back |
| 21 core_dump | `g_boot_count`, dump partition | crash, dump, next boots | what a panic leaves in memory | crashes once and looks at its dump (section 4) |
| 23 timer_compare | statistics, `g_oneshot_fired` | two kinds of timer callback, main task | 64-bit data, half-made records | what is printed lacks at most the sample being recorded |
| 24 event_groups | event bits | three sensors, alarm, controller | stale bit, missed pulse, nobody left to pulse | no sample counts twice, rounds in lockstep, nobody stuck |
| 09, 12, 13, 22, 25, scripts | - | benchmarks, printing, `idf.py` | - | - (section 6) |

`PROJECT.json` lists all components with their status, and the hazards of the
code by line.

## 2. Modules

Module and variable names are the source's where TLA+ allows it; `pc`-like
variables (`mpc`, `spc`, `ipc`, ...) say where a task is in its function.
Variables marked *history* are not in the code; they only record what a
property is about.  Every module keeps its properties at its end, and the
operators named `Faulty...` are mutations of the definition they stand before:
each property of a passing run is known to fail when one of them takes its place.
The constants of RaceMutex, SensorQueue and LogicAnalyzer and the assumptions on
them are in modules of their own (**RaceMutexParameters**,
**SensorQueueParameters**, **LogicAnalyzerParameters**), which the component, its
proof and the board that runs it all extend.

Tasks and scheduling:

* **RaceMutex** (07).  `g_counter++` and `g_done_count++` are a load and a
  store through the worker's register `reg`.  `Take`, `Load`,
  `StoreUnprotected`/`StoreProtected`, `Give`, `DoneLoad`, `DoneStore` are the
  worker's steps; `ResetCounters`, `CreateTask`, `PollDone`, `ReadResult` are
  `run_phase`; `BenchTake`/`BenchGive` the benchmark's mutex loop.  The main
  task's priority is chosen in the initial state.
* **BoundedFifo** is the abstract channel: messages are accepted at the back
  while there is room and delivered from the front.  Two examples implement it.
* **SensorQueue** (04): producers, queue, consumer, `app_main`.  Tasks
  interleave freely and a timeout may end whenever the kernel lets it: a send
  fails only while the queue is full, a receive only while it is empty.  A
  packet is its sensor and iteration number; the counters `iter`, `dropped` and
  `received` are those of the code, per sensor.  **SensorQueueTimed** extends it
  with the priorities, the delays and both timeouts in units of 50 ms.
* **EventGroupKernel** states what ESP-IDF's event groups do (`SetBits` wakes
  all satisfied waiters and only then clears what they asked to be cleared).
  **EventGroups** (24) is the application on it with free timeouts;
  **EventGroupsTimed** adds priorities and times in units of 100 ms.
* **PriorityInversion** (08), in units of 100 ms: three scenarios, with fresh
  LOW, MID and HIGH tasks each, so that the tasks a scenario leaves behind stay
  in the model.  `turns` (of MID) and `since` (of HIGH's wait) are local variables
  of those tasks, and so are kept by scenario.  `Prio` has the mutex's priority
  inheritance.
* **LogicAnalyzer** (11): the sampler's and analyzer's steps at the grain of
  single stores.  It implements BoundedFifo with the ring between `g_tail` and
  `g_head` as contents and the slot in the analyzer's hand as the last message.
  **LogicAnalyzerScheduled** adds `app_main`, the signal generator and the
  priorities.
* **Watchdog** (05), in seconds: tasks A and B and the TWDT, which restarts
  its timer when the last subscriber checks in.  Whether ESP-IDF's start-up
  code has initialised the TWDT already is chosen in the initial state.
* **TasksDemo** (03), in units of 50 ms: four tasks, of which Process computes
  for up to a unit.  The counters are kept as what they have grown by since the
  last report.  `Delays` are the arguments of `vTaskDelay`.
* **UartEcho** (02): input arrives at any time; `getchar` does not block, so
  `heartbeat_task` runs only while `echo_task` sleeps.  The reference for what
  is echoed looks at the input alone: a line is a pair of places in it, what is
  due of it is its text up to the first NUL (`BeforeNul`), cut to the buffer
  (`Cut`), and its number is how many lines end no later.

Boots:

* **LowPower** (06): the boot counted in RTC memory, the time awake, deep sleep and
  the wakeup, with a reset the program did not ask for between any two steps.
  RTC memory is kept as ESP-IDF keeps it: over a wakeup from deep sleep only.
* **BootDiagnosis** (18), **OtaSwitch** (17) and **CoreDump** (21) count their boots
  in RTC memory too, but never sleep.  `RtcKept` says which resets preserve it.
  In OtaSwitch any set of partitions may hold a valid image, and the switch may
  fail; otadata is flash.  In CoreDump the panic handler erases and writes the
  partition in steps; a dump begins with the ELF magic or, as on ESP-IDF, with a
  length (`format`).  **RtcBoards** puts the three boards side by side under
  ESP-IDF's rule (`DeepSleepOnly`).

Hardware and memory:

* **Mcycle64** (01): the counter is what it shows and how often it has wrapped;
  any number of cycles up to `MaxGap` passes between calls.
* **IsrLatency** (10): the interrupt comes between any two steps of `app_main`,
  in time, after the polling was given up, or, without the jumper, never.  The
  histogram of `print_stats` is a function from its buckets to counts.
* **TimerCompare** (23): callbacks run in tasks of their own: esp_timer's, which
  outranks `app_main`, and the FreeRTOS timer task, whose priority is a
  configuration option that 23 leaves at its default, that of `app_main`; a
  64-bit value is read in two loads.
* **CacheCoherency** (14): a byte as the set of its one bits, a flash that only
  clears bits when it is written and only erases whole sectors, a cache that
  may evict its line at any moment, and an `esp_cache_msync` that works, fails or
  is missing.  `AfterA` is what the flash holds once pattern A is written.
* **FlashMmu** (15, and the same translation in 17): the table as the
  bootloader and `esp_partition_mmap` fill it; base, valid bit and layout are
  taken to be what the examples take them to be.  The two windows are disjoint,
  and the last IRAM address below the instruction window, which stands for code
  that is not in flash, is in neither (`ParametersFit`; without the latter the
  proof of the translation does not go through, and the chip's layout has it).
* **Pmp** (16): entries 4 to 7, which share `pmpcfg1`, with any of what the system
  may have left in them: OFF, TOR, NA4 or NAPOT, locked or not.  `pmpaddr3`, from
  which a TOR entry 4 begins, is the constant `Below`.  As the RISC-V privileged
  architecture has it, a write to an address register is ignored when its own
  entry is locked or the next is a locked TOR (`AddrLocked`), and a TOR entry 7
  begins where `pmpaddr6` says (`Covers`).  **MCPmp** gives values for its own run.
* **HeapPool** (19): the heap as a row of cells in which a block may be placed
  wherever it fits, part of it held by others; the pool by its bitmap.  The pool
  sees only offsets, so three history variables keep what it cannot: `holder`, the
  index in `s[]` that each slot was last handed out to (or that its pointer is
  lost); `shared`, that a held slot was handed out or given back through another
  pointer; `repeated`, who gave back a slot nobody held.
* **DmaLoopback** (20): what is held after each acquisition, any of which may
  fail.

The composite MC modules put several examples behind one variable, `example`,
which the initial state chooses: a board is flashed with one of them.  The
variables of the others keep their initial values, and what those leave open is
pinned.  **MCInterleavings** holds 04, 06, 07, 11 and 24, with every order of their
steps; **MCScheduled** 03, 04 (timed), 05, 08 and 24 (timed), with the code's
priorities and times; **MCPeripherals** 01, 02, 10, 14, 15, 16, 19, 20 and 23.
Their properties are conjunctions or copies of the modules' own.  All parameters
of the examples are constants of the composite module, with named assumptions,
and the .cfg files give the values.

Eight modules hold the theorems of section 5: **RaceMutexProof**,
**Mcycle64Proof**, **LogicAnalyzerProof**, **SensorQueueProof**,
**EventGroupsProof** and **LowPowerProof** about the module they are named after,
**PeripheralsProof** and **ScheduledProof** about two of the boards.

## 3. Runs

| Run | Checks | Bounds (the code's value) |
|---|---|---|
| `interleavings` | 07: mutex phase exact, result read only after both workers are done, termination; 04: packets are conserved (`iter` is `dropped` plus `received` plus what is on its way, per sensor), implements BoundedFifo; 11: no data race on the slot in use, implements BoundedFifo; 24: no sample counted twice, controller ends, sensors never stuck; 06: wakeups counted | 07: 4 iterations (10000), 2 benchmark rounds (1000), main at priority 1 and at the workers' 5; 04: 2 producers, depth 2 (8), 3 packets each; 11: ring of 4 (1024), 8 samples; 24: 2 sensors, 2 rounds (3), 2 samples each; 06: 12 deep sleeps |
| `scheduled` | 08: tasks keep to their scenario's semaphore, scenarios with a given one finish; 04: backlog only at the start; 24: lockstep; 05: fires in time, only on the hang, blames B; 03: the lowest task keeps pace | the code's times; 9 packets each; Logger's and Monitor's delays cut to 12, 6 and 20 units (40, 20, 100) |
| `peripherals` | 01 to 23, see below | see below |
| `inversion_stranded` | *violated*: all tasks of a scenario finish before the semaphore is deleted (08) | the code's times |
| `mutex_no_help` | *violated*: with the mutex HIGH runs before MID completes (08) | the code's times |
| `logic_analyzer_starved` | *violated*: the analyzer processes a sample (11) | ring of 4 |
| `race_loses` | *violated*: the unprotected phase loses data (07) | 4 iterations; main at priority 1 |
| `hang_no_reboot` | *violated*: the hang reboots the chip (05) | the code's times; the TWDT initialised by the start-up code or not |
| `rtc_boards` | *violated*: one of 18, 17 and 21 gets to the end of its scenario | ESP-IDF's rule for RTC variables; a factory and two OTA partitions |
| `timer_statistic` | *violated*: a statistic is printed with all its samples (23) | 2 samples (20); the timer task at its default priority |
| `cache_stale` | *violated*: stale data is announced only when the cache is stale (14) | sector 4096, 64 bytes written |
| `pmp_store` | *violated*: a store to the protected buffer faults (16) | a buffer of 16 (256) at two places |

`peripherals`: `CountsExact` (01; a counter of 8 values that wraps three
times), `LinesEchoed` (02; a buffer of 3 cells, 5 characters, NUL among them),
`LatenciesTrue` (10; 3 samples, a counter of 9 values, interrupts up to 4
cycles late of which less than 4 are believed, 2 polls, 2 buckets),
`ResultsComplete` (23; 2 samples, 2 one-shots, times of two words of one bit),
`FreshAfterInvalidation` (14; every behaviour of `esp_cache_msync`, sectors of
4096 as on the chip and of 64 as the example assumes), `Translates` (15, 17;
pages of 3 bytes, 4 entries, partitions that start at a page or inside one and
span up to two), `OnlyTheBuffer` (16; each of the four entries off, NA4, TOR or
NAPOT, locked or not, in six combinations), `HoldersKeepTheirs` and
`NothingLeaked` (19, 20; a heap of 7 cells of which others hold none, one or two,
4 small blocks, a large one of 3; all 32 slots of the pool).

Why the bounds suffice.  A lost update needs two workers and two iterations
that overlap; four leave room for updates lost in a row.  Two producers and a
queue shorter than what they make reach full, empty, both blocked, and a drop
between two accepted packets.  Two sensors show every relation of one bit to
another and to the pulse; a third round differs from a second in nothing.  A
ring of four slots is filled and wrapped by eight samples.  A counter of few
values puts a wrap into every place of the loop.  A small heap is full before the
small blocks are allocated, or nearly, or not.  The timed models use the code's
own numbers.

Bounds that are not in the code: `MaxIter` (iterations of a producer),
`MaxSamples` (of a sensor), `MaxClock` (samples taken), `MaxSleeps`, `MaxWraps`,
`MaxTyped`, `MaxLate`.  Deadlock is checked in every run.  The tasks of 04 and 24
loop for ever in the code and stop at these bounds in the model: MCInterleavings
has a step `Bounded` for the states in which they have reached them, and for no
other.  A program that returns from `app_main` has a step `Stay`.

Fairness is weak fairness per task, which FreeRTOS gives: the scheduler never
idles while a task is ready and slices time among equals, and the tick never
stops, so delays and timeouts end.  In `interleavings` the tasks of 07, the creation
of tasks and the consumer of 04, and the sensors, controller and alarm of 24 have
it (`BoardFairness`).  In 07 the guard `Runs` says whose turn it is by priority, and
fairness applies to what is left.  The consumer of 04 outranks the producers, and
the producers need none.  Nobody in 24 computes: each task soon blocks.  The
analyzer of 11 gets no fairness, since the sampler does starve it
(`logic_analyzer_starved`), nor do resets and creation failures.  In `rtc_boards`
each processor runs on.

## 4. What was found

Nine runs show the program doing other than what its text says.  The lines quoted
are in `examples/<example>/main/main.c`; `PROJECT.json` has them in full.

* **11, starvation** (line 6, "a low-priority Analyzer processes it").  The
  sampler has priority 10 and waits with `esp_rom_delay_us`, which keeps the
  processor.  `app_main` never gets to create the analyzer.
* **08, scenario 1** (line 105, "wait long enough for all tasks to finish").  The
  binary semaphore starts empty and nobody gives it: LOW and HIGH wait for ever,
  and `vSemaphoreDelete` frees it under them.
* **08, the mutex** (lines 22, 117 and 133, "inversion resolved").  LOW holds the
  resource asleep in `vTaskDelay`, needs no processor for it, and inheritance has
  nothing to speed up: HIGH gets the resource after MID is done, with either
  kind of semaphore (proved as `InheritanceUnused`).
* **07, the race** (line 14, "Actual result: < 20000 (data lost)").  T1 preempts
  `app_main` inside `xTaskCreate` and is gone before T2 exists: the unprotected phase
  is exact (proved as `PrioritySerialises`).
* **05, the reboot** (lines 6 and 11, "WDT triggers, system reboots").  In ESP-IDF's
  default configuration the start-up code has initialised the TWDT, without panic;
  `esp_task_wdt_init` of line 134 is refused, its result ignored, and the hang
  brings warnings only.  The same holds for boot 3 of 18, were it reached.
* **18, 17, 21, RTC variables** (18:52, 17:50, 21:28).  `RTC_DATA_ATTR` survives
  deep sleep only; after `esp_restart` or a panic the boot counter is 0 again and
  each boot is the first.  18 restarts for ever, 17 switches its partition at
  every boot and never compares, 21 panics every three seconds and never looks at
  the dump.  The property asks that one of the three boards gets through, and TLC
  shows that none does.
* **23, the statistic** (line 177, "wait until SAMPLE_N samples are collected").
  `count` is raised before the sample is added to the sum, and the FreeRTOS timer
  task has by default `app_main`'s priority: the average may lack a sample.
* **14, refused erase** (line 171, "stale data confirmed").  Erasing 64 bytes is
  refused, nobody looks, and writing 0xBB over 0xAA leaves 0xAA: the "stale data"
  is what the flash holds, and the success message is out of reach.  The final
  "restoration" also only clears bits of what the NVS partition held.
* **16, unlocked entry** (line 198, "a store access fault").  Without `PMP_L` an entry
  does not bind machine mode.  The store at line 185 comes after the protection
  and goes through; with the lock it would be the panic the text predicts.

Noted while modelling, without a run of its own:

* 04: the summary branch is not reached while sensors send.
* 06: the button on GPIO 9 cannot end a deep sleep, and line 29, "lost only on
  power-off", is as wrong as in 18: any reset but the wakeup loses the counts.
* 11: an edge adds the distance of two neighbouring samples and not the width of a
  pulse, since `prev_ts` is set at every sample (line 170).
* 14: line 185 calls what it reads fresh even when `esp_cache_msync` failed;
  `FreshAfterInvalidation` says what it may then be.
* 16: if entry 7 is a TOR entry, writing `pmpaddr6` moves its lower end; if it is
  locked as well, the write is ignored and the check reports a MISMATCH.
  `OnlyTheBuffer` allows just that.
* 19: `demo_pool` overwrites the pointers of slots 1 and 3, which are lost, and
  gives slots 4 and 6 back twice: through `s[2]` and `s[3]`, which hold them, and
  once more through `s[4]` and `s[6]`.  That no slot is taken from its holder rests
  on the order of the last loop (`HoldersKeepTheirs`).
* 21: the header check expects the ELF magic (lines 28, 70, 89) where ESP-IDF
  writes a length first; the dump would be called unknown if the check were
  reached.
* 24: "OR condition met" is printed on a timeout too (lines 132 to 134).

## 5. What is proved

The properties of `interleavings` are those of the modules themselves, under the
names of their instances (`R!MutexExact`, ...).  Their theorems are stated of each
module's own `Spec`, which is the board's behaviour as far as that example's
variables go.  The other theorems are about `BoardSpec` of MCPeripherals and
MCScheduled.

`RaceMutexProof`, for every iteration count, benchmark length and set of
priorities (assumption: `RaceMutexAssumption`, positive counts and natural
priorities), with no bound on anything:

* `MutexCorrect`: types, mutual exclusion, an exact counter in the mutex phase,
  and no reading of the result before both workers are done.
* `PrioritySerialises`: with main below the workers, as in the code, they never
  overlap, and the unprotected phase is exact: why `race_loses` finds nothing lost.

`MutexExact` is not inductive.  `MutexInv` adds what it rests on: the mutex is
held exactly between take and give (`HolderInv`); while it is, the register of
the worker in `store` is the counter plus one, and the counter is the sum of
what both workers have stored (`Counting`); loop counters fit the place in the
loop (`WorkerProgress`), and so does main (`MainProgress`); `g_done_count`, which
may lose updates, never exceeds the number of finished workers and neither does
a value about to be stored into it (`DoneBound`), so main can be late but never
early.  `SerialInv` adds `Counting` in the unprotected phase as well, from
`NeverOverlap`: main can create a task only when it is the highest ready one,
which it is not while a worker is alive.

`Mcycle64Proof`, for every width of the counter and every `MaxGap` below a wrap
(assumption: `ConstantsAssumption`):

* `CountsAreExact`: types, and every count `mcycle64` returns is the number of
  cycles since reset, every difference the number of cycles that passed.

`CountsExact` says nothing of the time between two calls.  `CountInv` adds that
the cycles since the last call lead from (`hi_bits`, `prev_lo`) to the counter
with one wrap at most (`SinceLastCall`), since they are fewer than a wrap; then
the counter has wrapped exactly if it shows less than at the call before.  The
same holds of the cycles since `profile_begin` (`SinceBegin`), because a
benchmark lies between two calls.

`LogicAnalyzerProof`, for every ring size, counter width and number of samples
(assumption: `LogicAnalyzerAssumption`):

* `RaceFree`: types, and the sampler never writes the slot the analyzer reads,
  although the analyzer gives a slot back before it reads it.
* `RingImplementsFifo`: `RingIsFifo`, that is, LogicAnalyzer implements BoundedFifo
  with a capacity of one slot less than the ring has.  `PublishAccepts` and `ReleaseDelivers` are the two
  steps that change the abstract channel; all others leave it alone.

`RingInv` adds: room found by the sampler stays until it publishes, since the
analyzer only makes more of it (`RoomKept`); the slot being read is the one just
before `g_tail` (`ReadsReleased`); what is left of a batch never exceeds what is
in the ring (`BatchPublished`).  The slots `g_head` and `cur` differ because
their successors do.

`SensorQueueProof`, for all producers, queue depths and packet counts, whatever
times out (assumption: `SensorQueueAssumption`):

* `AllAccountedFor`: types, and per sensor the packets made are those dropped,
  received, in the queue, or in the hands of producer or consumer.
* `QueueImplementsFifo`: every step is a step of BoundedFifo or leaves it alone.
  This is `Fifo!Spec`; the fairness in `QueueIsFifo` stays with TLC.

`QueueInv` adds that a task not yet created is at no point of its program and
that a packet being sent has a number.  The lemmas `OfAppend` and `OfTail` say
how many packets of a sensor a sequence holds after a send and a receive.

`EventGroupsProof`, for any number of sensors, rounds and samples, whatever
times out (assumption: `ConstantsAssumption`):

* `EventsHandedOver`: types, and no sample counts for two rounds.

That the kernel leaves no satisfied waiter blocked is part of the argument
(`WaitersUnsatisfied`), not of the result: `SetBits` wakes everybody it satisfies
and all other calls only take bits away, so a wait that times out returns an
incomplete set.  `SampleReserved` is `SampleSpentOnce` with the round the
controller has in its hands but has not counted yet (`AllReadyInHand`).

`LowPowerProof`, for any number of sleeps and any resets between two steps:

* `WakeupsTrue`: the wakeups printed are those from deep sleep since RTC memory was
  last initialised, and the time awake is that of as many boots.  `SleepInv` says
  at each place of the program what has been added to which counter.

`PeripheralsProof`, for all parameters that satisfy four assumptions:
`ParametersAssumption`; `EchoAssumption`, a line buffer of at least two cells and
no line end among `Chars`; `LatencyAssumption`, at least one sample, poll and
bucket; `PmpAssumption`, a buffer of a power of two bytes from 8, aligned to its
size, and well-formed entries at boot.  A board runs one example and the
variables of the others stand still (`OneExample`), so that each theorem needs
the invariant of its example only:

* `TimersComplete` (23): for any number of samples and one-shots, the statistic of
  a callback that outranks `app_main` is complete, that of one that does not - the
  FreeRTOS timer task at its default priority - lacks at most the sample being
  recorded, and no one-shot time is torn.  `TimerInv`: a sample is counted before
  it is summed, nothing else is missing from the sum, also as printed, and a
  one-shot's value once left is never taken back.
* `ReadsFresh` (14): for every unit of erasing and any contents: if
  `esp_cache_msync` works, or the writes forget the cached line, the read after it
  is of the flash; if neither, of the flash or of what it held before pattern B
  was written, and of nothing else.  `CacheInv` says what the line may hold at
  each point.
* `OneOwnerEach`, `AllGivenBack` (19, 20): for a heap and a pool of any size and
  wherever blocks are placed, no block is freed that is not allocated, no slot is
  handed out or given back against the pointer that holds it, and the only slots
  given back that nobody holds are the second gives of `s[4]` and `s[6]`;
  whichever allocation fails, all is given back.  `BlocksInv` says that cells in
  use lead to exactly one live pointer (`Owned`), `StageInv` which pointers each
  loop of `app_main` has cleared, `SlotsCore` that a slot has its bit set while it
  is held or lost and that a holder's pointer is to its slot, `LoopsInv` which
  pointers are stale in each loop of `demo_pool` and that the holders of their
  slots come first (`HeldBy`), `ResultInv` that `try_large_alloc` succeeds after the
  clean-up exactly if the rest of the heap leaves room; `DmaInv` what is held at
  each step of 20.
* `LatenciesCounted` (10): for any counter width, number of samples and buckets
  and delay shorter than a wrap, a latency collected is that of its own
  interrupt, and every one is counted in exactly one bucket of the histogram.
  `LatencyInv`: no flag of an earlier interrupt is left when the counter is
  stamped, and until it is handled the counter is where `age` cycles have brought
  it.  For the histogram, `BucketRange` says that the division finds a bucket for
  every value between minimum and maximum (`SampleBounds`), and `CountsAddUp` that
  a function counting what falls into each class sums to the whole.
* `EchoesEveryLine` (02): for any buffer, any characters and any length of input,
  each line is echoed once and in order, cut to the buffer or a NUL and by
  nothing else.  `EchoInv` says that the buffer holds the beginning of the line
  being typed (`Begun`); a line end makes that line one of the lines exactly when
  it is not empty (`LinesGrow`), what is typed later changes none (`LinesKept`),
  and what `printf` takes from the buffer is what is due (`CStringIs`).
* `BufferCovered` (16): for any buffer that satisfies `PmpAssumption` and any OFF,
  TOR, NA4 or NAPOT entries at boot, locked or not, what `napot_encode` writes
  covers the buffer and not a byte more when the reading back succeeds, the
  registers of the other three entries are never touched, nor what they cover but
  for an unlocked TOR entry 7, and in the end entry 6 is off unless it was
  locked.  `PmpInv`: the copy of `pmpcfg1` is fresh when it is written, and under a
  locked TOR entry 7 `pmpaddr6` stays what it was.  `NapotExact` decodes the
  encoded address: its count of trailing ones is the exponent of the size and no
  other (`OnesUnique`), from `Doubling` and `PowerDivides`.
* `AddressesTranslated` (15, 17): for every page size, table, layout of the
  windows and place of the code, the offset worked out is the true one.
  `MmuInv` says where code and partition are mapped; `Paging` and the lemmas after
  it are the arithmetic of pages, `MapPlaces` that the entries `esp_partition_mmap`
  fills lead from `mptr` to the partition.
* `BoardTypesKept`: the type invariants of all nine examples, and `CountsExact` of
  01 on this board, from `BoardTyped`: the invariants above with the domains that
  they leave out.  Three of these are more than domains: without the jumper no
  interrupt is pending and nothing is collected, there is room in `g_stats.data`
  whenever a sample is added (`LatencyTyped`), and what is mapped, and hence every
  offset translated, lies in the flash (`MmuTyped`; a partition lies within the
  flash and `esp_partition_mmap` maps the pages it touches and no others).

Three of these rest on induction.  The library's induction theorems take a
predicate as a parameter, which the provers cannot instantiate; `LeastElement`
is WFMin of `WellFoundedInduction` for `<`, and `SetInduction` follows from it,
with a set in the predicate's place.  With that, `2^n` and the sum of a function
over a finite set can be reasoned about for every size.

`ScheduledProof` (assumption: `BoardAssumption`, with `DelaysAssumption` of
TasksDemo, positive delays):

* `HangIsShort`, `BlamesTheHung` (05): for every `Timeout > 2` seconds and every
  check-in that arms the hang, the watchdog ends the hang within its timeout,
  fires on nothing else, and names B and the starving idle task.  The
  hypothesis is needed: A is away for two seconds when it arms the hang, and
  with a timeout of 2 TLC finds the watchdog firing on healthy tasks.  The code
  configures 5.  `TwdtInv` bounds the time since the last restart of the timer by
  who has not checked in yet (`AOnTime`, `Healthy`), and with B hung by what was
  checked in before (`Hung`).
* `InheritanceUnused`, `OwnSemaphores`, `WaitLongEnough` (08): for all times with
  which `run_scenario` waits long enough (`TimesFit`, true of the code's), HIGH
  waits exactly for the rest of LOW's sleep, tasks keep to their scenario's
  semaphore, and scenarios with a given semaphore finish.  `ScenarioInv` says
  where each task is at each tick (`LowPlace`, `HighPlace`, `MidPlace`,
  `Handover`).  No step of the proof looks at a priority, which is the point:
  inheritance has nothing to do here, as `mutex_no_help` shows of the code's times.
* `QueueStaysShort` (04): for all producers, periods and depths, if the consumer
  outranks the producers as in the code, the queue holds at most what they sent
  before the consumer was created, and a single packet once that is handled.
  `BacklogInv`: a producer created before the consumer has sent once and sleeps
  (`SendsOnce`, no time passes before the consumer exists), and what is sent
  later is taken before the next send (`CatchesUp`).
* `LowestKeepsPace` (03): for all delays of the four tasks, so for the code's,
  which the run cuts down, the Logger waits for one computation of Process at
  most and its report counts no more runs than fit.  `PaceInv` relates the runs
  counted to the time since the last report and what is left of the delays
  (`SensorPace`, `ProcessPace`).
* `SensorsInLockstep` (24): for any number of sensors and rounds, if no sensor
  samples for less than the pulse lasts and all are done within the two timeouts
  (`WaitsFit`: 0.3, 0.6 and 0.9 s against 0.1, 2 and 5 s in the code), no round
  times out and each sensor sees each pulse once.  `LockstepInv` divides a round
  into four phases and says in each where every sensor is and how its timer
  stands to the controller's; `InTime` and `PulseSeen` derive from it that nobody's
  time is up.  With times that just satisfy `WaitsFit`, one unit less of either
  timeout or a pulse one unit longer makes TLC find `LockstepInv` violated.
* `TypesKept`: the type invariants of all five examples, without any of the
  hypotheses above, from `BoardTypes`: MID has a turn left when it sleeps and HIGH
  began to wait in the past (`ScenarioTyped`), a sensor that announces has a sample
  left and no round is reported twice (`GroupTyped`), only a subscriber checks in with
  the TWDT and its timer stays below the timeout (`TwdtTyped`), and no task of 03
  sleeps longer than one of its delays (`DelayBounds`).

Every inductive invariant was checked with TLC on the run of its module before
it was proved.

Only model-checked:

* liveness (`Terminates`, `ControllerFinishes`, `SensorsNeverStuck`, the fairness in
  `QueueIsFifo`): fairness and ENABLED are beyond the prover;
* what the nine runs refute.

Every safety invariant that a passing run checks is stated by a theorem, under the
hypotheses given with it, of the module or of the board; so are the refinements of
BoundedFifo.

## 6. Not modelled

09, 12 and 13 measure the hardware with one task and keep no state between
measurements; 22 is a target for a debugger; 25 reads eFuses and prints them.
The build scripts call `idf.py`, and `run_all_qemu.sh` runs one example after
the other and looks for a word in its log, which also holds the output of the
build.

Left out of the modelled examples: formatting, logging and the values of
simulated readings; in 02 the level of a heartbeat; in 03 stack marks and the
task list; in 06 the wakeup by GPIO 9; in 07 the benchmark's naked
critical-section loop, which disables interrupts and touches nothing shared; in 11
the comparison of time stamps with 0; in 15 the comparison of eight bytes read in
two ways; in 20 the contents of the buffers, which internal RAM does not cache; in
23 the intervals and their histogram.  17, 18 and 21 are modelled in part: since
they never get past their first boot, resets that they do not ask for are left
out, and so is what a power failure does to a dump.  Memory failure is modelled
where the code looks at it (04, 19, 20).

Lines 6 to 12 of 01 say that the chip has no `mcycle` and that reading it raises an
illegal-instruction exception; 01 reads PCCR instead.  07, 10 and 11 do read
`mcycle`, as do 09, 12 and 13: if 01 is right, 07 stops at the benchmark after its
two phases, and 10 and 11 at their first sample.  All three are checked on the
assumption that the counter is there and counts.

## 7. Plan

All runs' safety invariants are proved.  What would say more: the theorems on 04,
06, 07, 11 and 24 restated of MCInterleavings' `BoardSpec`, as those of the other
two boards are; a theorem that `Stay` is the only step left when a program of
MCPeripherals has returned, as the step from safety towards termination; and, if
a version of the prover handles ENABLED, the liveness properties, of which
`ControllerFinishes` can build on bounds that are proved already
(`SensorsInLockstep`).
