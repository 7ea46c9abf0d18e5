# Verification of the XPS 9350 configuration

This directory holds TLA+ models of the ACPI code in this repository and of the
C++ code of the Lilu SDK it ships, the TLC configurations that check them on
small instances, and theorems about them checked with TLAPS. Paths below are relative to `src/`; "SSDT-TB3" is
`patches/thunderbolt/SSDT-TB3.dsl`, "DSDT" is
`BIOS 1.13/ACPI/TB-On/Disassembled/DSDT.dsl`, and the Lilu headers are those in
`OC/OC/Kexts/Lilu.kext/Contents/Resources/Headers/`.

## The system

The repository configures a Dell XPS 9350 to boot macOS with OpenCore. The code
in it is ACPI source language (ASL): the owner's patch tables in `patches/`,
and the firmware's own tables as disassembled in `BIOS 1.13/`, which the patches
extend, rename and call. The boot loader then injects kernel extensions, which
are binaries except for the SDK of one of them, Lilu: headers with the code that
is compiled into every plugin (containers, patching of virtual tables, solving
of symbols), and the entry points of a plugin. The rest is data for the boot
loader. ASL has no threads of its own: the operating system evaluates
methods, for device power changes, for events (GPEs), for sleep and wake, each
on its own thread. One method at a time runs in the interpreter, and threads
change over where a method sleeps or waits. The other party is hardware, which
does what it likes at any moment. The Lilu code runs on kernel threads,
with real concurrency: an action of its models is one access to shared memory
unless a lock makes a longer stretch one.

### Inventory

| Component | State | Operations | Talks to | Hard parts, and what makes it correct |
|---|---|---|---|---|
| **CIO mailbox**, SSDT-TB3 1332-1468 | the mailbox registers at 0x530 of the upstream bridge UPSB: DWIX, PORT, SPCE, CMD, PROG, TMOT, WDAT, RDAT | `CIOR`, `CIOW`, `CRMW` | Thunderbolt controller | Commands that time out are not cancelled; the controller disappears. A reported success must be a fact, and a masked write must touch the mask only |
| **Boot restore**, SSDT-TB3 51-1069 | the record R020 ... RH14 of the bridge configuration, `POC0` | `_INI`, `ICMD`, `CNHI`, `WTLT`, `WTDL`, `DLTC`, `ULTC`, `UPCK` | the root port, UPSB, DSB0-2, the NHI, the ICM firmware | Registers are reached through bridges the same code configures; a missing device reads as all ones, and so may its record. Success must mean restored; the boot must not hang |
| **Hot-plug GPE**, DSDT 16830-16890, 17027-17265, 17607-17711, 18002-18660 | mutex OSUM, event WFEV, secondary bus of the root port, force-power GPIO | `_E42`, `THDR`, `RSMI`, `DMSI`, `GNIS`, `TBFF`, `OSUP`, `TINI`, `RPTS`, `RWAK`, `PCI0._INI` | the OS's GPE and sleep threads, the controller | Two GPEs and the sleep thread at once, a temporary bus number, a lock and an event that are both waited for |
| **Command registers**, SSDT-TB3 299-322, DSDT 16875-16889, 18002, 18376 | P2TR/T2PR | `TBTC`, `OSUP`, `DMSI`, `SXTB` | the controller | Users of one register pair that nothing keeps apart. No command may stay behind for the controller to find; every call must return |
| **Power methods**, SSDT-TB3 336-568, 1160-1330, 2047-2193 | IIP3, PRSR, the link bits LDXX, LTRN, LACR, TSPD | `PCEU`, `PCED`, `PCDA`, `_PS0`, `_PS3` | each other, the OS's device power management, the mailbox | Shared flags written by several devices' methods across sleeps. The link must not be taken down under a device in use; powering on must end, and in time |
| **WMI events**, DSDT 30950-31300, 32948-33035 | WMEV, WMBU, ECD0, mutex WMIX | `NEVT`, `WMNF`, `_WED`, `WQAA`, `WED0` | the OS's notification workers, the EC | A mutex acquired and never released, one buffer for all answers. No event may be stranded, no answer may be another's |
| **Embedded controller**, DSDT 32167-32881, SSDT8 of the TB-On dump 649-757, 2085-2125 | the EC's selectors, mutexes ECMX, ECM1, PATM | `ECR1`, `ECW1`, `ECG6`, `ECG9`, `ECM8`, `PAT0`, `PAT1`, `KDRT`, `_Q66` | EC firmware | Banked registers, mutexes with timeouts. What is read must be of the battery, what is written must go to the sensor that was meant |
| **Combined battery**, `SSDT-BATC.dsl` in `OC/OC/Kexts/SMCBatteryManager.kext/Contents/Resources` | none | `_STA`, `_BIF`, `_BIX`, `_BST` | BAT0, BAT1 | 32-bit "unknown" values in 64-bit arithmetic; batteries that come and go |
| **Lilu containers**, `kern_util.hpp` 664-1150 | slots; a ring and its recursive lock; a block of elements | `ThreadLocal`, `CircularBuffer`, `evector_base` | kernel threads, the allocator | A table without a lock; statements between two counters; memory that moves or is refused |
| **Lilu patching**, `kern_patcher.hpp` 195-300, 438-450 | entries of virtual tables, saved originals, solved addresses, one error code | `routeVirtual`, `solveMultiple` | threads in the kernel, other plugins, reloaded kexts | Tables are written while others run through them; results of an earlier load |
| **Lilu plugin start**, `Library/plugin_start.cpp` | startSuccess, selfInstance, the API lock | `kern_start`, `kern_stop`, `probe`, `start`, `stop` | I/O Kit, Lilu | A kext whose callbacks are registered must not go; registration closes at some point |
| **Lilu helpers**, `kern_util.hpp` 466-538, `kern_time.hpp`, `kern_cpu.hpp` | none | bit fields, alignment, timers, core numbers | - | Width of the integers |
| **Sleep wrappers**, `patches/SSDT-PTSWAK.dsl`, `SSDT-GPRW.dsl`, `SSDT-XOSI.dsl` | none | `_PTS`, `_WAK`, `GPRW`, `XOSI` | the renamed ZPTS, ZWAK, XPRW | Stateless; the renames of `OC/OC/config.plist` have to fit |
| **Static tables** (`SSDT-AC`, `-ALS0`, `-DMAR`, `-DTGP`, `-HPET`, `-MCHC`, `-MEM2`, `-PLUG`, `-PNLF`, `-PS2K`, `-USBX`, `-TPDX`, `-BCKM`, `xhc/*`) | none | packages, buffers, single notifications | macOS drivers | none |
| **OpenCore data, kext binaries, other headers** | - | - | - | Data, binaries and declarations of what is in them |

`PROJECT.json` lists, component by component, what is modelled and why the rest
is not, and under `hazards` the line at which each hard case bites.

## Modules

| Module | What it is |
|---|---|
| `CioMailbox` | CIOR, CIOW and CRMW, with the controller behind the mailbox |
| `MaskedWrite` | what CRMW promises: the abstract specification |
| `MCCioMailbox` | the calls and register values TLC uses for `CioMailbox` |
| `CioMailboxProofs` | theorems about `CioMailbox` |
| `IcmDisable` | RP01._INI down to the reset of the ICM |
| `IcmDisableProofs` | theorems about `IcmDisable` |
| `TbtGpe` | the hot-plug GPE against sleep, wake and boot |
| `TbtMailbox` | TBTC, OSUP, DMSI and SXTB on the command registers |
| `MCTbtMailbox` | `TbtGpe` and `TbtMailbox`: side by side |
| `TbtProofs` | theorems about both |
| `TB3Power`, `TB3PowerProofs` | the power methods of the root port and the devices behind it |
| `WmiEvents` | the WMI event path from the EC's query to `_WED` |
| `EcBanks` | the banked registers of the EC and the methods that select banks |
| `BatteryCombiner` | BATC: the combined battery |
| `ThreadLocal`, `ThreadLocalProofs` | Lilu's ThreadLocal |
| `CircularBuffer` | Lilu's CircularBuffer |
| `BoundedQueue` | what CircularBuffer promises: the abstract specification |
| `EVector` | Lilu's evector_base |
| `OwnedList` | what evector_base promises: the abstract specification |
| `LiluContainers` | `CircularBuffer` and `EVector`: side by side |
| `RouteVirtual` | KernelPatcher::routeVirtual and the calls through the table |
| `SolveMultiple` | KernelPatcher::solveMultiple over reloads of a kext |
| `LiluPlugin` | the life of plugins, with I/O Kit and Lilu around it |
| `LiluArith` | the arithmetic helpers |
| `MCFirmware` | `BatteryCombiner` with the reports TLC uses for it, `WmiEvents` and `EcBanks`: side by side |
| `FirmwareProofs` | theorems about these three |
| `MCLiluUtil` | `CircularBuffer`, `EVector`, `LiluArith`: side by side |
| `LiluUtilProofs` | theorems about these three |
| `MCLiluPatcher` | `RouteVirtual`, `SolveMultiple`, `LiluPlugin`: side by side |
| `LiluPatcherProofs` | theorems about these three |

The other modules are small enough to be given to TLC as they are. `MCFirmware`,
`MCLiluUtil` and `MCLiluPatcher` are not compositions: their parts share no variable, `part` is
chosen in Init and says which of them moves, and the others stay at one initial
state. In `MCTbtMailbox` it is the GPE that stays at its initial state. TLC explores the sum of the parts' state spaces, not the product, and each
property is about its part; the parts share a run because each is small and the
constants do not interact. Operators marked
"Wrong variant" are not part of a specification: each is a definition with a
plausible mistake in it, which a property is known to find.

### CioMailbox

`pc` is the place in CRMW or the accessor it is in, `phase` which of the three
accesses of an attempt it is (read, write, read-back). `tries` is Local3 of CRMW,
`polls` Local0 of CIOR and CIOW, `val` Local2. `CRMW` is the entry with its one
look at AVND, `Issue` the programming of the registers, `PollAgain`, `PollDone`
and `PollTimeout` the poll loop, `ReadTMOT` the reading of TMOT, `Modify` and
`Verify` what CRMW does with the two reads, `Retry` and `Wake` the end of an
attempt. A register value is a set of bits, so that a mask is a set difference.
CIOR and CIOW are Serialized and CRMW is the only user of them: one call is
under way at a time.

The controller is the environment. It fetches what is programmed, carries it
out, or fails with TMOT set (the write may or may not have landed), or silently
refuses a write; it leaves the bus (everything then reads as all ones, PROG and
TMOT included) and comes back with its registers at power-on values. The
constant `Late` says whether it may carry out a command the driver has given up
on. The code cannot know, so the properties that hold either way are stated for
both; `OnlyMaskedBits` and the refinement's exact effect need `~Late`, for a late
answer to an abandoned read becomes the value a later attempt writes back.

### IcmDisable

`at` is the stage of CNHI: root port, UPSB, link, DSB0-2, downstream link, NHI;
`LT2` is the WTLT call of ICMD. `left` is the Local0 of the loop, `saved` the
record, `cfg` the registers, `slept` the milliseconds slept. Each loop writes a group
of registers and reads one back, so a group has the register that is read back
(`R_20`, `UP19`, `DP19`, `NH10`), one member for the others, and members of
their own for DSB1, DSB2 and DP2C. A value is the firmware's, the one after a
controller reset, zero or all ones. `Reach` says through which other registers
a register is reached; the regions below UPSB have the addresses computed when
the table was loaded (`mapped`). The environment drops the controller, brings it
back unconfigured, retrains links and starts the ICM firmware at any step.

### TbtGpe

`pm` is the thread that runs PCI0._INI, RPTS and RWAK, `pc` the place of each
handler (GPE 0x42 runs `_E42`, GPE 0x6F runs it through THDR). `sbus` is the
secondary bus of the root port: the OS's number, the 0xF0 of TINI (`temp`), or 0
(`none`), where the bus-0 address is the host bridge's, which always answers.
`osum` and `wfev` are the mutex and the event. An action runs from one Sleep,
Acquire or Wait to the next. `WWAK` is one action although it is a Wait and a
Signal: nothing sleeps in between. `fresh` is a history variable: this handler
has waited for WFEV since the last RPTS.

Left out: PGWA, which returns at once for the root port selector of this machine
(TBSE below 0x15); the software SMI of SOHP; debug and port-0x80 writes
that nothing here reads; what RPTS, RWAK and PCI0._INI do for other devices. The OS is assumed
to have configured the bridges before it puts the machine to sleep (`Rpts`), and
to configure them some time after _WAK (`OsRestoresBus`).

### TbtMailbox

`meth`, `pc`, `left` and `seen` are the method, place, remaining polls and last
answer of each thread; `p2tr` and `t2pr` the registers, which read as all ones
while the controller is not `present`. An action is one register access or one
Sleep, finer than the interpreter switches threads. The controller answers a
valid command with bit 0 set, makes a request of its own (0x25, which DMSI
serves), leaves and returns with or without its registers. TBTC and OSUP are
Serialized, DMSI is not. Two details of the code are kept as they are: TBTC
tests for an absent controller after it has tested bit 0, so that it takes all
ones for an answer; and SXTB computes a command with the valid bit and writes
the one without.

### TB3Power

`power` is each device as the OS sees it: `_PS0` runs parents first, `_PS3`
children first. `owner`, `cycling`, `left` and `polls` are of UPSB.PCED, which
UPSB and NHI0 share; XHC2 has a PCED of its own (`PCEDX`, `TrainX`, `AvndX`).
`Settle` to `Train3` are the stretches of PCED between its sleeps. A deadline is
a number of polls; a sleep may take longer than asked, so that a poll may use up
any part of what is left. POFF is false for good, since nothing writes RTBT and
RUSB, so the branches that switch the controller off are not modelled.

### WmiEvents

`nevt` is the query handler, `pc` each worker of the OS in _WED or WQAA. `wmev`
is the set of event bits, `wmbu` what the answer buffer describes. No method
releases WMIX: the interpreter does at the end of the outermost method, which is
part of `Return`. `took`, `told` and `ignored` are history variables.

### EcBanks

A method is the sequence of accesses it makes (`ECG6`, `ECG9`, `PAT`, `KDRT`,
`Q66`), and a thread executes it one access at a time. `bank` holds the three
selectors. ECM1 is waited for without a limit, PATM for 100 ms, which may be
over at any moment while another thread has it.

### BatteryCombiner

`Field`, `How` and `Checked` are the tables the three methods contain as code:
what stands at each index of a package, how two of them are combined, and which
must be valid. The calls to BAT0 and BAT1 are single actions, between which a
battery may change. `MCFirmware` uses values of four bits with "unknown" at
15, below a wider Ones, as the code has 32 bits below 64.

### ThreadLocal, CircularBuffer, EVector

In `ThreadLocal` an action is one atomic access to a thread identifier or one
access to a value; deinit runs when no thread is in a call. In `CircularBuffer`
it is a statement of push or pop, with the recursive lock's owner and depth as
state; a buffer is made, deleted and made again, and each of its three
allocations may fail. `EVector` has the calls as actions, for its users call it
one at a time; `reserve` is the set of what kern_os_realloc may leave behind: the
block extended in place, moved, or refused.

### RouteVirtual, SolveMultiple, LiluPlugin, LiluArith

`RouteVirtual` has one thread that routes and others that call through the table
all the time; `rank` numbers the routings, `due` and `ran` record what a call has
to run and has run. The routing thread is one: routing is done in Lilu's
callbacks or under its API lock. `Orderly` says that a plugin does not route again once another has routed
over it. `SolveMultiple` solves one symbol per step and may be called again after the kext
was reloaded. `LiluPlugin` has kern_start step by step, the service's object as
I/O Kit may treat it, and Lilu closing registration under its lock. `LiluArith`
picks arguments and compares the helpers with what they are for. It has its own
`And`, `Or` and `Complement`, defined by what they do with each bit (`bit`,
`OfBits`), and powers of two and the loop over the packages (`Counted`) as
recursive functions: the operators of the module Bitwise and `^` are closed to
the prover. The machines it picks have as many cores as a byte can count, W being
the width of that byte as well.

## Properties, runs and bounds

| Run | Shows | Bounds |
|---|---|---|
| `cio_exact` | `OnlyMaskedBits`: only masked bits of the named port move; `ImplementsMaskedWrite` | 2 ports, 2 bits, five tries as in the code, 3 polls for 10000, not late |
| `cio_late` | `SuccessMeansSet`: success is the value in the register; `QuietAfterSuccess`: nothing of the call is still to come; `CallsReturn` | 2 ports, 2 bits, 3 tries, 2 polls, late |
| `icm_disable` | `WithinBudget`; `RestoredOnSuccess`; `Returns` | every loop twice |
| `icm_reset_comment` | finding: the reset runs when NVM_AUTH_DONE is clear, the comment says when the firmware has started | as above |
| `icm_config_kept` | finding: DP2C is restored to zero, it was never recorded | as above |
| `gpe_gate` | `TempBusUnseen`, `TempBusPrivate`: nobody meets the temporary bus; `PowerRestored`: the force-power GPIO is left as it was found; `WakeCompletes`, `HandlersReturn` | 2 handlers, 2 sleeps, 1 plug event, 1 poll, 1 round of RSMI |
| `tbt_mailbox` | `NothingLeftValid`: a controller that has stayed keeps no valid command; `CallsReturn` | 2 threads, 2 polls for 100, requests by the controller |
| `tb3_power` | `NotUnderUse`: the link is down only with nothing below it in use; `PowerOnBounded`; `PowersOn` | 5 devices, 2 polls a deadline, link activity reported |
| `thread_local` | `RoomForAll`: the threads set has refused and the slots are together no more than the threads; `GetsOwn`: get answers with what the thread set last | 3 threads, 2 slots, 2 values |
| `lilu_util` | `CircularBuffer`: `NoLeak`, `LockFreed`, `IsQueue` (it implements `BoundedQueue`). `EVector`: `BlockSound`, `IsList` (it implements `OwnedList`). `LiluArith`: `HelpersAgree` | 2 threads, 2 elements, capacity 3; 3 elements, 2 blocks, factors 1 and 2; integers of 5 bits, 3 packages of 3 cores |
| `lilu_patcher` | `RouteVirtual`: `NoNullCall`, `EveryHookRuns`, `NeverTwice`, `CallsEnd`. `SolveMultiple`: `AllOrPrefix`. `LiluPlugin`: `RegisteredStays`, `NoPanic` | 4 plugins, one without orgFunc, 2 callers; 2 requests, addresses at the start, inside and past the end of the kext; 3 plugins |
| `firmware` | `WmiEvents`: `OwnAnswer`, `NothingStranded`, `ToldCurrent`, `CallsReturn`. `EcBanks`: `OwnReads`, `OwnThreshold`. `BatteryCombiner`: `ReportSound` | 2 workers, 2 events; 2 threads, 2 sensors, texts of 2 bytes, without _TMP; 8 reports of 4-bit values |

A property with several parts (`HelpersAgree`, `ReportSound`, `BlockSound`,
`OwnReads`) is the conjunction of definitions that stand before it in its module,
each with its own comment. The inductive invariants and type invariants are not
run properties: they are proved (see below) for every value of the constants.

Why the bounds are enough. A loop that polls tells only "again" from "gave up":
with two rounds a run has a first failure, a later success and giving up, and
the controller can change between any two looks. Two ports give a port that was
not named; two bits give one inside and one outside a mask. Two
sleeps let a handler start before one and end after the next, and let a second
wake find what the first left behind in WFEV. Two handlers are what the machine
has. Two threads or workers are what it takes for one to come between two steps
of another; with the slots of ThreadLocal a third comes between the other two,
and there is one slot too few. Capacity 3 has a start, a middle and a
wrap of the ring. Two events in WMEV are
one more than a worker takes at a time, and docking can change back before
anybody has looked. Four-bit numbers have a sum
that passes "unknown" and stays below Ones. The safety theorems hold for all
values of the constants of the modules they are about.

### Findings

* SSDT-TB3:755. `If (!Local0 = (ICME & 0x80000000))` is true when bit 31,
  NVM_AUTH_DONE, is clear. The comment on that line says "NVM started means we
  need reset", and the branch logs "NVM already started, resetting".
* SSDT-TB3:878. `DP2C = R22C`, but no statement assigns R22C, declared Zero at
  line 117. _INI records all the other registers CNHI restores, between "Save
  Ridge Config on Boot ICM" and "Store Complete". It bites when the firmware
  places the prefetchable window of DSB0 above 4 GB. `RestoredOnSuccess` is
  therefore about every register but this one.

Six more observations were made while modelling. They have no run of their own:
the behaviour is in the models, and the properties are stated so as to say where
it begins.

* SSDT-BATC:100, 334. The test for an unknown remaining capacity compares with
  Ones, which is 64 bits wide here; a battery's unknown, 0xFFFFFFFF, passes and is
  added to the other battery's charge. `KnownOrFirst` is about the guarded fields.
* SSDT-BATC:357-369. Only states equal to 2 count as charging: a critical battery
  that charges (6), beside one that discharges, makes "discharging".
* DSDT:18456. Two handlers in RSMI at once: the second records the toggled GPIO and
  puts that back last. `PowerRestored` leaves out what follows such an overlap,
  which the history variable `mixed` marks.
* SSDT8:714. KDRT writes a threshold without PATM, to the sensor _TMP may have
  selected in between. `OwnThreshold` is checked without _TMP.
* kern_patcher.hpp:444. Routing an entry again is recognised only while no other
  plugin has routed it in between. Otherwise two functions come to call each other
  for ever. `Orderly` rules this out.
* kern_patcher.hpp:270. With `force`, solveMultiple answers true although symbols
  are unsolved, and a request keeps its address from an earlier load of the kext.
  `AllOrPrefix` says what is stored without `force`.

### Fairness

* Methods run on: weak fairness of the driver's actions (`Driver` in
  `CioMailbox` and `IcmDisable`, the steps of handlers and of TINI in `TbtGpe`).
  The interpreter resumes a method after its Sleep whatever the hardware does.
* OSUM is taken with strong fairness (`Tini`, `Enter`): ACPI mutexes wait
  without a timeout here (0xFFFF), and the OS serves the waiters of a semaphore
  in order, so that a waiter is not overtaken for ever.
* The machine wakes up (`Sleep`), and the OS configures its bridges
  (`OsRestoresBus`): WSUB, which loops without a limit, relies on the second.
* `TbtMailbox`, `TB3Power`: weak fairness of the steps of a method that has
  begun; the controller and the links owe nothing.
* `WmiEvents`: weak fairness of the running methods; strong fairness of taking a
  mutex, and of the OS's answer to a query and to a notification, which wait for
  a mutex or a worker that others use as well.
* `CircularBuffer`: weak fairness of a thread inside a call. A thread that waits
  for the lock is owed nothing: `LockFreed` is about those that have it.
* `RouteVirtual`: a thread that runs a function goes on.
* Nothing is owed by the controller, by plug events or by GPEs, nor does the
  machine have to go to sleep.

## What is proved

All theorems hold for every value of the constants, under the named assumptions
in the modules (limits are naturals, those of loops positive, options are
Booleans, `None` is not a command, `Null` not a block, no thread, handler or plugin has
the name of a free lock, the set of workers is finite and without the names "free" and "nevt", W and the
number of packages are not zero, and the jobs of `EcBanks` are
among the six methods it knows, and `BatteryCombiner`'s Ones is beyond two values added
up, as 64 bits are beyond 32). `"_TMP" \notin Jobs` is a hypothesis of
`ThresholdOfTheSensor` alone.

* `CioMailboxProofs`. `StrengthenedInvariant`: `IInv` is inductive.
  `SuccessMeansSet` is not by itself: one has to know that the answer in RDAT belongs to
  the command that was programmed for the read-back (`ReadAnswered`), for which
  in turn an answered access must leave nothing pending (`Settled`) and the
  controller must work on programmed commands only (`CommandPending`). For
  `~Late`, `WriteFaithful` and `Addressed` say the same of the first read and the
  write. From it follow `TypeCorrect`, `SuccessIsVerified`, `SuccessIsQuiet`,
  `ExactWrite` (assuming `~Late`) and `Refinement`: every step is a step of
  `MaskedWrite` or a stutter.
* `IcmDisableProofs`. `StrengthenedInvariant`, `BootDelayBounded` and
  `SuccessIsRestored`. CNHI checks four registers out of more than forty, and a
  check also matches when both sides are all ones. The argument: a record is the
  firmware's value of everything or of nothing below the root port
  (`RecordWhole`), because the configuration is lost as a whole; a bridge whose
  bus number is right has the rest right (`BridgeWhole`), because they are
  written together; and without a good record no link below can ever be seen
  trained (`LateArrival`, `LinkSeen`), so that the last stage is not reached.
  The delay bound is a ranking: what has been slept and what the stages ahead may
  still sleep never exceed the budget (`OnTime`).
* `TbtProofs`. `StrengthenedInvariant`, `WaitersNeverSeeTempBus`,
  `SearchIsPrivate`. The invariant says who owns OSUM (`Owners`), that only TINI
  is on the temporary bus (`TempBus`), and that between RPTS and the end of RWAK
  the event has no unit and no handler past WWAK has waited since (`Gate`).
  `GpioRestored`: a handler alone in RSMI knows what the GPIO was (`Alone`).
  `NoCommandStays`, about `TbtMailbox`: a valid command is in P2TR only while
  some thread is between its write and its clearing of the register, or the
  controller has been away since: the one who writes is always also one who will
  clear, whoever else clears before.
* `TB3PowerProofs`. `StrengthenedInvariant`, `LinkKept`, `DelayBounded`. PCED may
  take the link down only if IIP3 is set, which RP01's _PS3 does with everything
  below it off; UPSB comes up first and uses IIP3 up, so that NHI0, below which
  others may be on, never meets it (`Request`). The delay is a ranking over the
  places of PCED (`Budget`).
* `ThreadLocalProofs`. `StrengthenedInvariant`, `OneSlotEach`, `GetsItsOwn`,
  `SetRefusesFew`. The last is about timing: slots may be given back behind a
  scan and taken ahead of it. A thread whose scan goes past slot s leaves its
  owner behind, so that the threads at or beyond any place s, in their scan or as
  owners, and the s slots below it are together no more than the threads
  (`Ladder`).
* `LiluUtilProofs`, about the containers. `StrengthenedInvariant`, `MutualExclusion`,
  `ImplementsQueue`. The queue is the stretch of the ring from the read index on, as long as the counter
  says, corrected while a pop has moved its index and not yet counted. A push
  takes effect when it counts, a pop when it moves its index, a refusal when it
  is decided; every other step is a stutter. `NothingLeaks`: which of the
  allocations have been made follows from the place withCapacity has reached
  (`Allocated`). `BlockStaysSound` and `ImplementsList`, about evector: the block
  has the room that is counted, and the list is its first `cnt` elements;
  `ReserveGives` says what may be left behind when kern_os_realloc extends, moves
  or refuses, and erase, which moves the elements behind the hole, is
  `VectorErased`.
* `LiluUtilProofs`, about `LiluArith`. `HelpersAlwaysAgree`: `HelpersAgree` for
  integers of any width and machines of any number of packages and cores. The
  argument about fields and alignment goes by bits: what a shift, a rest and the
  three operators do to bit i (`BitShiftLeft` to `ComplementIs`), what the mask
  is (`MaskIs`), and that words with the same bits are the same (`BitsDiffer`).
  The cores are counted package by package (`BelowNumbered`): those before
  package n are as many as the loop has added up, and have the numbers below
  that. Both are inductions, see below.
* `LiluPatcherProofs`. `StrengthenedInvariant`, `NeverNull`, `HooksRun`,
  `RoutedOnce`, all under `Orderly`. The routings are numbered; the saved original of a plugin is the one
  numbered before it (`Linked`), and a call that stands in the chain has yet to
  run exactly those due that are numbered below (`Visits`).
  `AllOrPrefixStored`, about solveMultiple: as far as the loop has come all is
  solved, and from there on all is as before (`Progress`).
  `LifeInvariant`, `RegisteredStay`, `NobodyPanics`, about plugins: whoever
  decides or registers has Lilu's lock, so that what it was told about
  registration still holds (`Locked`), and whoever is registered was told that it
  may load (`Told`).
* `FirmwareProofs`, about `WmiEvents`. `WmiInvariant`, `AnswersOwn`,
  `NoEventStranded`, `OsToldCurrent`, for any finite set of workers. WMBU holds
  what the worker inside WMIX has described (`Locked`, `Undescribed`).
  `NothingStranded` counts: a step takes an event away, adds a notification or a
  worker that looks, or has none to look for; that a worker at its drain finds
  what it has seen is `StillQueued`. `ToldCurrent` needs that the query handler
  does not look for new events before it has passed on those it has (`PassedOn`).
* `FirmwareProofs`, about `BatteryCombiner`. `BatteryInvariant`, `ReportIsSound`,
  for any set of reports. While no battery changes, the locals of a method are
  what the batteries report (`Gathered`), and the answer is made of that
  (`AnswerRight`); the four parts of `ReportSound` then follow from the tables,
  `OneIsReported` to `ChargingIsReported`.
* `FirmwareProofs`, about `EcBanks`. `ReadsOfTheBattery`: `OwnReads` for any
  threads, any choice of the methods, texts of any length. `ThresholdOfTheSensor`:
  `OwnThreshold` unless `_TMP` is among the methods, with which it fails. What a method does at a place is stated
  once for each: `ECG6Code`, `ECG9Code`, `PATCode`, `KDRTCode`, `Q66Code`. The
  invariants `ReadsInv` and `ThresholdInv` say that a method has its mutex from
  its first access on, that the selector has its value from the selection on, and
  of a text how many bytes have been read and which is next (`TextSoFar`); the
  proof does one thread at a time (`ReadsRight`, `PlacedRight`). A method that
  does not own ECM1 is at its first access or touches none of the batteries'
  registers (`SensingDoes`), so that a step of another thread leaves a thread's
  part alone; `_Q66`, which may be without PATM, selects no sensor
  (`OthersElsewhere`) and cannot release the mutex for another (`MutexKept`).

What a liveness property needs. The conclusion, that something happens under the
fairness stated, is left to TLC, but what it rests on is safety and is proved, in
one theorem for each. Every step of whoever has to get on lowers a rank, a
natural number or several in lexicographic order; no step of anybody else raises it; and while
something is waited for, somebody is there who can do it. What then remains is
only that those who can go on do so.

| Property | Theorem | What is proved |
|---|---|---|
| `CallsReturn` (`cio_late`) | `CallsRunOut` | CRMW has at most (LastTry + 1) * (3 * PollMax + 13) own steps, 150065 for the values in the code, whatever the controller does |
| `Returns` | `IniRunsOut` | _INI has a bounded number of own steps over all its loops, none of which is entered twice; at its end POC0 is zero (`TakenBack`) |
| `CallsReturn` (`tbt_mailbox`) | `MailCallsRunOut` | a call has at most 3 * PollMax + 3 steps, whoever else uses the two registers |
| `WakeCompletes`, `HandlersReturn` | `GpeRunsOut` | the rank is the plug events still to come, then the place, then the polls left, for a nested _E42 begins anew; the owner of OSUM waits for nobody, and WFEV is signalled or RWAK has yet to signal it (`WaitsEnd`) |
| `PowersOn` | `PowerOnsRunOut` | a device that is being powered on has its PCED at work (`BeingWorkedOn`), for at most 3 * Limit + 6 steps more, Limit + 2 for XHC2's |
| `CallsReturn` (`firmware`) | `WmiCallsRunOut` | a worker is at most five steps from its end, and whoever holds a mutex can go on: the holder of ECMX waits for nothing, the holder of WMIX for ECMX at the most (`HoldersGoOn`) |
| `LockFreed` | `LockIsFreed` | the owner of the lock is inside a call and at most six statements from the unlock (`OwnerGoesOn`) |
| `CallsEnd` | `CallsPassDown` | under `Orderly`, a call passes at most as many functions as are routed and the original, however much is routed before it ends |

Induction. The library's theorems on induction take an operator as a parameter,
which no prover here can instantiate, but the well-foundedness of < on the
naturals is stated about sets. From it follow `Least` and `NatSetInduction`,
induction for the members of a set, and from that what a recursive function needs
before anything can be said of it, that there is one (`IteratedIs`, `Pow2Is`,
`CountedIs`).

In TLA+ the value of a CASE two of whose guards hold is not determined. TLC takes
the first, and hid this in two models; the code's chains of If and Else are
nested IFs in them now (`Sleep` and `Test` of `TbtMailbox`, `Combined` and
`CombinedState` of `BatteryCombiner`).

Model-checked only:

* The liveness properties (`CallsReturn`, `Returns`, `WakeCompletes`,
  `HandlersReturn`, `PowersOn`, `LockFreed`, `CallsEnd`) themselves: fairness
  speaks of what is enabled, which is beyond the prover. Their safety half is
  proved, see the table.
* The two findings, which are counterexamples.

## Plan

What could be added, most useful first:

1. An abstract specification of the WMI queue (every event is described to the OS
   once or ignored) and of evector's reserve.
2. The SMI mailbox of WMAA (SMIX), once there is a description of what the
   management handler does with its buffer.

## Not modelled

* Static tables, the boot loader's data and binaries have no behaviour of their
  own here. The sleep wrappers are stateless.
* SMM, the EC's firmware and the kernel are not in the repository; they are the
  environment of the models.
* The TB-Off dump is the same DSDT with Thunderbolt off in setup, and
  `SSDT-TB3-PXSX.dsl` repeats SSDT-TB3 under another device name.
* Of the C and C++ in the repository, all of it headers of binaries but for
  `plugin_start.cpp`, more than half is the enumerations of the Capstone
  disassembler (`Headers/capstone/`), and most of the rest declares functions of
  binaries that are not here as source. What has a body is small: the
  containers, the inline part of the patcher, the helpers and the plugin's start,
  which are modelled. So the models cover little of it by lines, although little
  of what can be modelled is left. Bodies left out: one-line accessors and casts,
  string and hash helpers, and wrappers that call an exported function.
* Known behaviour that no property is stated for, because no text of the
  repository says what it should be, is listed with a note under `hazards`: the
  sensor selected by KDRT without PATM, the stages CNHI has written when a later
  one fails, and acknowledgements taken by the wrong one of two users.

## Running

    tlc -config TbtGpe.cfg TbtGpe.tla
    tlapm TbtProofs.tla

with the module and configuration of each run as in `PROJECT.json`.
