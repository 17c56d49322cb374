# TLA+ models of hda-emu

hda-emu runs the Linux HD-audio codec driver in a user process.  It stubs the
kernel interfaces the driver needs, emulates one codec from a proc file, and has
a shell in which a user plugs jacks, plays test streams, changes controls,
sends verbs and suspends the codec.  The modules here model the program's own
logic: the stubs, the emulated codec and the shell commands.  The kernel driver
is not part of the repository; where it matters it appears as a client that
calls the stubs in any order they allow.

The program has one thread.  Its concurrency is of another kind: commands of the
user, callbacks of the driver and module-level operations arrive in orders
nobody planned, and the driver's callbacks see states in the middle of a
command.  Almost every property below is about such orders.

## Inventory

| Component | State | Operations | Where it is hard | Module |
|---|---|---|---|---|
| Codec device: binding, runtime PM (`snd-wrapper.c` 770-921) | `_bus`, `registered_drivers`, `dev->driver`, `pmcnt`, `pmsuspended`, `pmallow` | register, add, attach, release, delete; get/put in five variants, allow, forbid, force suspend and resume | the count, the flag and the permission are changed by different calls; rebinding and system sleep bypass them | `RuntimePM` |
| PCM tests (`hda-emu.c` 556-972) | `pcm_streams`, `num_pcm_streams`, `ref_count`, `substream_opened` | test all/start/end, list, clear, reconfig | three error exits, streams left open over other commands, tables that outlive the PCMs | `PcmTest` |
| Virtual master (`snd-vmaster.c`) | followers, their saved values, the master's value and range, the hook | add, get, put, sync, free, hook | lazy initialisation, failing followers, uncached followers | `Vmaster` |
| Coefficients (`hda-int.c` 650-707) | `coef_idx`, `coef_tbl` | set/get index, set/get coefficient, load | register and list entry have different widths | `Coef` |
| Amplifiers, connection, pin control (`hda-int.c` 149-318, 403-496) | `amp_in_vals`, `amp_out_vals`, `curr_conn`, `pinctl` and their originals | set/get verbs, randomize, re-initialize | index rules by widget type, unsigned clamps | `Widget` |
| Dispatch, vendor verbs (`hda-int.c` 1147-1201, `hda-spec.c`) | `value_cache`, `rc` | `hda_cmd` | failed commands and extensions between a set and its get, bytes of a register | `Vendor` |
| Jacks and events (`hda-emu.c` 404-430, 525-550) | `jack_state`, `unsol`, `power_current` | jack, unsol, verbs, driver suspend and resume | events lost in D3, retagged pins, truncated tags | `Jack` |
| Controls (`snd-control.c`, `ctljack.c`, `snd-wrapper.c` 361-395, 671-735) | the control list, ids, numbers, jack status, chmap link | add, remove, rename, find, notify, jack report | long sequences of add, refuse, rename, remove | `Controls` |
| Proc file parser (`hda-parse.c`) | `parse_mode`, `current_node`, the codec being built | one handler per kind of line, per section | modems in front of the codec, lines that end a section, what is left of a codec passed over | `ProcParser`, composed in `Startup` |
| Fixups (`hda-spec.c` 505-721) | connections and capabilities of nodes | one per vendor, after parsing | applied again to the dump of an edited codec | `Fixups` |
| Node parameters and simple verbs (`hda-int.c` 287-1080) | the fields of `struct xhda_node` | set and get verbs, parameters | values that depend on the group's, bits that are refused | `CodecNode` |
| Codec dump (`hda_own_proc.c`) | none | print the codec as it answers | writer and parser must agree | `ProcFile` |
| Routes (`hda-int.c` 1369-1501, `hda-emu.c` 1050-1140) | none | routes to and from a widget | depth bound, cycles | `Routes`, composed in `RouteCommand` |
| Pin overrides (`hda-emu.c` 1140-1227) | pin configurations | apply a pair, a sysfs entry, a file | several options, sections, lines that end the reading | `Startup` |
| Hints (`snd-wrapper.c` 57-196, `hda-emu.c` 1229-1291) | the hint array | set and get a hint, from options, files and the shell | a full table, order of sources | `Shell` |
| Command loop (`hda-ctlsh.c` 675-1009) | the line | choose a command and a file by prefix, flush work | what a turn leaves behind | `Shell` |
| Work queue (`include/linux/workqueue.h`) | `__work_pending` | schedule, cancel, flush | one place only, work that schedules itself | `Shell` |
| Register cache (`lib/hdac_regmap.c`) | cached registers, modes | read, write, update, sync | cache-only, bypass, errors in a sync | `Regmap` |
| Lock debugging, memory tracking, LED class (`snd-wrapper.c`) | lock words, allocations | lock, unlock; malloc, free, realloc | misuse is logged, not refused | not modelled |
| Line editing, log, decoding, tester, data | none of interest | | | not modelled |

How they interact.  A shell command (`hda-ctlsh.c`) calls a function of
`hda-emu.c`, which calls into the kernel driver.  The driver answers with calls
of the stubs: runtime PM (`RuntimePM`), controls (`Controls`), the virtual master
(`Vmaster`), and commands to the codec, which all go through `cmd_send` and
`hda_cmd` (`Vendor`) to the handlers of a widget (`Widget`, `Coef`, `Jack`).
Events go the other way: a jack command changes a pin and queues an event, whose
work runs at once inside the same call because `schedule_work` is a plain call.
Delayed work waits for the end of the turn of the command loop (`Shell`).  Before
the loop starts, the codec the commands work on is read from a file, edited and
overridden (`Startup`); the dump command writes such a file again.

## Modules

**RuntimePM** has an action per stub.  A usage count is a token of `Ref`:
`holders` are the counts handed out, `awake` those whose holder may count on an
active device: every count of `pm_runtime_get_sync`, and of the other gets those
granted on an active device.  These two, `unidled` (the last count left through
`pm_runtime_put_noidle`), `sleeping` and `chip` (what the driver's last callback
left) are history or environment; the other variables are the fields of
`struct device`.  `check_resume` and `check_suspend` are operators on the count
and permission just stored, exactly where the code calls them.  A driver in
`willing` is one whose match and probe succeed.  `hda_set_power_save` stores the
option and the kernel's reaction, which may allow, forbid or leave the device.
Bound: `Ref` limits the counts outstanding at a time; a driver registers once.

**PcmTest** instantiates RuntimePM as its device, with one token per substream
and two for `main` and `hda_codec_reconfig`.  `pc` is the place a command has
reached; each step between two callbacks of the driver is an action, in the order
of `hda_test_pcm`.  The kernel's `snd_hda_codec_reset` is external: it refuses,
or frees the PCMs and unbinds the driver, and both callers ignore which.  The
driver may create each PCM once over the run: this bounds reconfigurations that
create something.  The list of PCMs and a test given the number of a PCM without
substreams, or of one that a reconfig freed, read entries that name no PCM the codec
has; `ReadsNoPcm` leaves open whether the program survives that, and `crashed` is where
it does not.  `cleared` are the PCMs that a clear took out of the table.

**Vmaster** has the followers in the order they were added, what their own
callbacks would read (`hw`), and the saved values (`vals`).  `hw` of a follower
marked `SND_CTL_FOLLOWER_NEED_UPDATE` may change by itself.  A `Faulty` follower
refuses every write.  `late` remembers followers added below a master that is
already attenuating and not written since: the code leaves these alone on
purpose or not, and the property excepts exactly them.  The master is given any
integer, in its range or not, as `master_put` checks nothing; followers are given
values of their range, and sums of these do not overflow an `int`.  `hookval` is what
the hook was told last, `missed` that a value since then was not told.

**Coef** keeps the list, newest entry first, with the stored index cut to its
width and the index register not.  **CoefMemory** is what it promises: a memory
addressed by the register.  **Widget** chooses one widget of the set `Node` and
runs all verbs on it.  An amplifier verb has one index for both its directions, of which
the output branch leaves a 0 to the input branch when it was wrong (`set_index`).
**Vendor** runs `hda_cmd` with one register of each shape
that occurs in the tables of `hda-spec.c`: three bytes, two bytes, read and write,
read only, and write under a get number.  **VendorRegs** is what
it promises: registers of three bytes.  **Jack** puts the jack and unsol commands
against a driver that enables detection, sleeps and wakes, and a user whose verbs
change the event setup or the power state behind the driver's back.  `missed` are
the pins whose last change had no way to the driver, computed from the setup and
not from whether the driver was told.  **Controls** has the list of controls and
all that finds its way by id or by number.

**Startup** composes five modules that share the codec record of **CodecNode**
(`struct xhda_codec` and `struct xhda_node`, with packed words as records).  A file
is what **ProcFile** writes for the codecs of a real machine, with the PCI list in
front and the sysfs section behind; each line is its keyword and its values.
**ProcParser** is a function from a parser and a line to a parser, with one operator
per handler of `hda-parse.c`; `ReadLine` applies it to the next line, `EndOfFile`
is the end of `parse_codec_proc` with the **Fixups**.  Then come the options `-P`:
`override_pincfg` finds the pair, the entry or the file an option names, `ReadPins`
reads a line of it as the loop of the code does, with its two flags, and `EndOfPins`
leaves it.  Then the driver starts, a verb is sent, and `hda_log_dump_proc` writes the
file with which the program is started again: the same parser then reads what the same writer wrote of
the emulated codec, in the way a user compares or shares dumps.  `written` is the
codec as it was read first, and then as it was dumped.  An announced node that does not exist is not dumped
(`NoGap`): the driver would print what the last verb left as a response; nor is a list
that is longer than its array (`ListsFit`).  A line that
makes the parser write through no node or behind an array, and a fixup that adds to a
full list, are undefined behaviour: the model does not follow what comes after, it ends
with the error `fault`.  Lines, names and vendors are members of small sets; nothing
looks into them further than the parser does.  **RouteCommand** adds the route command, which changes nothing: the
**Routes** of every widget of the codec in each state of `Startup` at the prompt.  It is a
module of its own because the route searches are recursive operators, which no module
with theorems may use.

**Shell** is `main` from the options `-H` to the command loop.  An option is selected,
then its file, entry or line is read, a line a step.  A turn of the loop is `readline`, the handler, `EndTurn` with its flush, and `Prompt`.  What handlers do to
components modelled elsewhere is left out; what they let the driver do with works
is `DriverCall`: it schedules, cancels, runs and flushes as it likes.  A work's
function may schedule the works `Again` allows it, before the flush returns.  `told`
are the pairs given as hints so far, in their order; comments, titles and lines that
are refused tell nothing.

**Regmap** puts the calls of the register map between a driver and registers whose
reads and writes may fail.  `told` has the value a register was given last, and `past`
the registers that got it past their cached value, by an update of bits or a write with
the cache bypassed: the codec has it, readers do not.  A sync that writes the cached
value over it takes it back, and removes the register from both.  So does a write that
goes nowhere, because it is cache-only and not cached.

Where one proof module extends two specifications, the names of the second are
prefixed (`JackInit`, `VendorSpec`, `coef_rc`).  MC modules give the constants their
values for TLC.  `PROJECT.json` maps each
definition to its lines.

### Definitions marked "Mutant"

Next to some definitions stands a second one with a comment `Mutant:`.  It is the
definition with a plausible mistake.  Nothing uses it; it documents which
mistake each property notices, as listed in `PROJECT.json`.

## Runs

| Run | Question | Bounds and why they are enough |
|---|---|---|
| `runtime_pm` | Do the count, the flag, the permission and the driver's callbacks stay in step? | three counts (a get and a put around a third), two drivers (a rebind to another), 12 788 states |
| `pcm_test` | Does every way out of a test balance power and open counts? Can an open stream be ended? | an analog PCM with two playback substreams (two open in one direction), a capture PCM, an empty one, table of two (it overflows), 210 342 states |
| `pcm_list` | Are the listed PCMs there? **No** | the same without the empty PCM and without overflow |
| `vmaster` | Is what is heard the user's value below the master's? Does the hook know the master's value? | a cached, an uncached and a failing follower, three levels of volume and switches, a master in, at the ends of and above its range, 837 440 states |
| `coef` | Is the list a memory? | index space of two and a register up to 4, so that it passes the end twice, 295 601 states |
| `widget` | Do values stay in range and within the connections? | a mixer, a mute-only selector, pins with and without the workaround, indices at and past the connection count, 17 520 states |
| `vendor` | Do gets return what sets stored? | four families, with and without an extension; parameters 0 and 255, the bytes' extremes, 17 376 states |
| `jack` | Does the driver know the jacks? Is D3 quiet? | two pins, tags beyond what a response holds, 102 400 states |
| `controls` | Do ids, numbers, links and notifications stay consistent? | a two-element control, two jacks of one name, two maps competing for one id, one rename, 697 871 states |
| `codec_file` | Is the right codec read, do options override, are routes complete, does a dump read back? | nineteen files: one to three codecs, modems in either place and of each style of function group lines, card lists with numbers and with names, sysfs entries, each vendor with a fixup, no codec, lists as long as the array (six here), one longer and of 128, a full mixer that a fixup adds to; `-i` absent, 0, 1, 2; two of five `-P` options; one of 23 verbs before a dump; nodes with up to five connections (two words of a list) and a cycle; routes of up to four nodes, 57 929 states |
| `shell` | Do hints keep their last value? Does pending work run? | a table of two for four keys, two options and up to five lines; two works, one of which schedules itself; two calls by the driver per command, 101 509 states |
| `regmap` | Do readers see what was written? Does a sync repair? | registers that are cached, volatile, read-only and write-only, one bit each, two regions, every mode, 462 848 states |

Deadlock is checked except in `vmaster`, where everything may be freed, `controls`,
where every control ever created may be gone, and `codec_file` and `shell`, where the
program ends.

### Fairness

Only `shell` has a liveness property, and with it a fairness assumption: weak
fairness of `Program`, the steps the program does by itself.  One thread that is not
waiting for a line goes on, so that this is what the operating system gives.
Nothing makes the user type: `readline` and `EndOfInput` are not fair, and a program
may stay at the prompt for ever.  The driver's calls between two prompts are bounded
(`MaxSteps`), which is the assumption that its functions return.  `WorkRuns` then
says that what a command left pending is taken before the next prompt, or the
program ends.  The other runs need no fairness: commands run to completion in one
thread, and what must "eventually" happen is stated as what holds at the prompt.

### What fails

* After `fs set reconfig` the PCM table names freed PCMs (`hda-emu.c` 568-588
  lacks the `reset_pcm` that `hda_codec_reset` has).

What the models show or contain besides, each against a word of the source:

* The first write of a virtual master that nobody has used gives the hook the
  default, not the value (`snd-vmaster.c` 335-357, against 442-443).  `HookKnows`
  excepts that write and nothing else: the hook then believes in the top until the
  next change or sync.
* A virtual master takes values above its range and then amplifies
  (`snd-vmaster.c` 335-357, against 254).  `Attenuated` states what is heard, and
  `UserValueKept` promises not to raise a follower only for values in the range.
* STAC9205's `get_analog_loop` writes (`hda-spec.c` 179).
* A dump is not identical to the file it came from, as `README` 159 has it: one value
  of an amplifier that is not stereo is written as `[0x80]`, which the parser does
  not read (`hda-parse.c` 154), and behind the connection list of a node nothing of
  it is read, so that its number of coefficients is lost (`hda-parse.c` 300).
  `ReadBack` states what comes back.
* A route of `MAX_ROUTE_DEPTH + 2` nodes passes the depth check, and its last node
  is stored over the pointer to the next list (`hda-int.c` 1402, 1425, against
  `include/hda-types.h` 146).  In `Routes` such a route has a node that is none, and
  `RoutesFound` is about those that fit.
* Counts of 33 to 127 connections are believed, arrays have 32 (`hda-parse.c` 274-278);
  `fixup_via_mixer` adds to a list of any length (`hda-spec.c` 527), and amplifier
  values are stored without counting them (`hda-parse.c` 151-164).  Such a file ends in
  a `fault` in the model, and `RightCodec` says which files do.
* The list of PCMs reads the entry of every number below `num_pcm_streams`
  (`hda-emu.c` 671), and PCMs without substreams take numbers without an entry, also
  past the end of the table (`hda-emu.c` 914-935).
* A clear empties the table of PCMs also when the kernel refuses the reset
  (`hda-emu.c` 559-563), and streams that are open then can no longer be ended.
  `OpenCanBeEnded` excepts their PCMs.
* `AFG Function Id` is never recognised (`hda-parse.c` 427), because the line before
  compares with `Function Id` from the start; a modem group of a codec described by
  newer kernels is therefore taken for a modem codec.
* `[hint]` in a firmware file is compared with one character too many
  (`hda-emu.c` 1273): hints of firmware files are never read.  `Shell` models that.
* A write in cache-only mode to a register that is volatile, or with bypass, returns
  success and goes nowhere (`lib/hdac_regmap.c` 106-112).
* What the driver leaves pending before the first prompt runs after the first
  command, since the loop flushes at the end of its turns.

Other behaviour the models contain and the properties except, worth knowing when
reading them: an amplifier without steps is clamped to `0x7f` (`hda-int.c` 161);
`substream_opened` is cleared when one of two substreams ends (`hda-emu.c` 900);
`pm_runtime_forbid` does not wake an idle device (`snd-wrapper.c` 917);
`pm_runtime_get_if_in_use` may grant a count on a suspended device
(`snd-wrapper.c` 869); a rename may duplicate an id or drop a number
(`snd-control.c` 103); a second delayed work replaces a pending first
(`include/linux/workqueue.h` 31); a follower added late plays unattenuated until written.
For these no property of the runs says otherwise, since the code does them and nothing in
the repository promises they do not happen; the hazards of `PROJECT.json` say so in their notes.

## Proofs

Eight modules hold theorems.  Together they state every invariant and every action
property that the runs check, but for three of `codec_file` (see *What is only model-checked*), and
the refinements of `Coef`, `Vendor` and `PcmTest`.  Each follows the same argument: an inductive invariant (`IInv`;
for `Coef`, `Vendor` and `Jack` the type invariant, with `JackKnown`), a lemma that the
initial states have it, a lemma per action or group of actions that steps keep it, and
theorems that read the properties off it.  TLC checked each of these as an invariant
of the component's run, and each proof was seen to fail on the mutants of its
properties.  The bounds of the runs are constants like the others, arbitrary but for
named assumptions, which TLC evaluates on each run.

### Runtime PM (`RuntimePMProofs`)

Assumptions: `Ref` is finite (`RefAssumption`) and `NoDriver` is not a driver
(`DriverAssumption`).  `IInv` is the conjunction of the type invariant and the four
safety invariants.  None but the first two is inductive without the others:

* `CountIsHolders` is inductive with the type invariant alone, through the lemma
  `HolderCount` on the cardinality of `holders` with one count more or less.
* `HeldStaysAwake` needs it: `check_suspend` looks at the count, the property
  speaks of the holders.
* `ActiveChipUp` needs that a probe brings the chip up, and what the driver's
  removal does to `sleeping`.
* `IdleIsSuspended` needs that a resume requires a positive count.

`BindingIInv` shows that driver binding preserves it, `PowerIInv` that power
management does, action by action.  `FlipsForUseOnly` is the action property,
from the invariant before and after the step.

### PCM tests (`PcmTestProofs`)

Assumptions: the PCMs are finitely many and none is called like the references of
`main` and the shell (`PcmAssumption`), the table's size is a number
(`StreamAssumption`), the driver exists (`DrvAssumption`).  The device is not looked
into: `Dev` instantiates `RuntimePMProofs`, whose assumptions `RefFacts` proves of the
substreams, and every call of the device keeps `Dev!IInv` by the lemmas proved there.
A lemma per call (`GetKeeps`, `PutKeeps`, ...) adds who holds a count afterwards.
`PowerHeldForOpen` and `OpenCanBeEnded` speak of the prompt only; `HoldersOK` says for each place inside a
command which stream has its count missing or in excess, `BooksOK` which flag may
stand alone for a moment, `TableOK` that no PCM of the codec leaves the table but by a
clear, and `DeviceOK` that whoever holds a count was given an active
device, and that a system sleep ends with its command.  `CallbacksFindChipUp` then
follows from `ActiveChipUp` of the device and from the holders.

`SessionIsDevice` is the refinement: each step of a session, in the middle of a command
or not, is one of the device or leaves the device alone (`StepIsCall`).  With it
`DevicePromises` carries the properties proved of `RuntimePM` over to every session.  That
holds because a client that calls the stubs in an order of its own is one of those
`RuntimePM` allows; the proof shows that PCM tests are such a client, also where they
return a count early or keep one over the end of a command.

### Virtual master (`VmasterProofs`)

Assumptions: followers are finitely many (`FollowerAssumption`, for the length of the
list), the range is one of numbers and the master is given integers
(`RangeAssumption`).  The number of channels is arbitrary.  `Attenuated` is about
followers that have been read.  It becomes inductive with `ReadOK`: nothing is read
before it is linked, and a follower linked but not yet read is either `late` or below a
master that stands at its top, so that its first read finds what the user set.
`PutValue` has the arithmetic of the clamp.  `SyncKeeps`, `FirstUseKeeps` and
`FollowerWriteKeeps` treat the three ways a value reaches the hardware.
`HookKnowsMaster` is inductive with `HookOK`, which also says that a value is missed only
by an initialised master, and that the hook of one which is not knows its 0.
`UserValuesSurvive` is an action property.

### Coefficients (`VerbProofs`)

Assumptions: the index space is not empty, 0 is a value, the register is at least as
wide as an index.  `ListIsMemory` is the refinement: `InitMaps` and `StepMaps` show that
initial states and steps of the list are those of `CoefMemory` or leave it alone.
`StoreIsWrite` is the core: whether a store finds an entry or puts a new one at the head,
the first entry with an index then has the value, and the first entry of every other
index is the one it was.  No uniqueness is needed for that, which matters past the last
index, where entries shadow others.

### Vendor verbs (`VerbProofs`)

Assumptions: the nids that stand for widgets a codec lacks are not in `Node`
(`NidAssumption`), the families are those with tables (`FamilyAssumption`), parameters
are bytes (`WordAssumption`).  `CacheIsRegisters` maps each step of the cache to one of
`VendorRegs` or to none, whatever failed and whichever widget was named.

* `PutByteIs`: replacing a byte of a word by subtraction leaves the other two, for all
  words of three bytes; `BytesOfSum` and `SumOfBytes` are the arithmetic under it.
* `SetByte`: the other registers keep their values, whether the search for the register
  finds an entry or one is put at the head.
* `RowsGood`: each row of the four tables (one register of each shape) has the function
  its name promises, and a set is cached under the number a get of the same register
  looks for.  The row of `hda-spec.c` under *What fails* is in a table of a fifth
  family, which `Family` leaves out.

`VendorTypeOK` is inductive: a register is cached once, as a word of three bytes.

### Amplifiers and connections (`NodeProofs`)

Assumptions: the fields of verbs have their widths (`FieldAssumption`), and
capabilities are those a codec can announce (`NodeAssumption`).  The invariant has to
hold of the values in use and of the originals, which the `-i` option writes back long
after; it also says that what lies beyond the connections has never been touched.
`SetIndexOK` has the index of a verb with both directions, of which the output branch
comes first.  `ClampOK` covers the wrap at zero steps.

### Jacks (`NodeProofs`)

Assumption: the driver's tags are distinct and survive the truncation
(`TagAssumption`).  `JackKnown` is inductive with the type invariant.  What it needs is
`ReachableIsTold`: an event of a pin that is still set up as the driver did it arrives
at that pin's jack.  The reverse direction, events that arrive in D3, is the action
property `NoEventsInD3`.

### From the file to the prompt (`ProgramProofs`)

Assumptions: a node has room for the three connections of the longest list of a fixup,
and its array is shorter than the 128 the parser refuses (`RoomAssumption`), the bound on
options is a number, files of pins are lists of the four kinds of lines
(`PinFileAssumption`), verbs are those the tables have, and a connection is selected by a
number (`VerbAssumption`).  Nothing is assumed of the codec files, which may hold any
lines, nor of what `-P` names.

`InitPinsOverride` speaks of the options after all of them
were read, by the places of the lines that count; the code has two flags and the next
line.  The invariant `PinsOK` ties them together while an option is being read:

* `Progress`: `is_fw_file` says that a `[codec]` title is among the lines read,
  `is_in_pincfg` that the first pin section has begun, `done` that one of them ends the
  reading.  `PinLine` shows this for each line, and that the pairs the code stores are those that
  count.
* `ExpectedIn`: each pin has what the last counting line so far says of it, or what the
  options before this one left.  `ExpectedNext` is a line more, `ExpectedEnd` the end of the option:
  lines not read cannot count, because one that was read ends the reading.
* `SameSays`: reading pins does not change what the entries of the codec say, so that
  options already applied still mean the same.

`StartupShape` also has that the parser keeps the shape of its records, whatever line
comes in whatever mode (`LineKeeps`, with a lemma per handler of `ProcParser`).

`StartupTypeCorrect` is about the lists of a node, after each line, fixup, option and verb
and of any file: none is believed to be longer than 127, the connections of one are read
only while there is a node, and a selected connection is in the list, but for the lists
that a fixup replaced.  `vt1802` and Haswell HDMI replace a list and leave the
selection as it was (`Replaced`).  The bounds that the parser and the fixups do not test
are no hypotheses: where the code would write behind an array the step ends in a fault, and
the theorem is about those files too.  What it says of them is what holds up to the fault.

The invariant is `Fit`: while a node is being read nothing is selected in it yet, since
the count comes before the list, and outside the parser each list was either read or
replaced.  Each handler keeps it or faults, each fixup keeps it but in `Replaced`
(`SameReplaced`: a codec's fixups stay the same as it is edited), and a verb selects only
what `set_connect_sel` lets through (`VerbKeeps`).

### Hints and works (`ProgramProofs`)

Assumptions: the table's size and the bounds are numbers, the lines of options and those
typed are lines, an option given directly has one, and "NULL" is no work.
`HintsAreLast` speaks of the first `MAX_HINTS` keys in the order they were told; the
table itself does not know that order once values were replaced.  The invariant has

* `ValuesLast`: what the table has of a key is what the last line about it said;
* `KeysStored`: its keys are those that were told while fewer others had been;
* `RoomLeft`: as long as it is not full, it has every key that was told.  Without it, a
  key that finds room could be one that was to be left out, or the reverse;
* a key once, so that the length of the table is the number of its keys
  (`KeysCounted`, by a surjection), which the test for a full table relies on.

`ParseKeeps` has a case for each way a line is taken: a new value, a full table, a new
entry, no pair.  `LinesTyped` is needed because `main` reads the line of a direct option
without looking for it.  `WorkStays` is the safety half of `WorkRuns`, action by
action; it needs of the invariant that works are works.

### Controls (`ControlsProofs`)

Assumptions: counts are positive, indices are numbers, channel maps share a name, jacks
and channel maps are different controls, and `NULL` is none.  The parts of the
invariant:

* `IdOK`: listed controls with one id include a renamed one.  That a jack never meets a
  taken id is `IndexIsFree`: as many indices as the list is long, and one more, cannot
  all be taken (the pigeonhole principle of `FiniteSetTheorems`), so the search of
  `get_available_index` ends at a free one.
* `NumOK`: number ranges of all controls that were ever added, freed ones included,
  are disjoint and below the counter.  `NumbersKeepMeaning` says less, about the listed
  ones, and is not inductive: a number must not be given out again.
* `ChmapOK`, `TellOK`: the link and the listeners, which need `IdOK` for the lookup by
  id to reach the right control.

### Register cache (`RegmapProofs`)

Assumption: the sets the driver's config answers with are registers, of which there is
at least one.  `ReadersSeeWrites` is inductive with the type invariant, one entry a
register included; `Kept` is what it says of a register, and `StaysKept` that a call
which leaves its values alone keeps it.  `WriteCaches` says what a store does to the
search for every register, `SyncWrites` what a sync has written when it stops after any
number of entries, and that it wrote nothing else: what went past the cached values
behind them the codec still has.  `SyncIsRepair` is an action property over both.

### What is only model-checked

* The liveness half of `WorkRuns`: that pending work is taken before the next prompt.
* `RightCodec`, `ReadBack` and `RoutesFound`: what the parser makes of a whole file, what
  the dump writes and which routes the search finds.  These compare the results of folds
  over lists and of recursive operators with a definition, and without an induction
  theorem the provers can use, what they return for every input cannot be proved.

## Not modelled

The driver (external); text formatting and decoding, the log, the Python tester, the
codec files; allocation failure (the program exits).  Lock debugging and memory
tracking, whose state nothing reads but their own messages.  Of the modelled
components: `snd_ctl_activate_id`, which sets a flag that nothing in `src/` reads;
the values and TLV data of controls; the user's pin configurations (`-U`), which are
stored by the kernel; the coefficients preset for Realtek names; the older layouts
of PCM and amplifier lines; the controls listed below a node of a dump; the dump of
a single node; the marks of muted amplifiers in routes.

## Plan

1. Values of controls between the shell's `set` and the virtual master, composing
   `Controls` and `Vmaster`.
2. The mute marks of routes, and the dump of a single node.
3. Proofs: that a file whose lists fit, as the writer prints it, never ends in a fault.
