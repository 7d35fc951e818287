# Verification of the stateful core of LEDE

LEDE is a firmware distribution for routers. Most of the repository is packaging,
device trees, kernel patches and imported drivers. The code of its own that keeps
state a router depends on is small, and the part whose errors cost the most is the
part that writes flash: a router that lost its firmware or its block map does not
come back. This project models that part first, then the kernel modules of the
repository whose tasks, interrupts, packets and notifiers run beside each other.

Paths below are relative to the repository, lines are those of this commit.

## 1. Inventory

| component | state | operations | hard behaviour | what makes it correct |
|---|---|---|---|---|
| **zte-fwslot** `package/fxfall/zte-fwslot/src/zte-fwslot.c` | two firmware slots in NAND, their bad block tables, the serials in the version headers | `flash`, `switch`, `check`, `info` | power cuts at any block, blocks that fail, two invocations at once, callers that do not reboot | the next boot always finds a whole image; a reported success is true; the running slot is untouched |
| **mtk_bmt + BMT v2** `target/linux/generic/files/drivers/mtd/nand/mtk_bmt.c`, `mtk_bmt_v2.c` | `bb_tbl`, `bmt_tbl`, `bmt_blk_idx` in RAM, one copy of the tables on flash | MTD read/write/erase/isbad/markbad, remap, upload, attach, detach, debugfs | failing blocks at every step, loss of power, threads without a lock, pool at its limit | one owner per block; data survives a remap; the table survives a restart; bad blocks stay out; calls end |
| mtk_bmt bbt backend `mtk_bmt_bbt.c` | a table of bad blocks | as above, shifting the blocks of a range | the same | the same |
| mtk_bmt NMBM `mtk_bmt_nmbm.c` | info table in two copies, block states | as above | the same | the same |
| zte sysupgrade hooks `target/linux/zte/base-files/lib/upgrade/platform.sh` | the overlay on the Plugin partition | check, do_upgrade, reset of the overlay | power cut between the steps | new firmware never runs with the old overlay, settings are not lost |
| sysupgrade `package/base-files/files/lib/upgrade/*` | processes, ramdisk, UBI volumes | stage 2, `nand_do_upgrade` | processes that survive the kill, power cut | an image is written only when nothing else uses the flash |
| mtd tool `package/system/mtd/src/mtd.c`, `jffs2.c` | an MTD partition | write, erase, jffs2write, fixtrx | bad blocks in the middle of an image | everything written can be read back in order |
| boot counter `linksys_bootcount.c` | a log of boot counts | reset | wrap of the log, torn entries | the loader sees a count of 0 after a successful boot |
| **nvram** `package/utils/nvram/src/nvram.c`, `cli.c` | variables in a partition, a working copy in `/tmp`, a hash table per command | `set`, `unset`, `commit`, `get`, `show`, `info` | power cut, two commands at once, no room, a full partition | a command takes effect at once or not at all; commit makes flash equal to the copy; power loss in that write leaves a part of it; header and variables agree |
| **trelay** `package/kernel/trelay/src/trelay.c` | list of relays, receive handlers and references of devices, debugfs files | add, write and close of `remove`, notifier, receive, init, exit | frames under RCU, writes without a lock, waiting with RTNL held | nothing freed is touched; list, handlers and references agree; devices and condemned relays go |
| **gpio-button-hotplug** `package/kernel/gpio-button-hotplug/src/gpio-button-hotplug.c` | state of the buttons, work items, waiting events | probe, interrupt, poll, debounce, event, remove | edges at any moment, no memory, work during removal | user space follows the lines; bounces are filtered; no work after removal; the state settles |
| **fast-classifier** `package/qca/shortcut-fe/fast-classifier/src/fast-classifier.c` with the rules of `shortcut-fe/src/sfe_ipv4.c` | connections, rules, two locks | post-routing hook, conntrack event, device event, netlink message | pointers used after an unlock, events against packets | one live connection per tuple, references of devices balance, devices are released |
| sfe_cm `package/qca/shortcut-fe/shortcut-fe/src/sfe_cm.c` | none of its own | the same hook and events | the same | the same |
| preinit and failsafe, rc.common, ead, swconfig | lock files, services, sessions, registers | | | |

How they interact: `sysupgrade` calls `platform_do_upgrade`, which runs
`zte-fwslot flash`, then resets the overlay, then reboots; the LuCI page runs
`zte-fwslot info` and `switch`. zte-fwslot talks to the MTD character device.
mtk_bmt sits *under* MTD on other boards (it replaces the operations of the
`mtd_info` of the chip), so every MTD user, UBI and the mtd tool included, goes
through it. zte-fwslot and mtk_bmt share no board and no state. nvram writes its
partition through `/dev/mtdblock`. trelay, gpio-button-hotplug and fast-classifier each
talk to the kernel around them (RTNL and RCU, workqueues and interrupts, conntrack and
the forwarding engine) and not to each other. So each is a module of its own; the one
composition is fast-classifier with the rule table, which share pointers and
references under two different locks.

## 2. Modules

| module | role |
|---|---|
| `SlotContract` | abstract: two slots, each with a whole image or none |
| `FwSlot` | zte-fwslot, one action per erase block operation |
| `FwSlotProofs` | theorems about FwSlot |
| `MCFwSlot` + `MCFwSlot*.cfg` | instances |
| `BmtV2` | mtk_bmt with the v2 table, one action per chip operation |
| `BmtV2Proofs` | theorems about BmtV2 |
| `MCBmtV2` + `MCBmtV2*.cfg` | instances |
| `Trelay`, `TrelayProofs`, `MCTrelay` | trelay, one action per step of an RTNL section, frames and files beside it |
| `FastClassifier`, `FastClassifierProofs`, `MCFastClassifier` | fast-classifier and the rules of sfe_ipv4, one action per section under a lock |
| `GpioButton`, `GpioButtonProofs`, `MCGpioButton` | one device of gpio-button-hotplug under either driver |
| `NvramContract` | abstract: variables in flash and a working copy |
| `Nvram`, `NvramProofs`, `MCNvram` + `MCNvram*.cfg` | nvram, one action per step on a file or the partition |

`PROJECT.json` maps each definition to its lines. A definition
whose comment starts with "Mutant:" is an altered copy of the one that follows it;
no specification uses it. Put in the place of the original it makes TLC find a
violation, which shows that the property named with it in `PROJECT.json` notices the change.

### FwSlot

`flash[s][b]` is what block `b` of slot `s` yields when it is read: erased, a piece
of the payload of an image, a header with a serial, or garbage. The CRCs of the code
only tell whole from damaged content, so that is all the model keeps. `bad[s]` is the
bad block table. `running` is the slot of `/sys/firmware/zx279133/slot_offset`;
`pc, tgt, img, ser, ofs, k` are the locals of each invocation, `told` the last line it
printed.

* `cmd_flash` is everything before the first write (package, slot, size, serial).
  `erase_slot` is one round of its loop; `write_skip`, `write_ok`, `write_fail`,
  `write_out` are the paths through `write_block`; `flash_verify` is the final check.
* `cmd_switch`, `switch_serial`, `switch_erase`, `switch_write` are the steps of
  `cmd_switch`, split where it touches the flash.
* `power_cut` ends every invocation, may tear each block that was being worked on,
  and lets the boot loader choose. The boot loader is external; the tool's own
  `next_slot` says how it chooses.
* A block whose programming failed holds garbage, but a header may be there: it fits
  the first page of the block.

`Env` switches faults on: `writeFails`, `eraseFails`, `markFails`, and two
habits of the callers: `reflash` (flash although the next boot already selects the
slot to be overwritten) and `concurrent`. What is not in `Env` does not happen; the
theorems and the passing runs name what they assume.

Bound: `MaxSerial` stops new invocations. Serials are natural numbers (they are 32
bits wide in the code; the flash is worn out long before they wrap).

### BmtV2

`nand[b]` are the pages of physical block `b`, `table[b]` the tables it holds,
`marked` the bad block marks. `bb_tbl`, `bmt_tbl`, `bmt_blk_idx` are the fields of
`bmtd`. `th[t]` is the call thread `t` executes. Two variables are history:
`user` is what callers may expect to read, `replaced` the blocks that were found bad.

* A call (`mtk_bmt_read`, ...) looks the mapping up and goes to `io`: `io_ok`,
  `io_fail`, and `io_flip` (a read with too many bitflips).
* `find_valid_block_in_pool`, `take_block`, `remap_erase`, `remap_copy` are
  `remap_block_v2`; `upload_erase`, `upload_write`, `upload_fatal` are
  `upload_bmt`; then the call is repeated, or ends.
* `init_load` and `init_scan` are `mtk_bmt_init_v2`; `mtk_bmt_detach`; `crash`
  is loss of power between any two of these steps.
* debugfs: `mtk_bmt_debug_mark_bad`, `_mark_good`, `_repair` and `mtk_bmt_debug_v2`
  (the value 100; the value 0 prints).

`Weak` is the set of blocks on which an operation may fail (erasing, programming,
bitflips; with `readFails` also reading).

Abstractions: a request is the part of it that lies in one block, of one page.
`bbt_nand_copy` copies main data only (in the code `ooblen` of the write is set after
the write), and copying a blank page leaves it blank. A table is written in one step.
`mapping_block_in_range` is membership in `Range`. The number of repeats, 10 in the
code, is `MaxRetry`. After `upload_bmt` returned `(u16)-1`, a further upload would look
behind the table: the model lets it fail again. `repair_copy` is the erase and the
copy of `mtk_bmt_debug_repair` in one step.

### Trelay

`trelay_devs` is the list, `tr[r]` the fields of relay `r` and whether it is freed,
`debugfs` the relays whose file `remove` can still be entered, `file[f]` an open
file. `handler[d]`, `peer[d]`, `refs[d]`, `devst[d]` are what the net device keeps.
`lock` is the section that holds RTNL: who, at which step, which relays its loop has
yet to see, and which CPUs its grace period waits for.

* `trelay_do_add` is `do_add_begin` (up to the first handler), then `do_add_finish`, or
  `do_add_busy` and `do_add_undo`. `trelay_do_remove` is `loop_remove`
  (`list_del`, the file), `do_remove_put`, `do_remove_sync1`, `do_remove_free`: a
  wait for writers and two grace periods lie between them.
* `trelay_remove_release`, `unregister_begin`/`unregister_notify` (`tr_device_event`),
  `trelay_exit` start a section with a loop; `condemned` says what the loop removes.
* `frame_begin`, `trelay_handle_frame`, `frame_xmit` are a received frame: the peer is
  read in one step and used in a later one. `write_enter` and `trelay_remove_write`
  are a write.
* External: `netdev_run_todo`, which waits for the references, and `other_handler`, a
  bridge that takes a device. An "add" with a name or device that does not fit, or
  without memory, changes nothing and is no action.

### FastClassifier

`conn`, `ht` are `struct sfe_connection` and `fc_conn_ht` (under
`sfe_connections_lock`), `rule` the table of the engine (under `si->lock`),
`pk[c]` the locals of the hook on CPU `c`, `ct` the conntrack entries (external) with
the events in delivery.

* The hook: `post_routing_found`, `update_rule`; `post_routing_offload`,
  `create_rule_check` (the look at `reg_state` before the lock), `create_rule_insert`,
  `mark_offloaded`; `post_routing_new`, `post_routing_add`.
* The event: `mark_rule`, `update_mark`; `ct_delete`, `destroy_conn`, `destroy_rule`,
  `destroy_done`. `NETDEV_DOWN`: `netdev_down`, `device_event_rule`, `device_event_done`.
* The engine drops a rule when a packet must not be forwarded: `sfe_flush_on_find`.

Abstractions: IPv4; one device per connection instead of two; taking a rule out of the
table and releasing its device in the flush that follows is one step. Left out: the
messages to user space (they are dropped silently when there is no memory), the sync that
refreshes conntrack timeouts, TCP windows, module init and exit.

No lock keeps an event of an entry and a packet of it apart. The packet's reference keeps the
conntrack entry, nothing keeps the `struct sfe_connection`: after the unlock the hook
goes on with a structure that `destroy_conn` may have freed. The model lets it: what is
left of the structure is read and written, and the next connection may take its place
(`add_conn`). That other users of the memory get it is not modelled. A mark event may be
in delivery at any time, also while the entry is destroyed. Only the destruction of
an entry while a packet of it is in the hook can be switched off (`overlap` not in
`Env`), for the one property that needs it, `DeviceGoes`; the
theorems about the others do not.

### GpioButton

`Nodes` is the device tree. `phase, i, prev` are where probe or remove is, `gpiod,
last, count, irq` the fields of a button, `work, at, smp` its work item: queued, at
which button it runs, the value it has read. `evq` are the events that wait for a
worker, `got` what user space heard. `edges`, `lost`, `same` are history.

* `probe_skip`, `probe_gpio`, `probe_done`, `irq_start`, `irq_request`, `irq_started`;
  `button_handle_irq`; `run_begin`, `sample`, `gpio_keys_handle_button`, `poll_skip`;
  `button_hotplug_work`; `remove_disable`, `remove_cancel`, `remove_sync`,
  `devres_release`.
* `change` is a line that moves, at any moment. Time lies between actions: a delay is
  over when the item runs. Left out: platform data that is not from the device tree,
  the `seen` seconds, wakeup. Disabling "interrupt" 0 or a negative one, which removal does
  for a button whose request failed, has no effect in the model.

### Nvram

`flash` is the partition, `stg` the file `/tmp/.nvram`, `pr[p]` a command with its
hash table. An image is its header fields, its tuples in order, its length and whether the
tuples end in a NUL; sizes are counted in bytes, since what fits decides. `nvram_set`, `nvram_unset`,
`nvram_rehash`, `write_tuples`, `header`, `length` are the pure part; the loops over
tuples, special names and buckets are recursive functions over positions.

* `main`; `nvram_find_staging` (the stat), `staging_read`, `staging_create`,
  `staging_write` (`nvram_to_staging`: the file is created without truncation and filled
  later); `nvram_open`, or `nvram_open_rdonly` for a "get" before "commit"; `edit`;
  `commit_header`, `commit_clear`, `commit_tuples` (`nvram_commit`, in the shared mapping);
  `stage_read`, `stage_erase`, `stage_part`, `stage_write`, `stage_unlink`
  (`staging_to_nvram`); `power_loss` and `boot`.
* The write to flash erases the partition, then programs it from the header on;
  `stage_part` leaves any part of it (`torn`): nothing, a part of the header, or the header
  and the tuples up to one whose value may be cut short and runs on through erased
  flash. `nvram_open` looks at magic and length only, so commands go on from such a part; the
  process may also die reading behind the mapping, where no NUL ends the tuples.
* `writeFails`: the partition cannot be opened for writing, and the copy stays; or the write
  fails with the old contents kept, and the copy is removed, since nobody looks at the result.
* Abstractions: one `set` or `unset` per command; the header at the start of the
  partition, which is one erase block behind mtdblock (with several, a cut leaves whole old
  blocks behind the new ones); names cut short are dropped and not read as other names; the
  final rehash, which puts NULs into the mapping and back, changes nothing; the stat
  and the opening of `nvram_open_rdonly` are one step; the CRC, which nobody reads, is left out.

`NvramContract` says what a user may rely on: commands change the working copy at
once, commit copies it to flash, power loss takes it back; what has no room may be lost.
Beginning a commit gives up what flash held; power loss before its end leaves some of the
variables that were to be written, at most one with a wrong value, and special ones with any.

## 3. Runs

Passing:

| run | bounds | properties |
|---|---|---|
| `fwslot` | slots of 4 blocks, packages of 1 and 2 blocks, serials to 3 | `TypeOK BootSafe Promise Implements` |
| `fwslot_faults` | two invocations that may overlap, all faults, slots of 3 blocks, one package | `RunningUntouched Terminates` |
| `bmt` | 8 blocks, 4 mapped, 2 pages, 2 weak blocks, one factory bad block or none | `Faithful Persistent BadStaysOut` |
| `bmt_crash` | 7 blocks, 2 weak (block 0 too), loss of power, debugfs on every block of the mtd | `Persistent` |
| `bmt_faults` | 7 blocks, a data, a pool and the table block weak, reads fail, loss of power | `TypeOK Disjoint Terminates` |
| `trelay` | 4 devices, one of which may go and one a bridge may take, 2 relays, 2 files, 1 CPU | `TypeOK PeerAlive FileAlive Consistent Unloadable DeviceGoes ClosedGoes` |
| `fastclassifier` | 2 CPUs, 1 tuple, 1 device, 2 conntrack entries, places for 2 connections, offload at 2 packets, no entry destroyed while a packet of it is in the hook | `TypeOK OneConn RefsAccounted DeviceGoes` |
| `gpio_button` | a key, a switch, a button with an interrupt only; both drivers; threshold 1; 3 edges; no memory, failing interrupts | `TypeOK UserFollows Quiet Debounced Settles` |
| `nvram` | 2 special and 2 plain variables in 48 bytes, 2 hash buckets, power loss | `TypeOK HeaderAgrees Implements EditTakes` |

Why this is enough. In FwSlot 4 blocks hold the longest package, its header and one
spare block, so a failure can be absorbed, and a second one makes the tool run out;
blocks marked by one
invocation are bad for the next; serials to 3 allow flash, reboot, and then
to flash or to switch back. In BmtV2 a pool of four
(three) blocks has a block for the table, replacements to take, and can run out; two
pages tell "before the failed page" from "the failed page and behind". In Trelay two
relays make the loops skip and go on, a third line takes a device that is in use, a
fourth joins a device to itself; two files let one be written while another is closed.
In FastClassifier one tuple with two conntrack entries in a row is where a late packet
meets the next entry, and a connection takes the place of the freed one. In GpioButton three edges are a press, a bounce and a release. In
Nvram the values are chosen so that the variables fit, fill the 26 bytes exactly, and do
not fit, and so that two spellings of a number ("0x9", "0011") meet; one more value stands for
what a value cut short runs into. What these bounds might hide is
settled by section 4: the properties named there are proved for all sizes.

Fairness. `FairSpec` asks that an invocation, or a call, that was started takes its
next step: a process is scheduled, the kernel finishes an MTD request. Nothing is
assumed about starts, power or which outcome an operation has. Deadlock is checked
except in `fwslot_faults`, where a router that no longer boots really stops, in
`gpio_button` (a device that was removed) and in `fastclassifier` (no conntrack entries
left to create: a bound). Trelay: the holder of RTNL goes on when it can, frames and
writes end, the wait for references ends when there are none; strong fairness is only
asked for closing a file, which waits in the queue of a mutex. FastClassifier: a packet
gets through the hook, a callback to its end, a conntrack entry times out. GpioButton:
the kernel runs its tasks, interrupt threads and workers; nobody has to press, release
or remove anything.

Violations. Each checks one property that a comment of the code states:

| run | what happens |
|---|---|
| `fwslot_reflash` | flash, no reboot, flash again: the slot with the highest serial is erased from its first block up; power cut; the loader takes a slot without payload |
| `bmt_table` | the table moves to the previous entry of the pool, but the mark `BMT_MAPPED` stays behind the end of the list, and the next attach drops the table |
| `nvram_full` | the variables fill the partition to its last bytes: `header->len` becomes the size of the partition, which `nvram_open` refuses; no command can change anything any more |

What the passing properties rest on. Each of these constants, changed in the cfg, makes
TLC find a violation:

| module | constant | property that fails | how |
|---|---|---|---|
| FwSlot | `markFails` or `eraseFails` in `Env` | `Promise` | the payload is shifted by a block or programmed over garbage, the header still reads back, "ok" |
| FwSlot | `concurrent` | `BootSafe` | `switch` verified the slot before an overlapping `flash` erased it |
| BmtV2 | `readFails` | `Faithful` | the old block is unreadable during the copy of a remap: earlier pages are silently lost |
| BmtV2 | two threads and `concurrent` | `Disjoint` | two overlapping calls get the same pool entry |
| BmtV2 | `debugfs`, `DebugBlocks` and `Weak` with block 0, `Range` all | `Disjoint` | `debug` frees the replacement of block 0, which `mtk_bmt_get_mapping_mask` does not look at, and it is handed out again |
| BmtV2 | `debugfs`, 9 blocks, `pool_lba = 5`, `InitBad <- MCFactory`, `DebugBlocks = {2}` | `Disjoint` | `mark_good` maps a block to itself that the scan, shifted by a factory bad block, has given to a neighbour |
| BmtV2 | `crash` | `BadStaysOut` | power goes between erasing and writing the only table; the scan maps the bad block, which carries no mark, again |
| Trelay | `PreemptRcu = TRUE` | `DeviceGoes` | `trelay_do_add` waits for a grace period inside its own `rcu_read_lock`, with RTNL held |
| FastClassifier | `overlap` | `DeviceGoes` | a packet that was held up makes its rule after the destroy event has looked for rules: the rule, and its reference to the device, stay |
| GpioButton | `early` | `Settles` | the first sampling runs before the interrupt is requested, and an edge in between is seen by nobody |
| GpioButton | `reorder` | `UserFollows` | "released" overtakes "pressed" |
| Nvram | two processes and `overlap` | `Implements HeaderAgrees` | changes of one command are lost to the other; one copies to flash what another is rewriting |
| Nvram | `writeFails` | `Implements` | commit removes the copy although flash was not written |

So the guarantees of zte-fwslot hold when erasing and marking do not fail,
invocations do not overlap and the router is rebooted after a flash; those of BMT v2
when calls do not overlap, copies can be read, the block of the table is good and, for
`Disjoint`, debugfs is left alone; those of trelay without further conditions on a kernel
whose RCU is not preemptible (the generic configuration; x86, armsr, gemini, zx279133 and
some other targets of the repository set `CONFIG_PREEMPT_RCU=y`, and there `DeviceGoes`
and `ClosedGoes` do not hold); those of fast-classifier in every environment, except that
devices are released only when no entry is destroyed under a packet; those of nvram when
one command runs at a time and, for `Implements`, writing the partition does not fail.

What fast-classifier does *not* guarantee, since nothing orders an event against a packet of
the same connection: that the hook works on memory that is not freed, that a rule has a
conntrack entry, that rule and connection have one mark, that user space hears of the end
of a connection last. No property claims any of it; the hazards in `PROJECT.json` say where.
Nor does gpio-button-hotplug guarantee that a button reads the line of its own child of the
device tree: a button with an interrupt is skipped without advancing `prev`, so that,
if it has a line too, the next button is given it.

## 4. Proofs

All for every value of the constants, from the named ASSUMEs of the modules only.

**FwSlotProofs**

* `TypeCorrect`: `Spec => []TypeOK`, and `RunningSlotUnchanged`:
  `Spec => RunningUntouched`, under every fault and with overlap. They need `OnTarget`:
  an invocation that is under way works on the slot that is not running, on a block of it.
* `BootAlwaysSafe` and `PromiseKept`, for `Benign` environments (only programming may
  fail). `BootSafe` is not inductive: that the slot selected is intact after the header
  is written depends on every block written before. `IInv` adds
  - `RunningSolid`: the running slot has one header and the payload it promises;
  - `OtherSafe`: the other slot has no header, or one with a lower serial, or one with a higher
    serial and the payload it promises;
  - `Exclusive`: one invocation at a time;
  - `ProcInv(p)`, by program point: while erasing, blocks below `ofs` are erased or bad;
    and a header that is still there has a lower serial; while writing, the good blocks below
    `ofs` hold exactly the first `k - 1` pieces and the rest is erased; between the erase and the write of switch the payload is whole and
    there is no header;
  - `ToldInv`: what was reported still holds.

  The lemmas about `Layout` and `Prefix` say how a list of good blocks grows by one,
  and that marking the block behind the list bad does not change it.

**BmtV2Proofs**

* `BmtTypeCorrect`: `Spec => []TypeOK` under everything `Env` allows. Needs `InPool`:
  a thread about to take an entry or to write the table has an index inside `bmt_tbl`.
* `MappingOneToOne`: `Orderly => (Spec => []Disjoint)`, with failing blocks, unreadable
  blocks, markbad and loss of power anywhere. `Orderly` excludes overlapping calls
  and debugfs, which break it (section 3), and a partial remap range.
  The invariant `MapInv` says that the tables in memory *and every table on the flash* are
  good (one owner per block, available entries unowned), since any of them may be loaded
  after a crash; that the entry of the table was never handed out; and that the entry a
  thread is about to take is still available. `ScanIsGood` shows that a scan yields a good
  table: both lists grow strictly, proved with a least counterexample.
* `TableReachesFlash`: `Orderly => (Spec /\ []TableWritable => []Persistent)`: as long as
  the block of the table can be written, the table the next attach finds is the one in
  memory whenever no call is under way, also when reads fail and power goes at any step. The
  run `bmt_table` shows that the condition is needed: `upload_bmt` moves a table whose
  block cannot be written, and the next attach drops it. `TableInv` adds that exactly one
  entry carries the mark of the table (`OnlyTable`), that each table on the flash names the block it lies in and that no two
  are valid (`FlashTable`), that flash and memory agree unless a thread is between the
  first change of a remap and the end of its upload (`Saved`), and that uploads start at the
  entry of the table, accesses go where the mapping points, and no remap erases the
  block of the table (`Locals`).
* `SoundPoolKeepsTable`, `ReplacedBlocksStayOut`: `Persistent` and `BadStaysOut` under
  `Orderly`, `SoundPool` (no block from `pool_lba` on is worn out or bad from the factory) and
  without loss of power. Other blocks may fail and be marked bad at any time, and
  the layer may be detached and attached. `BadStaysOut` needs the power: if it goes between
  erasing and writing the only table, the scan of the next attach maps the failed
  block, which carries no mark, again.
  `ReplacedInv` says that neither a mapped block nor one the pool may hand out was replaced,
  in memory and, while detached, in the table on the flash, and that a chip without a table
  is a chip on which nothing was replaced.
* `UsersReadWhatTheyWrote`: `Faithful` under the same conditions when reads do not fail either
  (`bbt_nand_copy` stops at a page it cannot read, which `remap_block_v2` ignores).
  `DataInv` says that every logical block holds what its users expect, but for the one that is
  being moved; that the old block of that one, which nothing else is mapped to, still
  holds its data and the new one is erased before the copy (`CopyData`); and that in a
  write the page being written was blank and those behind it are (`CallData`), so that
  the shorter copy after a failed write loses nothing.

**TrelayProofs**, for any number of devices, relays, files and CPUs, without conditions

* `FilesNeverDangle`: `Spec => []FileAlive`: no write to a file `remove` touches a relay
  that was freed, although the write takes no lock. `FileAlive` is not inductive: that a
  relay is not freed under a write is a fact about every step of `trelay_do_remove`.
  `FileInv` adds
  - `EnterLive`: a relay whose file can be entered is live;
  - `WriteHeld`: a relay that is being written to can still be entered, or is the one the
    section holding RTNL is removing, and that section still waits for the writers;
  - `SectionAlone` and `Busy`: the relay a section is adding or removing cannot be
    entered, and the steps that name a relay are steps of a section that holds RTNL;
  - `Shape`: just enough about types for the records of the relays, files and lock.
* `RelayTypeCorrect`, `PeersAlive`, `RelaysConsistent`, `ExitIsClean`: `TypeOK`,
  `PeerAlive`, `Consistent`, `Unloadable`. `Consistent` speaks of moments at which RTNL is
  free; `RelayInv` says what holds in between: which relay the section is at and whether it is
  still on the list (`SectionInv`), which relays its loop has yet to see (`RestInv`), that
  a device has our handler exactly when a listed relay, or the one being built or taken down,
  has it (`HandlerInv`), what its peer is (`PeerInv`), how many references are held at
  which step (`RefsInv`), what state a device with a handler can be in (`DevInv`), and
  that a frame which read a peer is one the pending grace period waits for or has a handler
  that is still there (`FrameInv`). `list_del` and its lemmas say what is left of a list
  without repetitions.

**FastClassifierProofs**

All in every environment: however events and packets overlap.

* `ClassifierTypeCorrect` and `ReferencesAccounted`: no reference of a device is lost or
  given back twice. `RefInv` adds `HasDev`: a packet that is looking up devices holds its
  device, and a rule, and whatever structure a packet may still point at, has one.
* `OneConnection`: `OneConn` is inductive with `RefInv`. `OneConnAdd`: a new connection goes to
  a place where no live one is, for a tuple that has none at that moment; `OneConnDestroy`:
  what is freed is unlinked in the same section; all other steps leave the table alone.

**GpioButtonProofs**, for any device tree, threshold and number of edges

* `ButtonsTypeCorrect` and `NothingRunsAfterRemove` (`Quiet`), in every environment. `Quiet`
  needs to know, at each step of remove, which items are already closed (`ClosedInv`: no
  interrupt, not queued, not running), that an item being cancelled cannot be queued
  again (`ItemInv`), and where the loops are (`PhaseInv`).
* `BouncesFiltered` (`Debounced`, an action property): `CountInv` relates the counter to the
  run of equal samples, with the case that a sample was taken and not yet dealt with apart.
* `UserSpaceFollows` (`UserFollows`), under `Ordered` (no `reorder`). `LinelessInv`: a button
  without a line never has an event. The lemmas `AppendNews`, `FirstTold` say how the news in
  a queue change at either end.

**FwSlotProofs, refinement.** `ToolImplementsContract`: `Benign => (Spec => Implements)`. With the
invariant `IInv` of FwSlotProofs each step of the tool is shown to be a step of
`SlotContract` or a stutter: writing or erasing anything but the last block that makes an
image whole or broken changes nothing a caller can see (`BlockLost`, `QuietStep`),
the first block lost withdraws the image (`WithdrawStep`), the header publishes it
(`PublishStep`), and a power cut, torn blocks included, is a withdrawal or a boot
(`PowerCutStep`). `SeenHolds` says what the contract's variables are in terms of the
invariant; `RefinesInit` that the initial states agree.

**NvramProofs**, for any names, values, lengths, hash function, number of buckets and size
of partition, and for any first contents. The assumptions beside types: a printed number
reads back as itself and is not refused for its length, the partition is a multiple
of four bytes that holds the header and its two NULs (`nvram_open` wants more), and "no file",
"empty" and "no magic" differ from each other and from every image.

* The pure part first. What the loops compute is defined by recursive functions, and the
  library's induction takes a predicate as a parameter; so `Induct` and `Recursion` state
  induction and the existence of a recursive function over positions with sets and functions in
  their place, from the least element of a well-founded set. On them rest: a list without
  repetitions is no larger than one that has all its tuples (`SizeWithin`); what a table holds after `nvram_set` and
  `nvram_unset` (`SetTable`, `UnsetTable`), each name once and in its own bucket; that
  parsing an image yields the variables `view` shows (`ViewFull`); that
  `write_tuples` writes only what the table holds, within the room, and all of it when there is
  room in any order (`Roomy`); and that what is written is a sound image whose header agrees
  (`ImageSound`), also when it has just been cleared (`ClearedSound`).
* `Typed`: `Spec => []TypeOK`, in every environment: any number of commands at once, failing
  writes, power loss at every step. The invariant `Safe` says that every image anywhere
  (partition, copy, and what a command has read or kept) is an image or a part of one, and that
  a command which edits or rewrites a copy that still is `/tmp/.nvram` finds one.
* `HeaderAlwaysAgrees`: `"overlap" \notin Env => (Spec => []HeaderAgrees)`, with failing writes
  and power loss. `Agreed` says it of the copy, of the partition and of what a command has
  kept, and what a command that is rewriting the copy will make of it; it needs that
  nobody else rewrites the copy in between, which is why overlap is excluded.
* `EditsTake`: `Spec => EditTakes` with one command at a time. `Single` says what a command that
  is alone knows at each step (`Owns`): its table is the edited variables of the image it
  replaces, the copy it writes to flash is the one it read, and after the write the two are
  equal. `EditEffect` says what the rewritten copy shows: `NoEffect`, `SetEffect`, `UnsetEffect`
  treat the three commands, with and without room, special variables falling back to
  the header, and values longer than the partition.
* `NvramImplementsContract`: `Spec => Implements` with one command at a time and writes that do
  not fail. Rewriting the copy is the step at which a command takes effect (`TuplesStep`), erasing
  and writing the partition begin and end the commit (`CommitSteps`), power loss is that of
  the contract, also when it leaves a part of an image (`PowerStep`), and everything else changes nothing that can be seen
  (`QuietSteps`, `UnlinkStep`). Both conditions are needed, see section 3.

Only model-checked: liveness (`Terminates`, `DeviceGoes`, `ClosedGoes`, `Settles`), which
is out of the reach of the prover. Every other property of a passing run is a theorem,
`Persistent` with debugfs (`bmt_crash`) excepted.

## 5. Not modelled, and the plan

Next, in this order:

1. `BmtBbt`: the bbt backend on the same operations.
2. `Upgrade`: FwSlot composed with `zte_reset_overlay` and the reboot.
3. `MtdWrite` (mtd.c, jffs2.c), `Bootcount`: the other writers of flash.
4. Preinit and failsafe, rc.common, ead.

Left out: NMBM (vendor code with a layout of its own), the packet path of shortcut-fe
(data) and its IPv6 copy, sfe_cm (fast-classifier without its connection table),
swconfig drivers (register access), the build system, kernel patches, imported
drivers. Hazards known and not covered by a property are in `PROJECT.json` with the reason.
