# A TLA+ verification project for FPGA-OS

FPGA-OS (LegoFPGA) is an operating system runtime inside an FPGA: memory
management, allocators and a network stack for hardware applications, most of it
written in Vivado HLS C++. An HLS block is a function that the hardware calls
again and again; blocks are connected by FIFOs (`hls::stream`), keep their state
in `static` variables and run in parallel. The modules here model such blocks as
state machines: one variable per static variable or FIFO, one action per call of
a block that does something.

The core is the address mapping IP (`mm/paging_hashed`), a pipelined two-level hash
table that every translated access of an application goes through, with the
allocators and the paging library that give it memory, the remote memory
applications that use it and the network blocks that feed them. Around this
core the repository keeps two larger systems that run on it or beside
it and that carry state machines of their own: the memcached pipeline with its UDP
offload engine and its host-side address manager (`app/memcached`), and the PCIe
driver of the host (`host/pcie_xdma`). They are modelled too.

## Inventory

| Part | State | Operations | Interacts with | Hard behaviours |
|---|---|---|---|---|
| `mm/paging_hashed/hls_mapping` data path | pipeline words in five FIFOs, state machines of `read_bram`, `fill_S1`, `fill_S2`, the table in DRAM | SET a key with R or RW, translate for READ or WRITE | reservation table, BRAM table, datamover, allocator | several requests in flight on the same buckets, posted writes, retries, chains, failure half way |
| `resv_table.cpp` | circular `addr_resv_table`, `head`, `rear` | RESV, POP, both in one call | `read_bram`, `demux` | full/empty, order, starvation |
| `hls_bram_ht`, `dummy_allocator` | `ht_bram`; counter | read, write bucket; hand out a bucket | data path | stale copies, exhaustion |
| `alloc/buddy` | 8-ary tree of 8-bit lines in DRAM, cache of lines per level | alloc, free, init | DRAM, mux | search that does not end when memory is full, cache write-back |
| `alloc/chunk`, `mm/legacy/hls_segment` | chunk bitmap; segment table | alloc, free; bus accesses | each other | two tables that must agree |
| `mm/ip_libmm_paging`, `mm/segfix` | boot state machine; channel of the request in service; segment pipeline | init; forward, route back; check an access | segments, buddy, mapping IP | order of initialisation, routing of replies, half-finished init |
| `net/sysnet`, `net/libnet` | rx/tx state machines, acknowledgement counter | demultiplex, acknowledge, multiplex frames | MAC, applications | pauses within a frame |
| `app/rdma` (three versions) | pipelines of stages, FIFOs of records and of payload | remote alloc, read, write | mapping IP, buddy, net | payload and commands out of step after a failure |
| `kernel/icap_hls` | three nested state machines, the port's pins | register read, frame read | ICAPE3 | protocol order, junk words |
| memcached hash table, value store, parser, formatter | table and values in DRAM, filters, FIFOs | GET, SET, DELETE, FLUSH | each other, the host | stale bucket copies, reads overtaking writes, unaligned words |
| memcached host manager | lists of free addresses, register accesses, board FIFOs | top up, take back, flush | `memWrite`, statistics thread | a flush in steps of three parties |
| UDP offload engine | FIFOs of words, verdicts, checksums, addresses; DHCP and ARP machines | sort, strip, deliver, compose, resolve, answer | MAC, memcached | side FIFOs in step, bounded depths, lost and late answers |
| PCIe driver | transfer list, engine flags, ring, resources, event flags | submit, service, read cyclic, probe, remove, ioctl | device, kernel, processes | timeouts against late interrupts, error unwinding, lost wakeups |

What makes each correct: the mapping IP must look like a table whose requests are
executed one after the other; an allocator must never hand out overlapping
memory and must get back what is freed; mux and coordinator must give each answer
to the one that asked; the network blocks must deliver whole frames, in order and
once; the applications must keep payloads with their commands; a driver must report
what happened and give back what it took. The hazards that threaten this, at their
lines, are listed in `PROJECT.json` and under "Further hazards" below.

## Modules

| Module | What it is |
|---|---|
| `HashMapping` | the mapping IP: all stages, the reservation table, BRAM and DRAM, the allocator; its pipeline invariants |
| `TranslationMap` | its abstract specification: a map with rights, a queue of requests, a queue of answers |
| `HashMappingRefinement` | invariants of the two tables and the refinement mapping to `TranslationMap` |
| `DivisionLemmas`, `HashMappingProofs` | the theorems about `HashMapping` and the arithmetic they need |
| `MemoryProofs` | the theorems about `ChunkSegment` and `PagingLibrary` |
| `IcapProofs` | the theorem about `IcapController` |
| `XdmaProofs` | the theorems about `XdmaFiles`, `XdmaCyclic`, `XdmaEngine` and `XdmaDevice` |
| `MemcachedProofs`, `MemcachedStoreProofs` | the theorems about `AddressManager` and `MemcachedTable`, and about `MemcachedStore` |
| `NetProofs` | the theorem about `UdpClients` |
| `BuddyAllocator` | the buddy allocator: tree of lines in DRAM, cache per level, alloc and free |
| `BlockAllocator` | the abstract specification of an allocator: a set of disjoint blocks |
| `PagingLibrary` | coordinator, allocator multiplexer and fixed segment unit; the allocator is `BlockAllocator`'s promise |
| `ChunkSegment` | chunk allocator composed with the segment unit |
| `IcapController` | the controller of the configuration port |
| `RdmMapping` | remote memory applications `rdm_mapping` and `rdm_segment` |
| `AppRdma` | the first version, `app/rdma/fpga`, with its on-chip client |
| `SystemNetwork` | `sysnet_rx`, `libnet_rx` and `sysnet_tx` in three widths |
| `MemcachedTable`, `MemcachedStore`, `MemcachedProtocol` | hash table, value store, and the two ends of the pipeline |
| `AddressManager` | the host's manager of value addresses, its driver and the board's registers |
| `Streams` | FIFOs of words between functions of a dataflow region |
| `UoeIpHandler`, `UdpReceive`, `UdpTransmit`, `UoeMacArp`, `UdpClients`, `IcmpServer` | the UDP offload engine, one module per dataflow region |
| `XdmaEngine`, `XdmaCyclic`, `XdmaDevice`, `XdmaFiles` | the PCIe driver: transfers, the receive ring, the device's life, the character devices |
| `MCHashMapping`, `MCMemory`, `MCRdm`, `MCMemcached`, `MCXdma`, `MCNet` | instances for TLC |

An MC module other than `MCHashMapping` holds several parts that never meet on a
board, or that meet only in FIFOs which the modules model on both sides. A variable
(`system`, `version`, `part`, `netPart`) picks the part that takes steps in a
behaviour; the others stay in their initial states. The state space is the union
of the parts', not their product, and each part is explored in full.

### How `HashMapping` corresponds to the code

A request is known by its position in the order in which `remux` took it in.
No stage overtakes another (part of the type invariant, proved), so the FIFOs between
the stages are intervals of positions: `nRemux`, `nRead`, `nCmd`, `nBram`, `nCmp`,
`nS1`, `nS2`, `nOut`, `nPop` count what each stage has written, and `pi[i]` is the
`struct pipeline_info` of request `i`. `demux` resets the word of a request it has
answered, so that runs do not tell finished requests apart.

| Code | Actions |
|---|---|
| `buffer_req_read/write`, `remux`, `compute_hash` | `Remux` (the write channel forces the opcode to WRITE; the hash is the key) |
| `read_bram` | `ReadBramIdle`, `ReadBramAddrCheck`, `ReadBramAddrResp` |
| `address_reservation_table` | `AddressReservationTable`: a POP if there is one, then a RESV if there is one |
| `BRAM_rd_pipe`, `bram_hashtable` | `BramRead`; a write takes place where `fill_S2` issues it |
| `compare_bram` | `CompareBram` |
| `fill_S1` | `FillS1Idle`, `FillS1SendCmd`, `FillS1ReadData` |
| `fill_S2` | `FillS2Idle`, `FillS2RecvRet`, `FillS2WriteData` |
| `dummy_allocator` | `Allocator` |
| `DRAM_wr_pipe`, datamover | `DramWrite`, performing posted writes one by one |
| `demux` | `Demux` |

Buckets are records of slots with key, value, permission and bitmap bit, a chain
flag and a chain index. `__compare` looks at keys only, `find_empty_slot` at the
bitmap only, as in the code. Addresses keep their modulus: `DmAddr` and `ChainIdx`
compute modulo the address space, so that a bucket below the base of the table
gives the negative difference that a comment in `fill_S2` worries about.

Assumptions, all in the module's comments or `ASSUME`s:

- The memory does not let a read overtake an older posted write of the same
  bucket (`Settled`). The IP itself does not wait for the write status
  (`dm.cpp:121`), and `demux` releases the reservation while the write may still
  be under way; the seeded fault `Overtaking` shows that without this the table
  loses updates.
- A BRAM write is performed where it is issued: it is two FIFO hops long, and a
  read of the same bucket can only follow after the reply, the POP and a new
  reservation.
- DRAM and BRAM are zero at the start, the base address has been received before
  the first request, keys are not 0 (key 0 matches every empty slot).
- The allocator hands out each bucket once, aligned to the bucket size, outside
  the table.

Left out: `__internal_status` of the reply, the unused `control_path.cpp`, the
strict priority of the read channel in `remux` (requests arrive in any order), and the
frontend FIFOs before `remux` (one word of room, `FifoDepth`).

### How `BuddyAllocator` corresponds to the code

`lines[l][n]` is `buddy_set[l].lines[n]`, `count[l]` its `rand_counter`, `dram` the array
of lines in DRAM, indexed by `tag_level_to_drambuddy` relative to the base. Addresses are
relative to `buddy_managed_base` and count smallest blocks (256 bytes). The 3 address bits
of a level, the 22 of an address, the 2 lines of a set and the order of the metadata
block are the constants `LevelBits`, `OrderMax`, `SetSize` and `MetaOrder`.

| Code | Actions |
|---|---|
| constructor | `Init`: the metadata block is marked on the path of address 0 |
| `alloc` up to the first flush | `Alloc`: the search through the cached lines, deepest level first, and the first group of bits taken |
| each turn of `ALLOC_CACHE_LOAD` | `Load`: `choose_line`, `flush_line` of the victim, `dram_read`, the next group |
| `free` | `Free`: validity on every level, then the clearing loop; its two loops touch one line per level, so they are one step |
| refusal of too large orders | `BadRequest` |

The allocator serves one request at a time, so the steps of `alloc` are separate only for
the reader. `buddy_free_set` is scratch memory, filled before each use, and has no variable.
Assumptions: `init()` has been served and DRAM metadata is zero before the first request; a user
frees whole blocks that it holds, or memory that nobody holds (a stray free). The
second is the caller's obligation in `axis_buddy.h` ("partial free is not allowed"): `test_valid_bits` is
satisfied by one bit of a group, and nothing protects the metadata block. Left out: `dump_buddy_table`, and
`flush_set` and `flush_children`, which nothing calls.

When no cached line fits, the loop at `buddy.cpp:153` does not stop at level 0, because its
counter is unsigned, and goes on outside `buddy_set`. What follows is undefined; the model
ends there (`pc = "WRAPPED"`), and what the passing runs show is about the time before.

### How the other modules correspond to the code

`PROJECT.json` gives the lines of every definition; actions carry the names of the
functions they model. What follows is what a reader has to know beside that.

**Paging library, chunks.** `PagingLibrary` has one action per call of the
coordinator's state machine, of the multiplexer, of each stage of the segment unit, and
one for the allocator, which may answer late or fail although memory is left. Left out:
MEM_CMD_ALLOC and MEM_CMD_FREE, which lead the coordinator into states without a case.
`ChunkSegment` interleaves the allocator, which waits in a loop for the unit, with the unit's
control and data handlers. The permission check is compiled out in the code.

**RDM applications.** One action per call of a stage. A FIFO that only feeds another is one
queue with it. The mapping IP may refuse a SET, the buddy allocator an allocation.
`rdm_segment` is the same text with another `map` stage; `Ips` chooses. The
application's README says that a write has no reply "for now"; the code sends one,
and so does the model. `lost` records the writes that did not translate. A SET that the mapping IP
refuses may or may not leave its pair behind, as `residue` of `TranslationMap` says it can. In the first version
(`AppRdma`) a write to an unaligned address is dropped and its payload stays in the data FIFO.

**System network.** A word is a frame number, a position and the last flag. Frames have at
least two words (six in the 64-bit build), as a comment in the code assumes. The 64-bit
receiver writes an undefined word when its input pauses: `UndefinedWord`. The 64-bit sender
changes port in the middle of a frame, so frames are claimed whole for the
512-bit build only.

**ICAP controller.** A call moves the test sequence and at most one of the two command
machines. The ICAPE3 primitive is external: it returns up to `MaxJunk` junk words before the
one asked for; the code tolerates five. `cmd_iprog` is never selected.

**Memcached.** Both builds are modelled where the code has two (`filters`: the concurrency
and access filters; `alloc`: addresses from the host or from the buddy allocator). The
table's memory is zero at the start and shows a write to later reads; the FIFOs do not fill.
`SetPath` clears its buffer before a value and not between its lines, as the code does: the last
line of a long value is padded with words of the line before.
`Unforeseen` names the requests for which `MW_EVAL` has no branch (a SET of a present key in
a full bucket, a FLUSH in the buddy build). The access filter is compiled out in
`globals.cpp`, so `GetsFresh` is a statement about the build that has it; values have at
least two words, and the memory does not pause inside a value.

**Address manager.** A register access is five steps (lock, copy in, access, copy out and
unlock), because the statistics thread shares the mutex and the driver's `ioctl_arg`. The
board takes addresses from FREE, returns them on DEL, and asks for a flush at any time.
RREADY comes without delay; usage figures, gauges and the window's stop button are left out.

**UDP offload engine.** A call of a function is a step of one word; a call that finds an
empty input or a full output is none. Verdicts, checksums, lengths and addresses travel on
FIFOs of their own, as in the code. Frames have at least 60 bytes and headers at least five
words; even header lengths go to open ports only, with a last word of more than four bytes;
the announced length of a sent datagram is the length of its data; an ARP message is one
unit; the CAM behind the ARP table is external, and its port holds one answer, as a valid/ready
port does. A DHCP server answers any transaction it has seen, with any type and any address, at any time and any
number of times, to this client or to another one, in a message of any form (`Forms`): cut short, longer
than the six-bit count of words, without a type. The theorem is for every set of forms; the run `net` sends complete
messages to this client (`ProperForms`), of either type and with either address. `receive_message` collects the fields word by word (`Collect`)
and passes on a reply with the right MAC and cookie (`ForMe`). Every DHCP transaction has a fresh
identifier. `stream_empty[1]` in `insertChecksum` is written out of bounds: both outcomes
(`layout`) are explored.

**PCIe driver.** Critical sections of a spin lock are steps. The device is external,
taken from how the driver uses its registers: setting the run bit restarts it and clears
count and flags. Kernel calls may fail wherever the code checks them; `request_irq`
refuses a line that is taken. Three histories name what the code does not handle, so that
the properties can be stated for the rest: `lost` (a submitter gave up while the engine
was busy), `expired` (a ring was torn down under a running engine), `trouble` (kinds of
resources with a known wrong release), with `unlocked` and `leaked` in `XdmaFiles`.
The pages of a buffer are released one by one, up to
`pages_nr`, which the error path sets to `-EFAULT` as an unsigned number; the loop then ends at the first
empty entry. `libxdma/libxdma.c` is a second copy of the same file.

## Runs

Run them with `tlc -config <cfg> <module>`; `PROJECT.json` lists the pairs.

| Run | Bounds | Checks |
|---|---|---|
| `concurrent` | 4 keys, 2 buckets, one slot each, 1 spare bucket, 4 requests | `TypeOK`, `ChainsWellFormed`, `BramCoherent`, `PostedOnce`, `Refines` |
| `pipeline` | 5 lookups over 4 buckets, reservation table of 3 (2 usable) | `StagesAgree`, `TableTracksPipeline`, `BucketExclusive`, `ChainExclusive`, `EveryRequestAnswered` |
| `memory` | buddy: 32 units, 3 levels, 1 cached line each, 3 blocks; paging: 4 units, 2 commands; chunks: 2 chunks, 3 requests; ICAP: frames of 2 words, 5 junk words | `TreeSound`, `PagingSound`, `ChunkTablesAgree`, `IcapDiscipline`, `Implements`, `MemoryAnswers` |
| `rdm` | 3 packets of four kinds for either application, 3 of seven kinds for the first version, a refused write among them, 3 frames each way in three widths | `RepliesWhole`, `WritesInPlace`, `NetFramesWhole`, `RdmProgress` |
| `memcached` | 2 keys in a bucket of 2, 3 requests; 3 accesses to 2 addresses of up to 4 words; 2 packets of 14 sizes; pools of 3 and 1 addresses with FIFOs of 2 | `AnswersSequential`, `AddressesUnshared`, `GetsFresh`, `ParsedExactly`, `AnswersFramed`, `AddressesOwned`, `AllAnswered` |
| `xdma` | 2 submitters, requests of 3 descriptors in transfers of 2, 1 device error; ring of 3 pages, 2 sessions; 10 BAR layouts, 3 offline cycles; 2 processes, 4 calls | `ReportsTrue`, `EngineClean`, `CyclicSound`, `DeviceSound`, `FilesSound`, `XdmaProgress` |
| `net` | 2 packets of every kind through each region, 1 ARP message, 1 host; clients: 2 datagrams, 2 addresses, 2 transactions, DHCP switched once; FIFOs of one word where a word is enough | `FramesSorted`, `DatagramsDelivered`, `PacketsComposed`, `FramesAddressed`, `ClientsSound`, `AnswersWhole`, `NothingStuck` |
| `rights`, `buddy_lost`, `rdm_lost_write`, `net_arp`, `xdma_late` | small; `net_arp` hears 3 ARP messages | violations, see below |

Why the bounds are enough. One slot per bucket is the worst case for eviction and chaining,
two keys per bucket make both happen, and four requests are one more than any of the patterns
that matter. One spare bucket, below the table, makes the allocator succeed and then fail.
Five requests take the positions of the reservation table around at least once. Three levels
are the first with a line that is neither root nor leaf. What can go wrong between packets
shows with two packets in a row, one of them dropped, short or refused: what is left over
from the first meets the second; FIFOs of depth one make every wait for room happen. Three
requests are a SET, its change and a read. Two submitters and a request of two transfers
make a late completion meet the next transfer; a ring of three pages wraps in a session of
four pages. Deadlock checking is off where the bounds on the inputs end a behaviour; the
liveness properties show that it ends with everything answered.

### What is checked

- `Refines`: the pipeline implements `TranslationMap`. This is the claim of
  `mm/paging_hashed/README.md` that concurrent requests "will executed
  sequentially within pipeline". The request takes effect when `fill_S2` passes it
  on; the abstract map is what DRAM holds once its posted writes are performed, and
  `residue` is what a failed SET left in BRAM.
- `ChainsWellFormed`, `BramCoherent`: why it works. Chains are disjoint, hold each
  key once, in the right chain, and grow only when full; a BRAM bucket nobody has
  reserved agrees with DRAM.
- `PostedOnce`: no bucket has two writes posted at a time, so their order does not matter, although
  nobody waits for a write status.
- `TableTracksPipeline`, `BucketExclusive`, `ChainExclusive`, `StagesAgree`: the pipeline around it.
  The first also bounds the requests under way by the size of the reservation table. How many posted
  writes wait in the write FIFOs is not bounded by it: they belong to requests that were already popped.
- `Implements`: the buddy allocator implements `BlockAllocator`: what it hands out is
  aligned and overlaps nothing in use, what is held can be given back, a stray free is refused.
  `TreeSound` says why: read through the cache, the tree has exactly the bits of the blocks in
  use and of the paths to them, and no line is cached twice.
- `PagingSound`: coordinator and mapping IP never own overlapping memory, each gets the
  order it asked for, under the segment's base, and bus accesses are answered in order.
- `ChunkTablesAgree`: bitmap and segment table differ by at most the chunk under way.
- `IcapDiscipline`: the port is not turned round while selected, words are written and read in
  the right direction, and every read takes the register or frame it asked for.
- `RepliesWhole`, `WritesInPlace`: replies leave in order and whole; memory holds what was written
  to that address, within the announced length. In the first version this is said of the k-th write carried
  out and the k-th payload that came: they belong together until a write to an unaligned address is refused
  and leaves its payload behind. The run has such a write, and the property says which payload then goes where.
- `NetFramesWhole`: an application receives its own frames without a gap; nothing is lost or
  overtaken on the way out.
- `AnswersSequential`, `AddressesUnshared`: overlapping requests on a bucket are answered as if one
  by one, and no value address belongs to two entries or to an entry and to what the host or
  `dummy_allocator` may still assign.
- `GetsFresh`: a GET does not return a word older than the last SET before it. A later, shorter SET may overtake it;
  behind the end of that value it then sees what pads the last line, nothing or words of the line before.
- `ParsedExactly`, `AnswersFramed`: words are cut and put together for every mix of lengths.
- `AddressesOwned`: an address is in exactly one of list, FIFOs, table and hands, also across a
  flush.
- `ReportsTrue`, `EngineClean`: success is only reported for data that was moved, and nothing
  dangles. `CyclicSound`, `DeviceSound`, `FilesSound`: the stream, the resources, the waiters.
- `FramesSorted`, `DatagramsDelivered`, `PacketsComposed`, `FramesAddressed`, `AnswersWhole`: each
  region's output is exactly what its inputs call for, packet by packet.
- `ClientsSound`: memcached and the DHCP client get their own datagrams and port answers, and (`AddressGranted`) the address in
  use was offered to this client, in a transaction of its own in which an acknowledgement came too. Which address
  the acknowledgement names is not claimed: the code does not look (`dhcp_client.cpp:303`). Nor is anything
  claimed after a message without the form that `receive_message` takes for granted (`Proper`): there it judges by
  fields left from an earlier message.
- `EveryRequestAnswered`, `MemoryAnswers`, `RdmProgress`, `AllAnswered`, `XdmaProgress`,
  `NothingStuck` (liveness): nothing waits for ever. The dead ends the code has are named in
  the property or its module (`Stuck`, `missed`, `Backlogged`, `layout = "shared"`, and see below), and without those
  exceptions the properties are false. `NothingStuck` hears one ARP message, so the port to the CAM has room
  for the answer; `net_arp` hears three and shows it full for good.

### Fairness

A block with `ap_ctrl_none` is called in every cycle, so it takes its next step once its
FIFOs let it: weak fairness of every block, and of the work of a dataflow region in `MCNet`.
Threads, work items and interrupt handlers of the driver are scheduled by the kernel: weak
fairness of each. The manager thread shares a `std::mutex`, which need not be fair, with the statistics
thread, and the loop of that thread (`runBackGround`, `main.cpp:238-258`) never pauses: the manager may wait for
the mutex for ever. So only weak fairness is assumed of its calls, and that a flush is carried out is claimed for
behaviours in which the statistics thread rests from some time on (`StatsRest`), as when the menu
starts the manager alone. Users, hosts, applications, devices that may fail, and the MAC are
assumed to do nothing at all.

### Disagreements with the repository's own statements

- `rights`: `fill_S2` copies key and value from DRAM into the BRAM slot, but not
  the permission bit. After SET_R 1, SET_RW 3, READ 1 the slot holds key 1 with the right
  of key 3, and WRITE 1 is granted.
- `buddy_lost`: three blocks that fill the root line are allocated and given back; the root has been
  flushed to DRAM, which only reloads lines below a cached line, so the next allocation of such a block
  finds nothing and runs past level 0.
- `rdm_lost_write`: an ALLOC is answered with an address although its mapping was refused; the write
  to it fails, but its payload stays in the data FIFO, and the next write, to a good address,
  stores it there.
- `net_arp`: when `arp_table` takes an update and a lookup in one call, nobody reads the answer to the update; the answers
  left fill the port to the CAM, and updates and lookups block behind it.
- `xdma_late`: a submitter times out just when its transfer completes; `running` stays 1, the next
  transfer is not started, and the late work item credits it with the first one's count: success is
  reported for data that was never moved.

`Refines` is stated so that it tolerates the first: rights may be too generous.

### Known defects that a property excepts

The code has these too, but no line of the repository says otherwise, so they are no disagreements. Each is an
exception written into the property it would break.

- A SET that fails because no bucket is left has already been written to BRAM, and a READ of the key succeeds as
  long as it stays there (`residue` in `Refines`).
- In the first version a write to an unaligned address is dropped, its payload stays queued, and the next write
  stores it (`WritesInPlace` counts payloads, not requests).
- A SET of a present key in a bucket without a free entry meets no branch of `MW_EVAL`, is never answered and
  stops the table (`Stuck` in `AllAnswered`).
- The board takes up a second FLUSH before the manager has polled the end of the first: the flag is down again, the
  manager waits for the end of a flush that it has yet to acknowledge, and both wait for ever (`missed` in
  `AllAnswered`).
- With DHCP switched off nobody reads `replyMeta`: late answers fill it, and the multiplexer blocks behind them
  with the datagrams of memcached (`Backlogged` in `NothingStuck`).

## Proofs

Each theorem holds for every value of the constants that satisfies the named `ASSUME`s
of its module: any table, ring and FIFO sizes, any number of requests, threads and calls.
The bounds that the runs need (`MaxRequests`, `Calls`, ...) are arbitrary there too.

| Theorem | Module | States |
|---|---|---|
| `ChainAddressRoundTrip` | `HashMappingProofs` | the chain index computed by `fill_S2` is turned back into the allocated address by the datamover interface, also below the base of the table: the "potential BUG" of `data_path.cpp:432` cannot happen |
| `TypeCorrect` | | `[]TypeOK` |
| `AnswersMatch` | | `[]StagesAgree` |
| `ReservationCorrect` | | `[](TableTracksPipeline /\ TableDistinct)` |
| `BucketsExclusive` | | `[]BucketExclusive` |
| `ChainsExclusive` | | `[]ChainExclusive` |
| `TablesStayEqual` | `MemoryProofs` | `[]ChunkTablesAgree` |
| `PagingIsSound` | | `[]PagingSound` |
| `IcapIsDisciplined` | `IcapProofs` | `[]IcapDiscipline` |
| `FilesAreSound` | `XdmaProofs` | `[]FilesSound` |
| `CyclicIsSound` | | `[]CyclicSound` |
| `ReportsAreTrue` | | `[]ReportsTrue` |
| `EngineStaysClean` | | `[]EngineClean` |
| `DeviceIsSound` | | `[]DeviceSound` |
| `AddressesStayOwned` | `MemcachedProofs` | `[]AddressesOwned`, for `ReadyDelays = {0}` |
| `TableUnshared` | | `[]AddressesUnshared`, for `KeysFit` |
| `TableSequential` | | `[]AnswersSequential`, for `KeysFit` |
| `StoreFresh` | `MemcachedStoreProofs` | `[]GetsFresh` |
| `ClientsAreSound` | `NetProofs` | `[]ClientsSound` |

None of these properties is inductive. What has to be added, and why:

**`HashMapping`.** The inductive invariant is `TypeOK /\ StagesAgree /\ TableTracksPipeline /\
TableDistinct`. `TypeOK` alone is not inductive: `fill_S2` could take an allocator's
answer while idle, which `StagesAgree` excludes, and a GET could reach it with
`slot_dram = -1`, which `PipelineWords` excludes. That every chain index stays the
index of a bucket needs `ChainAddressRoundTrip`. `BucketExclusive` is not inductive
either: whether a RESV is refused depends on the contents of `addr_resv_table`, so the
invariant must say that the table holds, at the position `(i - 1) % NResv`, the index of
every request `i` under way, and no other. The step that matters is
`AddressReservationTable`, where a POP and a RESV may be served together: the popped
entry is freed first (lemma `PopStep`), then the new entry goes to a position that
is free because fewer than `NResv` requests are under way (`PosInjective`,
`ModInjective`). `ChainExclusive` follows because the size of the DRAM table is a
multiple of the size of the BRAM table (`ModOfMultiple`).

**`ChunkSegment`** (`ChunkInv`). While the allocator waits in its loop the two tables differ in
one chunk. `BusyAgree` says which: a request is either on the stream to the unit, which has not
acted on it, or its answer is on the way back and the unit has; either way the answer is a success.

**`PagingLibrary`** (`PagingInv`). `PagingSound` speaks of memory that users hold. A block is the
allocator's, an answer in one of three FIFOs and then a user's, so every answer under way must
stand for a lent block that no user and no other answer has (`AnswersInv`, `ApartInv`); the order an
answer belongs to is not in the answer but in the state of mux and coordinator, of which at most one
request is under way per channel (`MuxInv`, `CoordInv`). Requests of the table and of the heap
get addresses above the base because the base is sent before them (`BaseInv`). A bucket
asked for before that has an address relative to 0, and is disjoint from the others only because
the segment starts no lower than its own size, `PagingUnits <= SegBase`: the segment unit hands out
the address `1 << 30` (`segfix/top.cpp:112`), and the allocator manages that much. `BusInv` says of the
accesses in the segment unit that they are in order and none is missing.

**`IcapController`** (`IcapInv`). For each state of the two nested machines: which way the port may be
selected, whether it is synchronised, which header it has open and how many words it returned.
`MaxJunk \in 0 .. 5` is the number of words that `cmd_read_regs` skips (`cmd_read_regs.cpp:197`); with a sixth the
property is false. `rb.far = asked` is what carries a frame address from the call that
samples it to the call, more than twenty words later, that uses it.

**`XdmaFiles`** (`FilesInv`). Every event raised and not yet reported is in `events_irq`, and a reader sleeps only while its flag is
zero (`EventsInv`); the owner of the XVC lock is the process in the middle of a shift (`XvcInv`); pages are pinned only
for a process inside read or write, and never more of them than the release will go through (`PagesInv`).

**`XdmaCyclic`** (`CyclicInv`). With credits there are counts d <= h <= h + q <= m of pieces copied, taken
from the ring, known to the driver and written by the device, `m - d <= Credits < Pages`, and every index
of driver and device is one of them modulo `Pages` (`Window`). So no page is written before it
was copied, and `full` flags are set exactly for the pieces in h .. m - 1.

**`XdmaEngine`** (`EngineInv`). `desc_lock` is held from queueing to the end of the check, so the list has at
most one transfer, its owner's (`LockInv`, `ListInv`); the descriptors of the engine are its
slice of the request (`TransferInv`); and unless a transfer was given up before (`lost`) the
count of the device, the count written back and the one a thread has read all
count descriptors of that slice that were moved (`MovedInv`, `Serves`). `ReportsTrue` fails without
that exception: see `xdma_late` above. The theorem shows that this is the only way for it to fail.

**`XdmaDevice`** (`DeviceInv`). `ResourcesBalanced` only says that nothing is held twice or after the end;
the invariant says what is held at each step of `probe_one` and in each state after it, kind by kind (`Has`, `HeldInv`).
Interrupt lines need more: a teardown frees what the device's data structures say was requested, and `LinesInv` says that while the
lines are up this is what `irq_setup` requested. `MaskInv` follows the user's interrupt mask through offline and
online. The BARs are counted: those below and above the config BAR, from which the first and the last of
`bar_id_list` differ from it (`BarsAround`).

**`AddressManager`** (`HostInv`). An address under way is in nobody's list: it is in the argument of an
ioctl that two threads share, so the invariant follows it through the mutex, the user's
copy and the kernel's copy (`CallsInv`), and keeps what the manager concluded from registers it read
before (`KnownInv`: there is room in the FIFO it was told has room). For a flush it says what each
of the three parties may assume of the others (`FlushInv`). The assumptions are those of the program:
addresses of pool 0 start above 0 (`memManager.h:71`), since 0 stands for "no address",
and have granularity 1 (`memManager.cpp:177`). `ReadyDelays = {0}`, a hypothesis of the theorem, is a
board whose ready bit is there when the driver looks; the run has the same.

**`MemcachedTable`** (`TableInv`). `memWrite` acts on what `ht_compare` found earlier and writes back words
read earlier, so the invariant must say that both are still true. The filter holds, in order, the tags of all
requests from `memRead` to `memWrite`, behind those whose pop is on the way, and no entry blocks a later one
(`FilterInv`): a request that is being executed with a write is therefore followed by none of its bucket, and
a FLUSH by none at all. So a write touches no bucket that a request under way has read (`OthersKeep`), and every copy,
of the bins found and of the words, equals the memory (`CompareInv`, `StreamInv`). Keys and memory words are two streams
without frame marks of their own: `Streams` says where the frame of each request begins in them, and how much of the current one
is left in each state of `memWrite`. The metadata queue holds exactly the unanswered requests, in order
(`OrderInv`), so an answer goes out with its own request. `ContentInv` ties the table to the answers given: a key is stored in at most one
bin, and it is there if and only if its last change was a SET, with that SET's address and length; for a SET that is
still writing the words of its key it speaks of the table as it will be (`Settled`). In the state that
`memWrite` cannot leave (`Wedged`, the dead end named in `Stuck`) only the answers and addresses are claimed.
`KeysFit`, the hypothesis of both theorems, says that a key's words fit in its bucket: `memRead.cpp:67` does not
check it and a longer key would overlap the next bucket.

**`MemcachedStore`** (`StoreInv`). As `GetsFresh`, the invariant speaks of a store with the access filter and a memory
that does not pause inside a value (`Serving`); without either the code can answer with an old or a wrong value.
A GET reads on a path of its own, so it could overtake a SET. A request passes
`inData`, the place where it is held back, `metadataBuffer` and the answers in its order (`InTurn`); the filter holds the requests
that were let through, in order (`FilterOrder`). What comes back to the filter carries no name, only that one SET or one
GET is done, so completions are counted against the streams (`CountsAgree`). Hence the SETs still to be written are all in
the filter, and no unanswered GET was let through behind one of its own address (`SetsInTurn`). For the values: the words in `setValueIn` are
the rest of the values of those SETs, one after the other (`WordsInTurn`, `Runs`); the memory holds, line by line, the value of each
written SET or of a later one of its address, with the padding of its last line (`MemoryHolds`); and the FIFOs of the read path hold, value by value, the commands, lines and words
of the GETs in order, each of them fresh (`ReadsOf`). A long value is spread over these FIFOs, so the invariant says for each one
where in the value it begins. `StoreAssumption` asks for more than one word to a line: the
code counts the words of a line from 1, and with `memIntWidth` 512 a line has 8 words of 64 bits.

**`UdpClients`** (`ClientsInv`). That memcached gets its datagrams whole and in order is stated without comparing
streams: every word it got is a word of one of its datagrams and follows the one before it (`InPlace`), so a
step only has to look at the ends of its queues. The words in front of the multiplexer are the rest of
what was received, without a gap (`RestInv`), and start at the multiplexer's place (`MuxInv`); what memcached got, its
words under way and that place join up (`WordsJoin`); the metadata under way are those of the
datagrams it has not begun to get (`MetaJoin`), so the shim pairs a first word with its own metadata. Answers to port
requests carry no name: at most one request or answer is between multiplexer and port table, and it is
`muxPort.source`'s (`PortInv`). `DhcpInv` follows a DHCP message through `receive_message`, which keeps fields across words and messages: what it has
collected after k words of a datagram agrees with what that datagram says in the words it has read (`Fits`), and the words under way
start where it stopped (`DataJoin`), so what it passes on is what some message to this client says (`Said`), and
the address the client remembers was offered in the transaction it is in. This needs messages of the form the
code assumes (`Proper`, a hypothesis of `AddressGranted`); the servers are otherwise free. `ClientAssumption` says of the layout
only that the identifier is in the first word and nowhere else, and of the datagrams that they have at least one word.

Each inductive invariant was checked with TLC, as an invariant of its run's
instance, before it was proved.

Only model-checked, and why:

- liveness (`EveryRequestAnswered`, `MemoryAnswers`, `RdmProgress`, `AllAnswered`, `XdmaProgress`,
  `NothingStuck`): fairness and ENABLED are out of the prover's reach;
- what needs induction over data: `ChainsWellFormed`, `BramCoherent` and `Refines` (chains of any length),
  `TreeSound` and `Implements` (powers of 8 over the levels of a tree), and the properties that
  compare a whole stream with a fold or a filter of its input: `RepliesWhole`, `NetFramesWhole`,
  `ParsedExactly`, `AnswersFramed`, `FramesSorted`, `DatagramsDelivered`, `PacketsComposed`,
  `FramesAddressed`, `AnswersWhole`;
- not proved, although nothing stands in the way but their size: `WritesInPlace`, `PostedOnce`.

## Further hazards

`PROJECT.json` lists the forty hazards that matter most. These are the others met while
modelling, with the properties that cover them or the reason why none does.

| Where | What | Covered by |
|---|---|---|
| `mm/paging_hashed/hls_mapping/top.cpp:124` | The BRAM command FIFOs hold 16 words and the POP FIFO 32, and the stages write to them without asking whether they are full. | `TableTracksPipeline`, `PostedOnce`; TableTracksPipeline bounds the requests under way, and with them the words of the BRAM command and POP FIFOs, by the entries of the table. The write FIFOs also hold posted writes of requests that were already popped: the table does not bound those, only the rate of the memory does. |
| `mm/paging_hashed/hls_mapping/data_path.cpp:550` | A SET remembers the first free slot on its walk, then goes on looking for the key; a wrong slot, bucket or index at the end of the chain duplicates a key or orphans a bucket. | `ChainsWellFormed`, `Refines` |
| `mm/paging_hashed/hls_mapping/data_path.cpp:521` | After a denied GET hb_dram was never saved, and fill_S2 copies slot 0 of an empty bucket into BRAM. | The pair written is that of an empty slot, whose key 0 no request uses: Refines holds with it. |
| `mm/paging_hashed/hls_mapping/data_path.cpp:446` | The new bucket and the bucket that points to it are two separate posted writes; a walk between them must see either no pointer or a filled bucket. | `ChainsWellFormed`, `Refines` |
| `mm/paging_hashed/hls_mapping/data_path.cpp:136` | __compare looks at the key field only: key 0 matches every empty slot. | Keys excludes 0; with it every lookup of 0 succeeds with value 0, which is visible from the code and needs no run. |
| `mm/paging_hashed/hls_mapping/data_path.cpp:52` | remux serves the write channel only when the read channel is empty. | EveryRequestAnswered starts at remux; the read channel never being empty is up to the users, whose rate is not modelled. |
| `alloc/buddy/buddy.cpp:293` | free() empties lines of the tree level by level, some cached and some only in DRAM, and must stop at the first level that still has users; a bit too few or too many shows only many requests later. | `TreeSound`, `Implements` |
| `alloc/buddy/buddy.cpp:668` | The lines of all levels share one array in DRAM; the rounded quotient 8^level / 7 and the padding of tags whose length is no multiple of 3 must keep them apart. | `TreeSound`, `Implements` |
| `alloc/buddy/buddy.cpp:439` | One bit of the group is enough for test_valid_bits: freeing a larger block than was allocated succeeds and frees the neighbours too. | axis_buddy.h:37 forbids partial frees to the caller, so the model frees whole blocks only; what callers in this repository do is planned with RdmMapping. |
| `mm/paging_hashed/hls_mapping/top.cpp:47` | The table's base arrives on a stream of its own, from a coordinator that is still waiting for other answers; a user whose allocation is sent with the wrong base or order gets memory that belongs to the table. | `PagingSound`; That lookups which arrive before the base use base 0 is visible in the code; HashMapping takes the base as set. |
| `mm/ip_libmm_paging/coordinator/top.cpp:67` | MEM_CMD_ALLOC and MEM_CMD_FREE lead to states that the switch has no case for; after one of them no later command is answered. | `MemoryAnswers`; MemoryAnswers is about the boot command, the only one the library's users send; the dead states are named in the module. |
| `alloc/chunk/chunk_alloc.cpp:49` | The allocator waits in a loop for the segment unit, which serves control requests before bus accesses: each must be answered although the other side waits. | `MemoryAnswers` |
| `app/rdma/rdm_mapping/top.cpp:281` | An ALLOC whose frame was allocated but whose mapping could not be entered is answered as successful: the reply looks at the allocator's status only. The address it hands out does not translate. | `FailureStaysLocal` |
| `app/rdma/fpga/top.cpp:347` | In the first version the request and its payload go through FIFOs of depth two to a writer that stops at the announced length or at the last unit; a payload of another length than announced must neither write past the length nor block the parser. | `WritesInPlace`, `RdmProgress` |
| `net/sysnet/hls_tx/top_64.cpp:44` | In the 64-bit build the arbiter moves on when the chosen port is empty, also in the middle of a frame: the words of two applications' frames alternate on the wire. | The 64-bit sender cannot keep frames whole unless applications never pause; NetFramesWhole claims for it only that no word is lost or overtaken, which does hold. |
| `net/sysnet/hls_rx/top_64.cpp:38` | current and prev are automatic variables: when a call finds no input, the words it writes are undefined. | `NetFramesWhole`; The undefined word is modelled as a value of its own; NetFramesWhole leaves it out and shows the real words around it to be complete. |
| `net/sysnet/hls_rx/top_512.cpp:74` | A frame of one word leaves the receiver in the streaming state: the first word of the next frame goes to the previous frame's application. | The comment at the line assumes frames longer than a word, and the model does too. |
| `net/sysnet/hls_tx/top_512.cpp:45` | The scan for work always starts at port 0: port 1 waits as long as port 0 has frames. | `RdmProgress`; RdmProgress shows that everything handed over is sent when the applications hand over finitely many frames; with an endless supply at port 0, port 1 starves. |
| `kernel/icap_hls/icap_controller/cmd_read_bitstreams.cpp:154` | The frame address is written into a static command array at a fixed index, and used many calls later; a second read must use its own address. | `IcapDiscipline` |
| `kernel/icap_hls/icap_controller/cmd_read_regs.cpp:197` | After a register read the port returns a varying number of junk words; at most five are skipped, a sixth is taken for the register. | `IcapDiscipline`; Holds for up to five junk words, the number the code's comment has seen; MaxJunk is bounded by it. |
| `kernel/icap_hls/icap_controller/top.cpp:142` | The test counter advances before the port has said that it is available: a command may be skipped. | Needs a port that is not available at start; the counter only selects the built-in test sequence. |
| `app/memcached/hls/sources/hashTable/memWrite.cpp:132` | A SET of a key that is present, in a bucket without a free entry, meets no branch: found is false and replace is true, and the stage stays in MW_EVAL for good. | The model reaches the state (Stuck, by Unforeseen), and AllAnswered is stated for behaviours that do not: what it shows is that the table stops in no other way, not that it never stops here. A property without the exception is false of the code. |
| `app/memcached/hls/sources/hashTable/memWrite.cpp:125` | A SET of a present key, which would keep its address, fails when the host has no free address to offer. | `AnswersSequential`; The answer is a failure and the old value stays, which AnswersSequential accepts: it is about what an answer means, not about when a SET may fail. |
| `app/memcached/hls/sources/hashTable/memWrite.cpp:179` | The address given back is read as 31 of its 32 bits: an address above 2^31 would come back as another one. | Addresses of the pools lie far below 2^31. |
| `app/memcached/hls/sources/hashTable/memRead.cpp:67` | Buckets are eight memory words apart, and a key of more than 112 bytes makes a bucket of nine: it overlaps the next bucket. | Needs keys longer than a bucket; the runs have keys that fit, and the theorems about the table name it as their hypothesis (`KeysFit`). |
| `app/memcached/hls/sources/hashTable/hash.cpp:288` | For key lengths that leave one word to the last round the resizer waits in KS_STEP0 for a word that belongs to the next key. | `AllAnswered`; Named as a dead end in the model (ks, part of Stuck); AllAnswered excepts it. |
| `app/memcached/hls/sources/hashTable/memWriteWithBuddy.cpp:69` | The handling of FLUSH is compiled out of this build, and MW_EVAL has no branch for it: a FLUSH stops the table. | `AllAnswered`; Part of Stuck, as above. |
| `app/memcached/hls/sources/valueStore/valueStore.cpp:544` | When the memory pauses at the end of a line, the last word is put out again and the length is counted down for it: the value is wrong. | GetsFresh is stated for a memory that does not pause inside a value (gaps = FALSE); the comment at :543 doubts the line. |
| `app/memcached/hls/sources/valueStore/valueStore.cpp:219` | A value of one word ends with its first word, and the set path then waits for more words, which are those of the next value. | The model's values have two words or more, as every SET with a value has: its eight bytes of extras are stored in front. A SET of an empty value is not modelled. |
| `app/memcached/buildUoeMcdSingleDramPCIe/host_side_software/PCIe_Driver/memMgmt/memManager.cpp:397` | The manager polls for the end of a flush; when the board asks for the next one before the poll, the flag is down again and the manager waits for ever. | The model reaches it (missed), and AllAnswered is stated for behaviours that do not: what it shows is that nothing else stops a flush. Without the exception it is false of the code. |
| `app/memcached/buildUoeMcdSingleDramPCIe/host_side_software/PCIe_Driver/memMgmt/memManager.cpp:419` | back() is read from a list that may be empty when the last address was handed out: an undefined value decides whether the program exits. | The outcome is a choice in the model (exited), and every claim is made for a manager that still runs. |
| `app/memcached/buildUoeMcdSingleDramPCIe/host_side_software/PCIe_Driver/Linux_Driver/xpcie.c:240` | All callers share one ioctl_arg: two threads inside the ioctl mix up offset and value unless the user side keeps them apart with its mutex. | `AddressesOwned` |
| `app/memcached/buildUoeMcdSingleDramPCIe/host_side_software/PCIe_Driver/memMgmt/memManager.cpp:388` | The lists of medium and large addresses are not cleared before they are refilled, pool 3 is cleared twice and pool 2 never. | Those lists have no reader in this build: AddressesOwned is about the small addresses of pool 0, which are handed out. |
| `host/pcie_xdma/xdma/libxdma.c:1121` | How many descriptors of the first transfer are done is the device's count minus desc_dequeued, kept from earlier runs: a count that is not reset credits a new transfer with old descriptors. | `ReportsTrue` |
| `host/pcie_xdma/xdma/libxdma.c:1203` | In polled mode the wait gives up by itself and the submitter judges the transfer by the count it saw last, while the device may complete it at any time. | `ReportsTrue`, `EngineClean` |
| `host/pcie_xdma/xdma/libxdma.c:4393` | Teardown of the ring goes on whether or not the engine stopped in time, and frees pages the device may still write. | `CyclicSound`; CyclicSound holds for teardowns that found the engine stopped; the model names the other ones (expired). |
| `host/pcie_xdma/xdma/libxdma.c:4096` | rx_overrun is cleared after the lock was released: an overrun noticed in between is never reported. | Only without credits, where nothing holds the device back; the stream is not claimed to be complete there. |
| `host/pcie_xdma/xdma/libxdma.c:913` | The polled reader waits for a new end of packet although a complete packet is already in the ring. | StreamArrives, part of XdmaProgress, is stated for the interrupt mode for this reason. |
| `host/pcie_xdma/xdma/xdma_cdev.c:402` | A group of character devices is only marked as created when all of it was; a failure in the middle leaves the first ones registered. | `DeviceSound`; Named in trouble for the kind cdev. |
| `host/pcie_xdma/xdma/xdma_mod.c:226` | A PCI error takes the device offline and disables it; reset, resume and remove follow in any combination, and the interrupts must be on again afterwards, with the user's mask. | `DeviceSound` |
| `host/pcie_xdma/xdma/xdma_mod.c:161` | The mask of user interrupts has one bit more than there are interrupts. | The extra bit has no source; InterruptsRestored compares with the mask as set. |
| `host/pcie_xdma/xdma/libxdma.c:1331` | The shared interrupt handler looks for user interrupts up to the number of H2C channels, not of user interrupts: the ones above have no handler. | `FilesSound`; EventsReachReaders claims delivery for interrupts that the loop reaches, Served in the model. |
| `host/pcie_xdma/xdma/libxdma.c:1572` | Which BAR is which is guessed from how many there are and where the config BAR lies; with three BARs and the config BAR last, the bypass BAR is the config BAR. | `DeviceSound`; BarsSeparate excepts this layout, which the comment at :1541 rules out. |
| `host/pcie_xdma/xdma/cdev_xvc.c:207` | Bits of two processes are shifted through one block; the lock covers a whole request, but an early error return releases a lock that another process holds. | `FilesSound`; ShiftsExact holds until that happens (unlocked). |
| `host/pcie_xdma/xdma/cdev_sgdma.c:194` | Fewer pages than asked for may be pinned; the error path must release those, and it forgets the page array when none was pinned. | `FilesSound` |
| `app/memcached/buildUoeMcdSingleDramPCIe/src/hls/ip_handler/ip_handler.cpp:201` | Header length, total length and the padding of short frames decide where a packet ends; a wrong last word merges two packets. | `FramesSorted`; A header length below five, which the code would count down past zero, is not modelled: no sender produces it. |
| `app/memcached/buildUoeMcdSingleDramPCIe/src/hls/udp/udpCore/sources/udp.cpp:345` | With an even header length the payload needs no shift and takes a path of its own, which ends a packet differently. | `DatagramsDelivered`; Checked for open ports and last words of more than four bytes, where that path ends its packets. |
| `app/memcached/buildUoeMcdSingleDramPCIe/src/hls/udp/udpCore/sources/udp.cpp:222` | The residue word of a returned datagram is set to zero before its upper half is moved down: the last four bytes that are returned are zero and carry no keep bits. | AnswersWhole and DatagramsDelivered follow which words are sent, not the bytes of this one. |
| `app/memcached/buildUoeMcdSingleDramPCIe/src/hls/udp/udpCore/sources/udp.cpp:600` | The payload waits in a FIFO for its checksum while length and addresses wait in others; depths that do not fit deadlock the region. | `PacketsComposed`, `NothingStuck`; For lengths that agree with the data; send_message and the shim announce what they send. |
| `app/memcached/buildUoeMcdSingleDramPCIe/src/hls/icmp_server/icmp_server.cpp:441` | An echo waits in a FIFO of 64 words until its checksum is known, which is at its end: a longer one would fill the FIFO for good. | `NothingStuck`; The FIFO of the instance holds its longest echo; echoes above 64 words are outside the model. |
| `app/memcached/buildUoeMcdSingleDramPCIe/src/hls/dhcp_client/dhcp_client.cpp:264` | In INIT with DHCP switched off nobody reads replyMeta: answers that come late fill it, receive_message blocks on its write, and the multiplexer blocks behind it with the datagrams of memcached. | `NothingStuck`; NothingStuck excepts exactly this state (Backlogged of MCNet): as long as DHCP is on, or the FIFO has room, everything gets through. |
| `app/memcached/buildUoeMcdSingleDramPCIe/src/hls/dhcp_client/dhcp_client.cpp:109` | A message whose first option is not its type is judged by the type of an earlier message, one that ends early by fields of an earlier one, and the six-bit word count makes the 65th word of a long one the first again. | `ClientsSound`; ClientsSound is claimed as long as no such message was received (Proper), which the comment at :103 assumes; the client is not safe from them. |
| `app/memcached/buildUoeMcdSingleDramPCIe/src/hls/dhcp_client/dhcp_client.cpp:318` | Once bound the client ignores every message and never renews its lease. | Leases have no time in the model; the state is final in the code until DHCP is switched off. |

## Not modelled

- `mm/axi_rab` and the RTL of `net/libnet`, `system/`, the boards: signal-level Verilog,
  generated code and vendor models.
- `alloc/chunkfix`, `alloc/chunkvar`, `mm/segvar`, `hls_mapping/control_path.cpp`,
  `kernel/mb/sched`: stubs without state or without callers.
- `mm/ip_libmm_paging/tmp_va_buddy`: a copy of the buddy allocator for another size.
- Memcached: the ASCII formatter (the sources have no ASCII parser), `flashValueStore`, the
  profiler variants, the datamover converters, simulation models, gauges and graphs.
- The PCIe driver's register windows, its performance ioctl and debug output; host tools.

## Plan

1. `WritesInPlace` and `PostedOnce`, and the streams of `UdpReceive` and `RdmMapping` stated by what joins
   their queues, as in `NetProofs`.
2. The parts of `BramCoherent` and `ChainsWellFormed` that need no induction over chains.
