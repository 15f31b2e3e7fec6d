# A TLA+ model of the Xinu kernel, its services and its file-system study

The repository holds two Xinu kernels for the Intel Galileo: `xinu-main`, whose
local file system is locked per file, and `xinu-baseline`, with the original
locking.  The rest of the two trees is the same code (only `device/lfs/lfl*.c`,
`lfsinit.c`, `lfsopen.c`, `include/fsbench.h`, `include/tsc.h` and
`system/fsworker.c` differ).  The experiment driver measures the two, and
`output/` and `r-code/` hold its results.  Line numbers below are those of
`xinu-main`.

This directory specifies the kernel's process manager, its services (memory,
buffer pools, ports), the local file system of both trees with the driver that
measures it, the shell's processes, the serial line, the remote disk, the remote
files, the Ethernet interface, and the network: address resolution, the UDP and
ICMP tables, downloads, and the buffers on their way through it.  Small instances are model-checked with TLC, and
main invariants are proved for every size with TLAPS.

## 1. Inventory

### Processes and scheduler — `system/{create,kill,resume,suspend,chprio,yield,ready,resched}.c`
State: `proctab[]` (state, priority, parent, semaphore, message), `currpid`,
`prcount`, the ready list, the remaining quantum `preempt`, and `Defer`
(`ndefers`, `attempt`).  Operations: the calls of those names, and
`resched_cntl`, with which `signaln`, `semdelete`, `semreset` and `wakeup` hold
rescheduling back while they make several processes ready.  Every call runs with
interrupts disabled.  The one place where another process runs is `ctxsw` in
`resched`.  Correct when: a process is on exactly the queue its state names; the
processor goes to a process no ready one outranks; equals take turns; no
reschedule asked for under deferral is lost; `prcount` is the number of live
processes.  Hard: `kill` sends a message to the parent, and so may switch away
in its middle.

### Process queues — `system/{queue,newqueue,insert,insertd,getitem}.c`
State: `queuetab[]`, one doubly linked list per queue, an entry shared by all
queues per process.  Operations: `enqueue`, `dequeue`, `getitem`, `insert` by
key, `insertd` (delta list).  Correct when: a process is on at most one queue;
`insert` keeps keys in order, equals first come first served; the deltas of a
delta list add up to the delays.  Hard: a process is unlinked by its id alone,
from whatever queue it is on; the key is shared.

### Semaphores — `system/{wait,signal,signaln,semcreate,semdelete,semreset,semcount}.c`
State: `semtab[]` (state, count, queue), `nextsem`.  Correct when: a negative
count is the number of waiters; waiters are served first come first served; no
signal is lost.  Hard: deletion and reset with waiters, killing a waiter, the
count that is wrong in the middle of `semreset`, an entry that is free before
its waiters have left.

### Messages — `system/{send,receive,recvclr,recvtime}.c`
State: one-message buffer per process.  Correct when: `receive` returns only
with a message; a message is not overwritten.  Hard: message against timeout,
resume of a receiver, kill's own message.

### Clock and delays — `system/{clkhandler,wakeup,sleep,unsleep}.c`
State: the sleep queue, `preempt`, `clktime`.  Correct when: every delay ends; a
slice ends after QUANTUM ticks.  Hard: `wakeup` switches away inside the
handler; delays of 0; keys of 32 bits.

### Memory and buffer pools — `system/{getmem,freemem,getstk,mkbufpool,getbuf,freebuf}.c`
State: an address-ordered free list; per pool a list of buffers and a counting
semaphore.  Correct when: blocks never overlap, no two free blocks touch, memory
is conserved; buffers handed out plus the list make up the pool, and the
semaphore counts the list.  Hard: coalescing on both sides, a failed `semcreate`
in `mkbufpool`, killed waiters.

### Ports — `system/pt*.c`
State: `porttab[]` (two semaphores, sequence number, list of messages) and one
free list of message nodes for all ports.  Correct when: a port is a bounded
FIFO; a caller that waited through a reset or deletion returns SYSERR.  Hard:
reset and delete under waiters, nodes that run out (panic), killed receivers.

### Local file system — `device/lfs/*.c`, `system/{remove,rename}.c`, twice
State: `Lf_data` (the directory in memory, is it present, is it dirty), the
open-file table `lfltab[]` (per pseudo-device: directory entry, position, an
i-block and a d-block with a dirty flag each, the byte pointer), and on the disk
the directory, the i-blocks and the d-blocks with a free list of each.
Operations: open, close, read, write, getc, putc, seek, control (truncation) of
a file; remove and rename of the file system.
Interaction: `lf_mutex` for the directory and the free lists, one mutex per
pseudo-device; semaphores from the kernel; blocks from the RAM disk, which
copies memory and never blocks.  Calls of the device switch (`read.c`, ...) run
with interrupts disabled from end to end, so they are left only where they wait
for a mutex somebody holds.  `remove` and `rename` call the device directly with
interrupts enabled: they are the ones that can be preempted anywhere, and the
reason that the others wait at all.
Correct when: a block belongs to one file or to a free list; a read returns what
was written; a descriptor belongs to one open file; the directory on the disk
gets every update; no deadlock between the two locks.
Hard: what is read before a wait and used after it (`lfsopen` chooses its
pseudo-device, `lflputc` looks at the byte pointer), what is changed without the
lock that protects it (`lflclose` flushes, `lflcontrol` truncates), the sector
of seven i-blocks that `lfibput` reads, changes and writes, entries that
`remove` moves under open descriptors, files that are open twice.

### File-system metrics and driver — `system/{fscs,fsmetrics,fsworker,fsdirlock}.c`
State: one "inside" flag and start time for all critical sections, the totals, a
buffer of samples.  Correct when: time inside is the union of the intervals,
every operation is recorded once.  Hard: overlapping critical sections, a worker
preempted between two snapshots that counts the sections of others as its own,
`lf_mutex` handed to one who has not entered, more workers than pseudo-devices, a
driver that does not wait for its workers.

### Serial line — `device/tty/*.c`
State: `ttytab[]`: an input ring with a semaphore of characters, an output ring
with a semaphore of places, an echo ring, the cursor of the line being typed,
modes, `tyoheld`.  Operations: the handler's two halves, `ttyputc`, `ttygetc`,
`ttyread`, `ttywrite`, `ttycontrol`.  Correct when: a character is read or sent
once, in order, unless it was edited away; pointers stay in their rings; the
transmitter does not sleep with characters to send.  Hard: the handler reads
counts of semaphores that callers have changed and not acted on yet; three modes
share one ring.

### Remote disk — `device/rds/*.c`
State: a queue of requests, a cache, a free list, two semaphores
(`rd_availsem`, `rd_reqsem`), a sequence number; one communication process.
Correct when: a read returns what was written last; a buffer is in one place and
counted by at most one unit; each caller is woken for its own request.  Hard:
everything that was looked at before a wait for a buffer, reference counts,
datagrams that are lost, late or answered twice, requests that are merged,
exchanges of callers through the slot of the communication process.

### Remote files — `device/rfs/*.c`
State: `rfltab[]`, `rf_mutex`, `rf_seq`.  A call holds the mutex over its whole
exchange, which is tried RF_RETRIES times.  Correct when: what a call returns is
what the server did for it; the mutex comes back.  Hard: a request that is
carried out twice or late, a stale answer, a killed holder.

### Ethernet — `device/eth/*.c`
State: two rings of descriptors that the DMA fills and empties at any time, an
index at either end of each, `osem` (free transmit slots) and `isem` (frames not
read), the list of multicast addresses.  Operations: `ethwrite`, `ethread`,
`ethhandler`, `ethmcast_add`, `ethmcast_remove`.  Correct when: frames leave and
are read in order, each once; a unit of a semaphore is a slot, none is
forgotten.  Hard: what the DMA does while the handler looks; a ring that is full
has the indices of an empty one.

### Network buffers — `net/net.c`, `net/ip.c`, `net/icmp.c`
State: one pool of buffers, the output queue `ipoqueue` with a semaphore.  `netin`
takes a buffer per packet and hands it on, to a table, back to the pool, or, for
an echo request, takes a second one and queues that for `ipout`; senders take one
and may wait for an address with it.  Correct when: every buffer comes back; the
output queue holds what its semaphore counts.  Hard: everybody who waits for a
buffer may hold one; kills.

### Downloads — `net/tftp.c`
A client that asks, acknowledges and asks again, over one UDP slot.  Correct
when: the file is the one that was asked for, each block once.  Hard: datagrams
that are lost, repeated and late, several sessions of the server.

### Network tables — `net/arp.c`, `net/udp.c`, `net/icmp.c`
State: `arpcache[]`, `udptab[]` and `icmptab[]`, entries with a waiting process;
the message buffer of a process carries the wake-up.  Correct when: a resolved entry is the
last that was heard; a pending entry has a process that will free it; a receiver
that is told of a packet finds one.  Hard: timeout against packet, an entry that
is given away or killed for, two receivers.

### Shell — `shell/shell.c`
State: the process it waits for, its message, the descriptors of the commands.
Operations: opening the files of a command, starting it, waiting; what `kill`
sends and closes when it ends.  Correct when: the prompt comes back when the
command has ended; descriptors stay with their command.  Hard: one message for
several children, a descriptor that is closed twice.

### Other devices
nam: names mapped by prefix over a table made at boot.  RAM disk: a copy per
block.  SD card, GPIO: registers.

### The rest
Interrupt dispatch and context switch (assembly), the device switch (stateless
indirection), bootstrap, configuration and PCI code, the commands of the
shell and the library (stateless or formatting), `zzz_latex/`, `output/`, `r-code/`.

`PROJECT.json` lists every component with its status, and under `hazards` what
is hard to test in each of them, at its line, with the property that covers it.

## 2. Modules

| module | models |
|---|---|
| `Queues` | the process queues: sequences of process ids and a function of keys (`queue.c`, `insert.c`, `insertd.c`, `getitem.c`, the delta part of `unsleep.c`) |
| `Sched` | `ready`, `resched` and `resched_cntl`, as operators on a record `s` of the scheduler's globals |
| `Kernel` | the state machine: one action per system call, interrupt and loop |
| `Semaphores` | the abstract specification: a semaphore is a count that is never negative and a line of waiters |
| `KernelRefinement` | `Kernel` implements `Semaphores` |
| `MCKernel`, `MCSemaphores` | which system calls a run makes |
| `FileBlocks` | the disk, the directory and the control block of a file, as operators: flushing, allocating, freeing, positions (`lfflush.c`, `lfiballoc.c`, `lfdballoc.c`, `lfdbfree.c`, `lfibput.c`, `lfscreate.c`, the pure parts of `lfsetup.c` and `lftruncate.c`) |
| `LocalFiles` | the state machine of the file system and the processes that use it; `PerFile` chooses the locking of `xinu-main` or `xinu-baseline` |
| `Files` | the abstract specification: a file is a sequence of bytes under a name, a descriptor is a position |
| `LocalFilesRefinement` | `LocalFiles` implements `Files` |
| `MCLocalFiles` | symmetry and view for TLC |
| `SemLine` | a semaphore as the modules above the kernel use it: a count and a line (`wait`, `signal`, `semreset`, the part of `kill`) |
| `Ports` | the port table, the message nodes and the calls on them |
| `Channels` | the abstract specification: a port is a bounded FIFO; a caller that was overtaken by a reset gets out with nothing |
| `Memory` | the free list: first fit, stacks from the other end, joining of neighbours |
| `Pools` | buffer pools and stacks on that list, and the processes that hold buffers |
| `FsBench` | the clock of critical sections, samples, workers, a remover and the driver |
| `Tty` | the control block of the line, both halves of the driver |
| `Terminal` | the abstract specification: what is typed, edited and read; what is written and sent |
| `RemoteDisk` | the driver, the communication process, the exchange over datagrams, the server |
| `Disk` | the abstract specification: blocks with a value each, reads and writes |
| `Mailbox` | the message buffer of a process between `send` and `recvtime`, and kills |
| `Arp`, `Neighbours` | the ARP cache, and what it promises: the answer is the address the station has given last |
| `Udp`, `Icmp` | the tables of endpoints |
| `Tftp` | the client of a download, and the sessions of a server |
| `Ether`, `Wire` | the rings, the DMA and the handler; and what they promise: frames in order, each once, only those meant for the station |
| `Stack` | the buffers of the network stack: `netin`, `ipout`, senders, the output queue |
| `Shell` | the shell, its commands and their descriptors |
| `RemoteFile`, `RemoteFiles`, `FileServer` | the remote files, what they promise, and what the server's answers mean |
| `MCServices`, `MCTty`, `MCDevices`, `MCNet` | the instances for TLC, each a sum of parts |
| `QueuesProofs`, `SemLineProofs`, `LocalFilesProofs` | lemmas and theorems about the module each is named after |
| `KernelProofs` | of `Sched`, `Kernel` and `KernelRefinement` |
| `NetProofs` | of `Arp`, `Udp` and `Icmp` together, and `Tftp` |
| `ServicesProofs` | of `Shell`, `RemoteFile`, `Ports`, `Memory`, `Pools` |
| `DevicesProofs` | of `RemoteDisk`, `Tty`, `Stack`, `Ether` |

### State of `Kernel`
`sched` is the record of what the scheduler itself changes: `prstate`, `prprio`,
`qkey`, `readylist`, `currpid`, `preempt`, `ndefers`, `attempt`.  The other
variables have the names of the code (`prsem`, `prhasmsg`, `prparent`,
`prcount`, `sstate`, `scount`, `squeue`, `nextsem`, `nextpid`, `sleepq`).
`cont[p]` is the rest of the call process `p` is in, which the program keeps on
the stack of `p`.

### Actions and atomicity of `Kernel`
Interrupts are disabled from the first statement of a call to its last, so a
call is one action up to where `resched` switches context.  What it still does
after that is an action of its own, enabled when its process is current again:
`ReceiveEnd`, `RecvtimeEnd`, `KillEnd`, `ClkhandlerEnd`.  `kill` is therefore
two steps, `Kill` up to the message to the parent and `KillEnd`: between them
the parent, and whoever the parent lets run, may do anything.  The loops of
`signaln`, `semdelete`, `semreset` and `wakeup` run with rescheduling deferred.
They take one step per round, and while one is on nothing else is enabled, which
is what the code's discipline promises; a deferral that was lost would let
others in, and the properties would tell.

A call that fails its checks returns SYSERR and changes nothing: a stuttering
step, not written down.  Return values are not state, messages are a flag, and
the console descriptors that `kill` closes are `ionull` by default.  The null
process makes no calls.  `Init` is the state after `nulluser` has resumed the
main process, with 1 for the priority INITPRIO.  `xdone` halts the processor,
and so `Kernel` stops in `cont = "xdone"`.  `kernel_msg`, which reaches it, does
not check deadlock; the part of `kernel_sem` with `kill` stutters there, and
everywhere else a stop would be found.

### Abstract specification of semaphores
`Semaphores` has the semaphores in use and, per semaphore, `units` (nobody holds
them) and `waiting` (in the order they came): nobody joins the line while there
is a unit, no unit becomes free while somebody waits, and the first in line is
the first out, except that a waiter may be killed.  The refinement mapping takes
`units` to the count of a semaphore in use, or 0 when that is negative, and
`waiting` to the queue; each round of a loop under deferral is one `Release` or
`V`, its end a stuttering step or the assignment of the new count.

### State and actions of `LocalFiles`
`lfs` is `Lf_data` and the disk, `lfltab` the control blocks.  `lockq[m]` is the
line of processes at mutex `m`, the first of which has it: what `Kernel`'s
semaphores provide with an initial count of 1.  `call[p]` is where `p` is in its
call, with the local variables it holds there; `fds[p]` the descriptors `p` was
given; `got[p]` what it read last.  `cpu` is the process that runs with
interrupts disabled: until it waits or ends its call, nobody else takes a step.
`signal` of a mutex somebody waits for makes that process ready; as they have
equal priorities, who runs next is open.

A call is cut into steps where it waits and, in loops, once per round.  For
the calls under `cpu` the cut is a convenience and adds no interleaving.
`remove` and `rename` are cut where their order of changes matters: per
i-block, between the read and the write of `lfibput`, between the move and the
clearing of a directory entry, and the free list at the end.  `Byte`,
`SetupFirst`, `SetupWalk`, `SetupBlock` and `AfterSetup` are one byte of a
transfer, in which `lfsetup` has `lf_mutex`.  In `xinu-baseline` `Again` takes
the mutex of the file for each byte and `LflcontrolLocked`, `LflcontrolUnlock`
hold it around a truncation.

`halted` is set where C leaves undefined what happens (a null block number used
as an index, a byte put behind `lfdblock`) and where the code panics because
the disk is full.  The link of a d-block is `garbled` once
data has been written over it; a free list that leads there continues anywhere.

`Init` is a disk as `lfscreate` leaves it, not yet read by anybody.  Left out:
reading directory entries, size and existence queries (they change nothing),
`lfscreate` on a disk in use, a disk without a file system, the mode bits (stored, never looked
at), calls that fail at once for want of a pseudo-device.

`Careless` says which of five things the callers leave to chance, because the
code checks none of them:

| | with it in `Careless` | TLC then finds |
|---|---|---|
| `open_twice` | a file is opened while it is open | `BlocksOwned` violated: two caches of one i-block (run `lfs_open_twice`) |
| `open_race` | open is called while another open waits for `lf_mutex` | `OpenFilesApart` violated: both chose the pseudo-device before they waited (`lfsopen.c:57`) |
| `remove_open` | the file that is removed, or the last of the directory, is open or being opened | `OpenFilesApart` violated: `lfdirptr` is left behind (`lfscontrol.c:202`) |
| `remove_close` | close is called while remove runs | `BlocksOwned` violated: `lflclose` flushes without `lf_mutex` between the two halves of remove's `lfibput`, where `lfibput.c:6` says "assumes mutex is held" |
| `share_fds` | a process uses the descriptors of others | in `xinu-main` `NoUndefined` violated by putc (`lflputc.c:19`: "Caller already holds the file mutex") and by truncation; not by reads, writes and seeks |

The second to fourth are `MCLocalFilesRemove.cfg` with that word in `Careless`
(and `BlocksOwned` as its invariant for `remove_close`), the last
`MCLocalFilesShared.cfg` with `putc` or `trunc` in place of `seek`.  The passing runs show
that with this care, which is what a user of the file system has to take, the
rest of the interleavings do no harm.

### Abstract specification of files
`Files` has the bytes of each file that exists, the file and position of each
descriptor, and what each process read.  Its steps are those of single bytes
(the code promises no atomicity of a longer read or write), seek, truncate,
open, close, remove and rename.  The refinement mapping walks the i-blocks of a
directory entry and reads each block from the control block that holds it dirty,
or else from the disk.  A file is gone when `remove` starts to free its blocks;
while an entry is at two places, the later one does not count.

### Processes above the kernel
`Kernel` has every process state and priority; the modules above it do not.  They
use the semaphores of `SemLine` (a count and a line, which is what `kernel_sem`
and the theorem about counts say of the ones in `Kernel`) and let any process
that is not in a line take the next step.  Calls run with interrupts disabled,
so a call is one action up to a wait, and what follows a wait is an action of
its own: between its release and its run a process is nowhere but in its call,
and everything may happen to what it waited for.

### `Ports`
`porttab`, `ptfree` (a count of nodes) and `ptnextid` are the code's;
`ptcall[p]` is the call `p` is in, with the sequence number it has read.
`_ptclear` is three actions after the one that sets PT_LIMBO, since the function
that disposes of a message may wait, and each of the two calls of `semreset` or
`semdelete` may switch.  A deleted port keeps its list pointers, as in the code;
`ptcreate` clears them.  A kill is allowed in `send` and `recv`.

### `Memory` and `Pools`
`memlist` is the sequence of free blocks in the order of addresses, `mlength`
the running total of `memlist.mlength`, `blocks` (history) what callers hold.
The initial list has two regions with a gap, as a boot map leaves them.
`freemem` is called for blocks that are held, and again for memory that is free
already (a stack freed twice), which must be refused.  `Mkbufpool` with
`sem = FALSE` is a `semcreate` that fails: memory stays allocated
(`mkbufpool.c:39` does not free it), so it is held by nobody.  A killed process
gives back its stack, not its buffers.

### `FsBench`
Time is a counter that moves in `Tick`, within sections too.  `lf_mutex` and the
clock are steps of their own: a process is in line, at its head but not yet in
`fs_cs_enter` (`signal` hands the mutex on, and the next one runs later), inside,
in the middle of `fs_cs_exit`, and past it with the mutex still held.  `open`,
`read` and `write` disable interrupts and are left only where they wait or hand
on; `remove` is preempted between any two steps; the size and truncation of
`lflcontrol` hold the mutex and never enter.  Samples are kept modulo `2^Width`,
as the 32-bit fields are.  History variables: `inside`, the ticks in which the holder
was inside; `due` and `strays`, operations the metrics have to count and how many of
them are left over from an earlier experiment; and in `worker` the own sections,
and the time that exits of others took away (`fscs.c:38`).

### `Tty`
`tty` is the control block and the interrupt flag `thre`; `cpu` the process
inside a call; `rest[p]` what it still has to do.  `unread`, `unsent` and `wire`
are history: characters in the rings, and what the last step sent.

### `RemoteDisk`
The lists of buffers are sequences `req`, `cache`, `free`; the communication
process is one of `comm`'s states.  `User`s are callers.  Datagrams under way are a
sequence in each direction: a step may lose the first.  `rdscomm` may fail at its
beginning or at any try (no port, no address, nothing sent), the server may
answer with an error, and does when the disk has been deleted: each makes
`rdsprocess` panic at once, as the last timeout does (`panicked` says where).
`rdsopen` and RDS_CTL_DEL communicate through the slot of the communication
process: while one of them does, an exchange of `rdsprocess` fails (a panic), and
the other way round the call fails.  Of their exchanges only the outcome is told
(`gone`, and blank blocks when a disk is made anew).

### `Ether`
The DMA is two actions that may come at any time; `txDma`, `rxDma` are the slots
it looks at next, `sr` the interrupts it asks for.  The handler is three actions:
the acknowledgement, and one per ring, between which the DMA goes on (calls do
not, interrupts being off).  A call that has been released goes on when no
handler runs.  There is no action for a writer that was let in after a wait:
`SlotsComeBack` says that there is none, which is the bug described in section 4.
`ethgot` and `wire` are history.

### `Stack`
`task[h]` is the step `netin`, `ipout` or a sender is at, and so how many buffers
it has (`Has`); the tables of endpoints are two counts.  `Deliver` may always
drop a packet: whether an endpoint wants it is `Udp`'s and `Icmp`'s business.
The waits in `arp_resolve` and in `ethwrite` are one state, `resolve`.  A packet
is queued only while `ipout`, whose priority is NETPRIO, has taken the one before.

### `Mailbox`, `Arp`, `Udp`, `Icmp`
The outcome of `recvtime` is decided when the process runs: with a message it is
that, otherwise TIMEOUT, at any time.  `heard` and `arpret` are history
variables: the last hardware address of each station, and the last answer.

### `Tftp`
`client` is the download that goes on: its port, the port to answer to, the block
it expects and the attempts.  A datagram that was sent stays in `tosrv` or
`tocli`: it may arrive any number of times, at any time, or never.  The server
begins a session with a port of its own for each request that arrives, also for
a repeated one.  The file of each download is another one, so that blocks tell
where they come from.

### `Shell`
`child` is the command the shell waits for, `shmsg` its message buffer, `cmd` the
commands with their descriptors (`prdesc[1]` and `[2]` are one) and, when they
end, those they still have to close.  `kill` is two actions, the message to the
shell and the closing, since the message switches to a shell of equal priority.

### `RemoteFile`
`exch` is the exchange of the holder of the mutex, `requests` and `replies` the
datagrams under way, `files` the server's files.  The server carries out every
copy that reaches it.  `exch.effect` (history) is what the first copy did, with
which the answer is compared.

### What the drivers leave to chance
As for the file system, a constant names what the code does not guard against.
The runs leave all of it out, but for `full` of `Ether`; each other word put back
makes TLC find the violation, except `shared`, after which `RemoteDisk` stops.

| module | word | what happens | TLC then finds |
|---|---|---|---|
| `Tty` | `flood` | input arrives although the ring is full: raw and cbreak count semaphore units, not characters | `UnitsHaveChars` |
| | `wrap` | `ttyhandle_in.c:43` compares the output tail, line 157 nothing, line 99 corrects the head | `UnitsHaveChars` |
| | `held` | a key other than ^S, ^Q takes back the hold without asking for the interrupt (line 71) | `OutputGoesOn` |
| | `drain` | a place a writer was given counts as a character to send (`ttyhandle_out.c:57`) | `UnitsHaveChars` |
| `RemoteDisk` | `same` | a second request for a block that is being read is unlinked with the wrong pointers (`rdsprocess.c:117`) | `RemoteDiskRefined` |
| | `waited` | what was searched before the wait for a buffer is not searched again (`rdswrite.c:67`) | `RemoteDiskRefined` |
| | `overtaken` | `rdswrite` resets `rd_availsem` under a waiter (`rdswrite.c:57`) | `BuffersCounted` |
| | `other` | the block number of a read message is never set (`rdsprocess.c:45`): the one of the last write is sent | `RemoteDiskRefined` |
| | `stale` | an older answer of the right type is accepted (`rdscomm.c:88`) | `RemoteDiskRefined` |
| | `close` | the disk is closed or deleted under a reader (`rdsclose.c:31`) | `RemoteDiskRefined` |
| | `shared` | the answer to a deletion has come, its caller has not run, and the communication process takes from the same slot (`rdscomm.c:78`) | not followed further |
| `Mailbox` | `stray` | any message ends the wait of `arp_resolve` (`arp.c:133`) | `ArpCacheSound` |
| | `reuse` | a pending entry outlives its process, whose id is used again (`arp.c:79`) | `ArpCacheSound` |
| | `evict` | an entry is given away before the process it was resolved for runs (`arp.c:148`) | `NeighboursRefined` |
| | `shared` | two processes receive from one slot, and the second dequeues without looking (`udp.c:207`) | `EndpointsServed` |
| | `release` | `udp_recv` sets the state of a slot that was released meanwhile (`udp.c:195`) | `EndpointsServed` |
| `Icmp` | `flood` | replies come to a full ring (`icmp.c:86` has no check) | `EndpointsServed` |
| | `wrap` | the head wraps at ICMP_SLOTS, the ring at ICMP_QSIZ (`icmp.c:201`, `339`) | `EndpointsServed` |
| `Tftp` | `sameport` | the local port is the time in seconds (`tftp.c:175`): two downloads in one second share it | `FileInOrder` |
| | `changed` | the file changes between two sessions of a download | `FileInOrder` |
| `Ether` | `full` | all transmit slots are in use | nothing: `SlotsComeBack` says that all writers wait for ever |
| | `burst` | all receive slots are filled, and frames are counted twice (`ethhandler.c:95`) | `SlotsComeBack`, `WireRefined` |
| | `mcast` | an address is removed from a full list (`ethmcast.c:59`) | `SlotsComeBack` |
| `Stack` | `slow` | a packet is queued before `ipout` has taken the last (`ip.c:454`) | `NetBuffersOwned` |
| | `kill` | a process is killed that has a buffer | `NetBuffersOwned` |
| | `flood` | a reply comes for an endpoint whose ring is full: `icmp_in` puts it over the oldest (`icmp.c:87`), whose buffer is lost | `NetBuffersOwned` |
| | `wrap` | `icmp_recv` takes a pointer from behind the ring (`icmp.c:201`), and the buffer it should have taken is lost | `NetBuffersOwned` |
| `Shell` | `crowded` | two children end before the shell takes a message (`shell.c:433`) | `ForegroundReturns` |
| | `twice` | a descriptor is opened between its two closes (`shell.c:429`, `kill.c:29`) | `ForegroundReturns` |
| | `leak` | a command is given up with files open (`shell.c:400`, `415`, `422`) | `ForegroundReturns` |
| `RemoteFile` | `late` | a copy of a request reaches the server after its exchange | `RemoteFilesRefined` |
| | `kill` | the holder of the mutex is killed (`kill.c:36`) | `MutexReturned` |
| | `size` | the status of a size answer is not looked at (`rfscontrol.c:105`) | `RemoteFilesRefined` |

### Abstract specifications of the services
`Channels`: a sequence of messages up to a capacity per channel; a receiver gets
the head, a sender appends, a reset empties, and a caller whose channel was reset
while it waited leaves with nothing.  `Terminal`: what was typed and not erased is
read in order, what was written is sent in order.  `Disk`: each block has a value,
a read returns a value the block had at some moment of the call.  `Neighbours`:
the answer is the address the station has given last.  `Wire`: two queues, frames out in the order in which they
were handed over, frames in read in the order in which they came, those for
others dropped.  `RemoteFiles`: each
call takes effect at most once, and what it returns is that effect.

## 3. Runs

Sizes are small because every process and semaphore is treated alike; what
matters is that each of the following happens: a waiter, a second waiter behind
it, and somebody who runs; two priorities and two processes of one of them; a
parent that is made ready by the death of its child; an entry that is used
again.  `NPROC` 3 is the null process, the main process and one more, 4 has two
children.

| run | instance | shows |
|---|---|---|
| `kernel_sem` | two parts: every call on a semaphore with two priorities; and suspensions and kills with one | types, queues, counts, priorities, `PrcountIsLive`, and `SemaphoresRefined` |
| `kernel_msg` | messages, timeouts, delays, suspension, kill, chprio, yield | `MessageBeforeReceiveReturns` |
| `kernel_live` | fair clock | `RoundRobin`, `SleepersWake` |
| `lfs_seq` | one process, all that is done with open files | `BlocksOwned`, `CleanMeansWritten`, `FilesRefined` |
| `lfs_remove` | two processes, two files; remove and rename preempted anywhere | `OpenFilesApart`, `FilesRefined`, no deadlock |
| `lfs_shared` | one descriptor, two processes, `xinu-main` | `NoUndefined`, `CallsReturn` |
| `lfs_baseline` | one descriptor, two processes, `xinu-baseline` | `NoUndefined`, `FilesRefined` |
| `lfs_open_twice` | violation | see section 4 |
| `services` | four parts: one port with three processes, two nodes; two pools over a heap of two regions with three users; two workers, a remover that also asks for sizes, two experiments and two ticks; the shell with three commands and three descriptors | the ports', memory's, pools', samples' and shell's invariants, `ChannelsRefined` |
| `tty` | three parts: editing, two readers, two writers; rings of 3 | `UnitsHaveChars`, `OutputGoesOn`, `TerminalRefined` |
| `devices` | five parts. Remote disk: a lossy network, and all calls, with deletion and opens that fail, two exchanges each; two callers, two blocks, two buffers. Ethernet: rings of 3 with one writer and two readers, and a list of two groups. Stack: two senders, five buffers, an output queue of 2 | buffers, wake-ups, `RemoteDiskRefined`, `SlotsComeBack`, `WireRefined`, `NetBuffersOwned` |
| `net` | six parts: ARP with three stations and two entries; UDP with two slots; both together; ICMP with three slots; two downloads of a file of three blocks with three server sessions; remote files with two descriptors and three exchanges | the tables' invariants, `FileInOrder`, `MutexReturned`, `NeighboursRefined`, `RemoteFilesRefined` |

Bounds of `Kernel`, all CONSTANTS: `NPROC`, `NSEM`, `QUANTUM` (table sizes and time slice),
`Prios`, `Counts`, `Delays` (arguments), `Syscalls` (which calls a run makes) and
`MaxCount`, the one bound in guards: `Signal` and `Signaln` stop there, with two
units free, one more than it takes to tell a taken unit from the last one.  The other variables are bounded by the
code itself.  Passing runs together take every action.

Bounds of `LocalFiles`: the sizes of the disk and its tables (`LF_NUM_DIR_ENT`,
`NIBLK`, `NDBLK`, `IBPERSECT`, `LF_IBLEN`, `LF_BLKSIZ`, `Nlfl`), the processes,
names and bytes, and two bounds in guards: `MaxSize`, where a write no longer
starts, and `MaxCount` bytes per read or write.  The blocks are as small as they
can be while a file still crosses from one d-block to the next and from one
i-block to the next, and two i-blocks share a sector.  In `lfs_seq` the disk has
fewer blocks than the files could use, so that the panic is reached: where that
may happen, the system really stops and deadlock is not checked
(`CHECK_DEADLOCK FALSE`; `CallsReturn` tells a deadlock from a panic).  Processes,
names and bytes are interchangeable (`Interchange`), which the safety runs use;
the view `InUse` leaves out the control blocks that are not open, whose contents
nobody reads before `lfsopen` and `lfsetup` set them.

Bounds of the services: state spaces of components that share nothing are added,
not multiplied, by a variable (`service`, `part`) that never changes.
`MaxSeq`, `MaxNow`, `MaxLaunches`, `MaxNet`, `MaxExchange`, `MaxSync`, `MaxRfSeq`,
`MaxGets` and `MaxSessions` are the bounds in guards.  Two downloads let blocks of
the first come late, three sessions let a repeated request begin a second one;
`ICMP_SLOTS` 3 against `ICMP_QSIZ` 2 keeps their relation in the code (10 and 8).  `MaxSeq` 3 is one creation and two clearings of a port, so
that a caller is overtaken twice; `MaxLaunches` 2,
`MaxNow` 2 and `Delay` 1 let the driver return with a worker on its way, start
another experiment, and have time go by in a section and outside one; a heap of 3 and 2 units has blocks
that join on either side and on both; rings of 3 wrap within a behaviour, and
`TY_EBUFLEN` 4 with echoes of up to 3 wraps likewise; two buffers make callers
wait for one and evict; `MaxExchange` 3, two exchanges, lets a read of a block follow a
write of it; two retries are a first and a last try.  In `net` the part with both
tables has one station, and the others one port.  Processes, stations, hardware
addresses and data are interchangeable; `InView` leaves out what requests have
returned, which no step reads.  These systems stop at their bounds, so deadlock
is not checked there.

Properties:

- `TypeOK`: types, and at most one defer.
- `QueuesMatchStates`: a process is on the queue its state names and on no other.
- `CountsMatchQueues`: a negative count is the number of waiters.
- `HighestPriorityRuns`: outside the kernel nothing is deferred and no ready
  process outranks the current one.  It is checked without `chprio`, which
  breaks it (section 4).
- `MessageBeforeReceiveReturns`: `receive` never returns without a message.
- `PrcountIsLive`: `prcount` is the number of live processes, less the victims of
  kills in progress.  In `kernel_sem` no kill waits behind the parent, so that
  no victim is killed twice (section 4).
- `SemaphoresRefined`: the abstract specification.
- `RoundRobin`: a ready process nobody can outrank runs.
- `SleepersWake`: a delay ends.
- `BlocksOwned`: types, and no i-block or d-block is lost or in two places, counting the
  blocks that are still in memory.
- `CleanMeansWritten`: while the directory counts as clean, the one on the disk
  has its free lists and every file that has bytes.  The entry of a new, empty
  file may be missing: `lfsopen.c:159` adds it and does not set `lf_dirdirty`,
  although `lfilesys.h:141` says of that flag "Has the directory changed?".
- `OpenFilesApart`: a descriptor is given to one process (`SlotOwner`), and open
  files have directory entries in use, each its own (`EntryIsOwn`).
- `NoUndefined`: nobody runs off a list of blocks or puts a byte behind a block.
- `FilesRefined`: the abstract specification.
- `CallsReturn`: every call ends, or the system has stopped.
- `PortsConsistent`: types; every message node is free or in one port; who was
  let in finds a message, or a place; and `ptcount` says what its comment says.
- `ClearedCallersGetOut`: nobody is left in line at a port that was reset or deleted.
- `MemoryConserved`: free and held blocks make up the heap, each unit once; free
  blocks are in order and no two touch; the total is right.
- `BuffersOwned`: a buffer is in one place, and a getter let in finds one.
- `MeasurementsSound`: the clock of critical sections is the time the holder of the
  mutex was inside, less what `fs_cs_exit` loses, and goes back by that; a sample is
  at least the own sections and at most the time that went by, but for what exits of
  others took away; the statistics are the sums of the samples as long as the
  buffer has room; operations that are not recorded are those still to be done,
  and those of an earlier experiment are no more than it had left.
- `UnitsHaveChars`: pointers stay inside their rings; units of the two semaphores,
  processes let in and characters add up.
- `OutputGoesOn`: the transmitter does not sleep with something to send.
- `BuffersCounted`: every buffer is in one list, and a unit of `rd_availsem` has a
  buffer; the driver panics when an exchange fails (`rdsprocess`), never because
  it finds no buffer (`rdsbufalloc`).
- `WokenForEachRequest`: the communication process is woken once for every read
  and write in the queue, and not for a synchronisation.
- `ArpCacheSound`: what is resolved is what was heard last, and what is pending
  has a process that waits for it.
- `EndpointsServed`: in the tables of UDP (`ReceiversServed`) and ICMP
  (`EchoesServed`), one slot for each endpoint, a packet for each receiver that is
  told of one, a receiver for each slot that says it has one; the packets of an
  ICMP entry are those between its head and its tail.
- `FileInOrder`: what is in the buffers is the beginning of the file that was
  asked for, each block once; a download that says it is whole is.
- `SlotsComeBack`: units of `osem` and `isem` are slots and frames, and none is
  forgotten once the handler has returned, until the transmit ring is full.
- `NetBuffersOwned`: every buffer is in one place, the output queue has what its
  semaphore counts, and not everybody who has a buffer waits for another.  That is
  so where remote stations answer no more than a ring has room for, and the ring
  is taken from in its own length: `flood` and `wrap` lose buffers.
- `ForegroundReturns`: the shell waits for a command that runs or whose message is
  there, and descriptors stay with their command.
- `MutexReturned`: the mutex of the remote files is free or held by a call.
- `ChannelsRefined`, `TerminalRefined`, `RemoteDiskRefined`, `WireRefined`, `NeighboursRefined`,
  `RemoteFilesRefined`: the abstract specifications.

Each has at least one mutant in `PROJECT.json`, the code with a plausible slip
(`signal` that compares after it increments, `suspend` that forgets the ready
list, a deferral that is not counted back, ...), which TLC tells from the code.

### Fairness
`WF_vars(Kernel)`: code in the kernel runs on, because interrupts are off and
nothing can stop it.  `SF_vars(Clkhandler)`: the timer ticks at a fixed rate and
an interrupt that arrives while they are disabled stays pending; processes that
enter and leave the kernel disable and enable it infinitely often, hence strong
and not weak.  Nothing is assumed of user code: it may compute for ever, and
calls are not fair.  The modules from `Ports` on state safety only.

For `LocalFiles`, `SF_vars(Step(p))`: the processes of one priority take turns
(`RoundRobin`), and one that is ready again and again goes on with its call.
Strong, because others may run with interrupts disabled in between.  Calls are
not fair.

## 4. Divergences

One is a run of its own:

- `lfs_open_twice`: the comparison that should refuse a file that is open is
  commented out (`lfsopen.c:76`), where `lfsopen.c:51` says "If named file is
  already open, return SYSERR".  Two descriptors of a file cache its i-block
  separately; a d-block allocated through one of them is in no file and on no
  free list once the other is used.  The workers of the experiment all open the
  same file.

Three of the process manager are found by other instances of `MCKernel`:

- `chprio` (`chprio.c:25`) changes the priority of a ready process and leaves the
  ready list as it is.  A later `resched` looks at the first of the list and
  dispatches a process that a ready one outranks, where `resched.c:8` says
  "Reschedule processor to highest priority eligible process".  With NPROC 4,
  QUANTUM 1, two priorities and the calls create, resume, chprio and yield, TLC
  violates `SwitchToHighest`.
- `kill` counts its victim out of `prcount` (`kill.c:24`) before the message to
  the parent (`kill.c:28`) switches away with the victim still in the table.  The
  parent kills it as well, and it is counted out twice: `prcount` is no longer
  the "Total number of live processes" (`initialize.c:26`), and `xdone` may come
  while a process lives.  With two priorities and the calls create, resume, kill
  and receive, TLC violates `PrcountIsLive`.
- `insertd` (`insertd.c:24`) puts a process with a delay of 0 in front of a
  sleeper, and `clkhandler` decrements the first key only.  A process that calls
  `recvtime(0)` once per tick keeps the sleeper asleep for ever, where
  `sleep.c:23` says "Delay the calling process n milliseconds".  With NPROC 3,
  delays {0, 2} and the calls create, resume, recvtime and sleepms, TLC violates
  `SleepersWake`.  `kernel_live` shows that without delays of 0 every delay ends.

The tables of section 2 are the rest: each of their words is something the code
does not guard against.  The ones with a text to hold against them:

- `ethwrite.c:26` waits "for an empty slot in the transmit descriptor ring" and
  `ethhandler.c:51` is to "Repeat until we process all the descriptor slots".
  When every slot is taken, `txHead` equals `txTail`, the loop ends at once, and
  no slot is signalled again: all writers wait for ever.
- `icmp.h:28` calls `icqueue` a "circular packet queue" of ICMP_QSIZ (8) entries,
  but its head wraps at ICMP_SLOTS (10): from the ninth reply of a registration
  on, `icmp_recv` takes pointers from behind the queue.
- `tftp.c:140` calls the time in seconds a way to a "random" port number: a
  second download in the same second takes blocks of the first for its own.  A
  download for which the buffers are too small returns the bytes that fit as if
  they were the file (`tftp.c:249-257`).
- `icmp.c:87` puts a reply into the ring of an endpoint without looking whether it
  is full, where `udp_in` and `ipqueue` do look: the buffer it overwrites never
  comes back to the pool (`flood`).
- `fs_run_experiment` is to allow its workers "to run for long enough to complete"
  (`fsworker.c:168`); it sleeps ten seconds, and returns whatever they do: what an experiment lacks is
  counted in the next one, and `ExperimentsApart` says how much that can be.
- `fscs.c:38` reads the time before it disables interrupts.  A `remove` that is
  preempted there takes ticks off the clock that others have seen on it: the clock
  goes back, and a sample with no section of its own may wrap to nearly 2^32.  The
  ticks in which `lf_mutex` is held before `fs_cs_enter`, after `fs_cs_exit` or in
  `lflcontrol` (`lflcontrol.c:33`, `39`) are not counted at all.
- `rdsopen.c:41` and `48` return SYSERR for an identifier that is empty or too
  long, after line 35 has made the device RD_PEND: nobody opens it any more.
- `rdsprocess.c:65` and `180` panic with "failed to contact remote disk server" on any
  failure of `rdscomm`: also when the server answers with an error
  (`rdscomm.c:103`), and when `rdsopen` or a deletion waits at the slot
  (`rdscomm.c:80`).
- The shell takes one message per command and throws away those of others
  (`shell.c:433-438`): if a command in the background ends first and the shell
  has not taken its message, that of the command in the foreground is refused.

Seen on the way and outside the models: renaming a remote file sends whatever
the stack holds for the old name (`rfscontrol.c:116-123`); `ip_send` returns with
interrupts still disabled when there is no route (`ip.c:161-172`), which its
callers make good; and since `kill` tells the parent (`kill.c:28`) before it
closes (`kill.c:29`), a command may open the file another has not yet closed.

## 5. Proofs

What TLC shows on an instance, these show for every value of the constants that
the modules' assumptions allow.  A theorem with a hypothesis about `Careless` (or
a set like it) is about systems whose processes, or whose surroundings, do not
do the things named by its words: what the code does not guard against
(section 2), and where the property does fail.  All other words stay allowed.

| theorem | property | hypothesis |
|---|---|---|
| `KernelTypeOK` | `TypeOK` | |
| `KernelQueues` | `QueuesMatchStates` | |
| `KernelCounts` | `CountsMatchQueues` | |
| `KernelCountsLive` | `PrcountIsLive` | `KillsApart` |
| `KernelHighestPriority` | `HighestPriorityRuns` | no `chprio` |
| `KernelMessages` | `MessageBeforeReceiveReturns` | |
| `KernelImplementsSemaphores` | `SemaphoresRefined` | |
| `LocalFilesApart` | `OpenFilesApart` | no `open_twice`, `open_race`, `remove_open` |
| `LocalFilesClean` | `CleanMeansWritten` | the same, no `share_fds` |
| `NetResolves` | `ArpCacheSound` | no `stray`, `reuse`, `evict` |
| `NetImplementsNeighbours` | `NeighboursRefined` | the same |
| `NetReceivers` | `ReceiversServed`, half of the next | `NetCareless = {}` |
| `NetServes` | `EndpointsServed` | that, `IcmpCareless = {}`, `ICMP_QSIZ < ICMP_SLOTS` |
| `TftpInOrder` | `FileInOrder` | `TftpCareless = {}` |
| `ShellPrompts` | `ForegroundReturns` | `ShellCareless = {}` |
| `RemoteFileMutex` | `MutexReturned` | no `kill` of the holder |
| `RfImplementsRemoteFiles` | `RemoteFilesRefined` | `RfCareless = {}` |
| `PortsServe` | `ClearedCallersGetOut`, `PlacesAndMessages` | |
| `PortsFit` | `PortsConsistent` | nobody is killed who clears a port |
| `PortsImplementChannels` | `ChannelsRefined` | |
| `MemoryKept` | `MemoryConserved` | `HeapOK` |
| `PoolsOwn` | `BuffersOwned`, `MemoryConserved` | `HeapOK` |
| `RemoteDiskKept` | `BuffersCounted` | finitely many users; no `overtaken`, `close` |
| `RemoteDiskWakes` | `WokenForEachRequest` | the same |
| `TtyUnits` | `UnitsHaveChars` | `TtyCareless = {}` |
| `TtyGoesOn` | `OutputGoesOn` | `TtyCareless = {}` |
| `SlotsReturn` | `SlotsComeBack` | no `burst`, `mcast` |
| `EtherImplementsWire` | `WireRefined` | the same |
| `NetBuffersKept` | `NetBuffersOwned` | `StackOK` |

Of a component that shares a run with others (`MCServices`, `MCNet`, `MCDevices`)
the theorem is about its own specification, `PortsSpec`, `ShellSpec` and so on: the parts
have no variable in common, and the run is their interleaving.  The exception is
`NetSpec`: address resolution, UDP and echo replies share the message buffers of
the processes, and there the point is that none takes the message of another.

### The kernel
Seven theorems, for every `NPROC >= 2`, `QUANTUM >= 1`, `NSEM >= 1`, `Prios` of
positive numbers, `Counts` and `Delays` of naturals, and every set of system
calls.  The first three follow from `KernelInv == Spec => []IInv`, where

    IInv == Dispatched(sched) /\ ContInv /\ TableType /\ SleepOK /\ SemOK

- `Dispatched`: types of the scheduler's record, the ready list
  holds the ready processes once each, the one current process is `currpid`,
  and the null process is ready or current, so that `resched` always finds
  somebody.  That part makes `Head(readylist)` meaningful.
- `ContInv`: only the current process is in a loop under deferral, and then
  `ndefers` is 1, else 0.  Without it a loop could resume under somebody else.
- `SleepOK`, `SemOK`: a queue holds the processes whose state says so, once each.
  Two parts are there for induction only: `FreeEmpty`, a free semaphore has no
  waiters unless `semdelete` is on its way (for `semcreate`, which sets a count
  and trusts the queue to be empty), and that a waiter's `prsem` is a semaphore
  (for `kill`, which uses it as an index).

`KernelHighestPriority` adds `Scheduled(sched)`: the ready list is in descending
order of the keys, a ready process has its priority for a key (`Ranked`), and
nobody ready outranks the current process unless an attempt to reschedule is
deferred.  `chprio` breaks `Ranked`, and the property with it (section 4).
`KernelMessages` adds `MsgOK`: a process whose wait in `receive` is over has a
message, and one that still waits has none.

`KernelCountsLive` says of every kill that it picks a process nobody is killing
and that kills nobody, and that who kills is not being killed (`KillsApart`, a
conjunct of the theorem's left side).  `prcount` is then the number of live
processes less the victims of kills in progress (`Counted`).  `KillsOK` makes it
inductive: the kills in progress have a victim each, and a killer is nobody's
victim unless it kills itself.  Without the hypothesis two kills take one process
off the count twice (`kill.c:24`).

`KernelImplementsSemaphores` maps a semaphore to its line and a step to a step of
`Semaphores` or a stutter.  The loops of `signaln`, `semdelete` and `semreset`
are one step of `Semaphores` per round.

### Local files
`LocalFilesApart` needs most of the file system to say that two descriptors are
never one file.  `IInv == StateOK /\ LineInv /\ FilesInv` in `LocalFilesProofs`:
`StateOK` has the types; `LineInv` says at which places of its call a process is in
the line of `lf_mutex`, and at which it has come to its head; `FilesInv` says that
the pseudo-device an `open` has chosen is still free and its file not open, and that
neither the entry a `remove` works on nor the last one, which it moves, is open.
What makes it inductive is the order of the line: an `open` chooses its
pseudo-device before it waits (`lfsopen.c:57`), and one that came after a `remove`
stays behind it (`Before`).  Closing during a removal, renaming at any time, and either way of locking
(`PerFile`) are in it.

`LocalFilesClean` adds `CleanInv`.  That the disk is good while `lf_dirdirty` is false
fails at one place, between the two steps of a removal, where the copy of the last
entry is there and the flag is not set yet: `CleanInv` excepts who is at `clear`.
Elsewhere a step may change an entry without setting the flag in two ways only, and
each must keep the size at 0, which the disk may lack: `lfsopen` adds an entry, and
`lfsetup` (`SetupFirst`) gives the first i-block to a file that has none, after
`lfiballoc` has written the directory without it.  For the second the file must
have no bytes, so that `CleanInv` says that a file
without i-blocks has size 0 (`SizesOK`), and, since `PutByte` makes the file longer,
that a control block with a block of its file is one of a file with i-blocks
(`Loaded`).  The other way round, `lftruncate` takes the i-blocks away: no
other descriptor has the entry (`OpenFilesApart`), and the one that has it lets its
blocks go.  Two processes with one descriptor break that (`share_fds`: `lflputc` of
`xinu-main` takes no mutex), so that the theorem excludes it.

### The network
`ResolveInv` says of each process that waits for an address which entry it has
made or found, and who may send it a message; `UdpInv` and `IcmpInv` do the same
for endpoints, and that a message there means a packet.  `ResolveInv` is inductive by
itself, so that `NetResolves` allows two receivers at one endpoint and endpoints
released under their receiver.  `ICMP_QSIZ < ICMP_SLOTS` is what `icmp.h` has (8
and 10): the head wraps at the one and the tail at the other, and as long as
`IcmpCareless` is empty neither gets that far.

`TftpInv`: the buffers hold the blocks 1 to n of the file of this download,
block n + 1 is expected, and every datagram on its way from a session is a block
of the file of the download that the session answers, whatever came before.

### The services
- `ShellInv`: a descriptor is open for a command exactly while the command has
  still to close it, and the shell's child runs or has sent its message.
- `RfInv`: the count of the mutex is 1 and nobody holds it, or 0 or less and exactly one
  process does, who is not in its line; only the holder has an exchange.
- `PortInv`: for each port, who is in the two lines (`LinesOK`), that nobody waits with
  a sequence number of the future (`SeqsOK`), that a port in limbo is being
  cleared by one process (`ClearOK`), and places and messages against the units
  of the semaphores and those let in (`PlacesOK`).
- `PortCountsInv`, for `PortsFit`: nodes in use are pairs of a port and a place in its list,
  so that to count them is to count sets, and no message is there that no unit
  or process let in stands for.  A clearer that is killed has put back nodes that
  its port still has.
- `PortsImplementChannels` needs no more than `PortInv`.  The point is `SeqsOK`: a
  caller that a reset or a deletion overtook stays overtaken when the port is
  opened again, since sequence numbers never come back; so it can neither append to the
  new channel nor take from it.  A port in limbo is closed already, so that
  emptying it in two resets and a loop is a stutter.
- `RfFilesInv`, for `RfImplementsRemoteFiles`: the copies of a request that are under way are
  of the exchange in progress; an answer with its number tells what it did; and
  what it did is still so (`Settled`), so that a second copy changes nothing.  That
  is what makes retries harmless, and it is a lemma per operation: a write at a
  position, a truncation and an opening end in the same file, a read and a size give
  the same answer, and only a deletion fails the second time, which the code does not
  take for an error of its own.  `late`, `kill` and `size` (section 2) each break it.
- `MemInv`: the free list is in order with something between two blocks, held blocks
  are apart from it and each other, and together they are the heap.  `Max` over
  the free list (`getstk`) and `Min` are shown to find what they should.
- `PoolsInv`: `MemInv`, that stacks and pools are blocks of the heap of their own
  (`OwnersOK`), and for each pool that its list and the buffers held are its
  buffers once each, with at least as many on the list as units and getters let in.

`HeapOK` has two parts.  The regions of the heap do not touch: `meminit` puts two
that do on the list as they are, and then it is not joined from the start.
`HeapLength` is the number of bytes: it is a sum over a sequence, which
needs induction over data (below).  Both hold of the heap in `MCServices`.

### The devices
- `RdsInv` (remote disk).  The property counts buffers; to keep the count, one has to
  know whose they are.  `RdsRequests`: a read or a synchronisation in the queue
  belongs to one caller, who has no other and has not been answered.  `RdsMail`:
  a buffer that was sent stays in the cache, with a reader, until the reader has run.
  `RdsReading`: what is being read is the head of the queue.  `RdsSemaphore`: units
  and callers let in are the buffers on the free list and in the cache.  Callers that open or delete
  are in no list.  All of it is claimed only while the lists are not mixed (`Runs`) and the driver has not panicked; mixing them (`same`, `shared`), late
  datagrams (`stale`, `other`) and requests for one block (`waited`) are allowed.
- `TtyInv` (serial line).  Of the control block by itself (`Block`): pointers and
  counts stay in the rings, and the transmitter does not sleep with something to
  send.  And with the processes (`Balanced`): places, characters and requests for
  them add up against the *counts* of the semaphores, negative ones included.
  `UnitsHaveChars` speaks of units and of processes let in; that the two sums
  are one is shown once (`WaitCounts`, `SignalCounts` in `SemLineProofs`).  Each part of
  the upper half that takes a key is a function of the control block, and has a
  lemma that it keeps both (`...Calm`).
- `EtherInv` (Ethernet).  From the head of the transmit ring on, u slots are taken
  and the first d of these have been sent (`TxShape`); in the receive ring b frames
  have come and the handler has seen the first a (`RxShape`).  Ring positions are that
  many slots from the head (`SlotAt`); units and processes in line add up to u and
  a; and an interrupt is due or being handled for whatever d and b - a are not
  zero.  `EtherImplementsWire` reads the two queues off the rings: what is between
  u and d is to be sent, what is before b is to be read.  That all transmit slots
  are taken (`full`) is allowed: no frame is lost then, though nobody gets on.
- `StackInv` (buffers of the stack).  `BuffersAdd` counts with the count of the pool in
  the same way; `QueueOK`: the packets in the output queue are the n places from
  its head on, and n is what its semaphore says, and one more when `ipout` has
  been let in and has not run.  `StackOK` says that `StackCareless` is empty (`flood`, `wrap` and
  `kill` lose buffers) and the pool has more buffers than there are senders and `netin`; then they cannot
  all be kept by processes that wait for a second one.  `net_init` makes
  6*64 + 10*8 + 1 = 465 buffers and there are 100 processes (`conf.h`).

### How the proofs are laid out
`QueuesProofs` has the facts about queues (an insertion adds one process and
keeps the others, a removal takes one out, keys stay integers, sorted stays
sorted), `KernelProofs` begins with `Sched`: that `ready`, `resched`, blocking and the end of a deferral
keep `Dispatched` and `Scheduled`.  Then comes one lemma per action, from which the
lemma about the next-state relation is put together.  Steps that leave a part
alone use frame lemmas (`KeepsStill`, `SleepQuiet`, `SemQuiet`, `MutexFrame`,
`Keeps`).  The semaphores of the services and devices are lines (`SemLine`); that a
wait, a signal, a reset and a kill keep a line in order, and what they do to units
and processes let in, is proved once for all of them (`SemLineProofs`).

### Only model-checked
- Liveness under fairness, and ENABLED, are out of the prover's reach: `SleepersWake`,
  `CallsReturn` and the other temporal properties that need fairness.
- `MeasurementsSound` (`FsBench`) adds up samples with a fold over a sequence, and
  `TerminalRefined` flattens a sequence of rows: what a recursive definition computes
  for every input needs induction over data, which the provers cannot do.
- Of `LocalFiles`, `BlocksOwned` and `NoUndefined` follow chains of blocks, which is
  such a definition too; the refinement of `Files` rests on the same chains.
- `RemoteDiskRefined` needs to know what every cached block, queued write and datagram
  under way holds; `RdsInv` knows only whose they are.

## 6. Plan

1. *Core* (done): `Queues`, `Sched`, `Kernel`, `Semaphores`, and the theorems about them.
2. *Local files* (done, checked): `FileBlocks`, `LocalFiles`, `Files`.
3. *Services, devices and network tables* (done, checked): the modules from
   `SemLine` on.
4. *Proofs* of the kernel, of descriptors, of the network's tables, of the
   services, of remote disk, serial line, Ethernet and the stack's buffers, and of the
   abstract specifications of ports, remote files and Ethernet (done, section 5).
   To come: `RemoteDiskRefined`.
5. Runs that need more than one component: the mutexes of `LocalFiles` as
   semaphores of `Kernel`, with a holder that is killed.
6. The delta list with 32-bit keys against absolute wake times.

### Not modelled
- `xinu-baseline`, but for its locking: every other file of it is a copy of one in
  `xinu-main` and would be the same definition twice.
- `config/`: a generated scanner and parser, and the tables they produce.
- the commands of `shell/` and `lexan`, `lib/`: parsing and formatting of text for
  one process, without shared state.  Together with the copies these are most of
  the lines of the repository.
- Assembly, PCI, SD card and device registers: no semantics in the source.
- DHCP, DNS, packet layout and checksums; the echo device (`uecho`), a line over UDP; `namespace` and RAM disk: sequential copies.
- Calls left out of modelled components: directories, modes and renaming of remote
  files, reading directory entries of local ones.  Of `rdsopen` and RDS_CTL_DEL the
  datagrams, and the sequence numbers they use up.
- Widths: counts and positions are unbounded but for the samples of `FsBench`;
  from 2^31 ms on a delay is negative (`sleep.c:41`), which `Kernel` does not see.
