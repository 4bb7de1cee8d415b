# A/UX 1.0: TLA+ models of AppleTalk over streams and of kernel services

The repository holds the sources of Apple's A/UX 1.0: the kernel (`src/sys`), the
AppleTalk protocols (`src/appletalk`) and printing software (`src/appleprint`).
These modules model its own concurrent core: the AppleTalk protocols that run as
kernel streams modules, the AppleTalk Transaction Protocol (ATP) and the printer
protocol (PAP) that stands on it; and two services of the kernel in which processes
sleep for each other, record locking and the cache of disk blocks.

## 1. Inventory

| Part | State | Operations | What is hard | What makes it correct |
| --- | --- | --- | --- | --- |
| **ATP, requesting side** (`appletalk/at/atp`) | pool of transaction control blocks (tcb), per socket a list of pending transactions and a list of those to send, a wait list of sockets, ids, a pending SET_FINISH; timers | ISSUE_REQUEST (blocking, no-wait, note), POLL, CANCEL, SET_FINISH; response arrives; retry timer; result-buffer timer; open, close | three actors (service procedure, network, clock) end one transaction; every allocation may fail in the middle | lists and timers agree with states; replies whole; ids unique; no lost wakeup; every request answered |
| **ATP, responding side** (same files) | pool of reply control blocks (rcb), lists of those waiting, in progress and with replies to send, a wait list; timers | GET_REQUEST (waiting, no-wait, note), GET_POLL, SEND_RESPONSE(_EOF), RELEASE_RESPONSE; request, repeated request and release arrive; two timers | repetition and reordering of requests; execute-once; one timer armed from several places | one rcb per request; unheard segments kept; timers run when needed; nothing overlooked |
| **Streams** (`sys/COMMON/os/stream.c`, `streamio.c`) | message queues, QENAB, QWANTR, QWANTW, QFULL, run list | putq, getq, putbq, canput, qenable, queuerun, qattach, qdetach | back-enabling, service while closing | a queue with work is scheduled |
| **Callouts** (`sys/PAGING/os/clock.c`) | callout list | timeout, untimeout, clock | untimeout removes one entry only | |
| **PAP** (`appletalk/at/pap`) | per end: what it knows of the other, the request it answers, the response it reads, sequence numbers, GET_REQUESTs with ATP, the connection timeout | SETHDR, READ, READ_IGNORE, WRITE, WRITE_FLUSH, WRITE_EOF; request, response, tickle and CLOSE_CONN arrive; timeouts; close in six sleeps | runs on ATP by callbacks; repeated requests and numbers that wrap; close races with data and tickles; the other end crashes; want of message blocks | two streams, in order, once and to their end; no command waits for ever; an end always hears requests |
| **Record locking** (`sys/COMMON/os/flock.c`) | per file a list of ranges in order, an identifier with a count; the list of sleepers | F_SETLK, F_SETLKW, unlock, signal, close | ranges are split, cut, joined while others sleep on them; records run out; circles of sleepers | locks on bytes that exclude each other; sleepers woken; no circle of sleepers |
| **Buffer cache** (`sys/COMMON/os/vfs_bio.c`) | buffers with their flags, hash chains, free lists | bread, breada, getblk, geteblk, bwrite, bawrite, bdwrite, brelse, blkflush, sync, last close; biodone at interrupt | a process sleeps between the look for a block and its entry; blocks that overlap; one list of free buffers for all; a delayed write fails when nobody waits for it | each sector in one buffer; nobody reads old data, but of what was given up; no lost wakeup; no deadlock |
| **DDP** (`appletalk/at/ddp`) | socket table, bridge | open, close, demultiplex, hangup, bridge timer | blocked queues, clone opens | one queue per socket |
| **LAP** (`appletalk/at/lap`) | node address, driver state | address acquisition, send, receive | probing races | addresses unique |
| **NBP** (`appletalk/at/nbp`) | names table | register, lookup, confirm, remove | retries, late replies | names unique |
| **Forwarder** (`appletalk/fwd`) | streams carried to an intelligent card | | flow control across the bus | |
| **Other kernel services** (`sys`) | name and vnode caches, System V IPC, processes, memory | | sleep and wakeup, undo at exit | |
| **Sockets, TCP/IP, RPC, NFS** (`sys`) | | | carried over from 4.2BSD and Sun | |
| **Drivers, typesetting, TranScript, compiler** | | | sequential or hardware-bound | not modelled |

Interaction: a process's ioctl becomes an M_IOCTL message on the write queue of the
ATP module; `atp_wputq` queues it and the streams scheduler later runs `atp_wsrvc`,
which sends what is to be sent, then serves commands. Datagrams come up from DDP to
`atp_rsrvc`. Timers call back into the module. Sockets share only the pools of tcbs
and rcbs and their wait lists. PAP is pushed on an ATP stream and gives it commands
as a process does; what ATP passes up goes through `pap_rputq`. Record locking and the
buffer cache are called by system calls of processes, which share their lists, and
sleep and wake each other; the buffer cache is also called by the disk's interrupt.

`PROJECT.json` lists every component with its status, and under `hazards` what is
hard to test in this code, each at its line.

## 2. Modules

| Module | What it models |
| --- | --- |
| `AtpStream` | what both sides share: a socket's write queue, the flags of the queue downstream, the walk of `atp_wsrvc`, `atp_wwake`, open and close as the stream head does them |
| `AtpRequester` | the requesting side |
| `AtpResponder` | the responding side |
| `MCAtpRequester`, `MCAtpResponder` | instances for TLC |
| `AtpStreamProofs` | lemmas about lists and callouts, for the proofs of both sides |
| `AtpRequesterProofs` | theorems about `AtpRequester`: types, scheduling, the pool |
| `AtpTransactionProofs` | theorems about `AtpRequester`: lists, timers, ids and replies of transactions |
| `AtpResponderProofs` | theorems about `AtpResponder`: types, scheduling, the pool |
| `AtpReplyProofs` | theorems about `AtpResponder`: the requests held, their replies and timers |
| `Pap` | the two ends of a PAP connection, with ATP and the network as `at_pap.c` sees them |
| `PapStreams` | what a connection promises: two streams that end; `Pap` implements it |
| `FileLock` | record locking, list by list and call by call |
| `ByteLocks` | what record locking promises: locks on bytes; `FileLock` implements it |
| `BufCache` | the buffer cache, with the interrupt |
| `MCPap`, `MCFileLock`, `MCBufCache` | instances for TLC |
| `FileLockProofs`, `BufCacheProofs`, `PapProofs` | theorems about `FileLock`, `BufCache` and `Pap`, among them that `Pap` implements `PapStreams` and, with one reader, `FileLock` implements `ByteLocks` |

### Granularity

The kernel is not preempted, and `clock` runs no callout while a service procedure
runs (`clock.c:116` tests `queueflag`). So a timeout, one message in `atp_rsrvc`, and
one command in `atp_wsrvc` are single actions. `atp_wsrvc` itself is a walk of many
steps (`srv` says where it is: `off`, `send`, `ioctl`), because what it asks of the
system (`canput`, `allocb`, `copymsg`, `dupb`) may be answered differently each time
and it returns at each refusal. While it walks nothing else of ATP runs. Closing a
stream is one step at interrupt level, except that `qdetach` may have service
procedures run in between (`life` is then `closing`).

In `Pap` the walk of `pap_wsrvc` is one action per command, for between two commands
it keeps nothing: the queue stays enabled (`wen`) until it is empty or the command at
its head is put back. `pap_close` has a phase for each place where it may sleep.
In `FileLock` a call is one action up to its sleep and one from the wakeup on. In
`BufCache` a process that runs in the kernel (`cpu`) keeps the processor until it
sleeps or returns, in several actions between which only the interrupt may come;
where `vfs_bio.c` runs at `spl6` an action is the whole section.

### Correspondence

* `tcb[t]` is `struct atp_trans`; `TransWait(s)` is `atp_trans_wait`; `transSnd[s]` is
  `atp_trans_snd`; `transWaiting` is `atp_state_trans_waiting`; `rcb[c]` is `struct
  atp_rcb`; `unattached`, `repWait`, `rcbWaiting` are the lists of the same names.
  `Active(s)` is the list `atp_rcb`.
* `reqTimer`, `doneTimer`, `rcbTimer`, `clearTimer` count entries on the callout list:
  arming adds one, `untimeout` removes one if there is one, as in the code.
* Message blocks are reduced to what the control depends on: for a tcb whether
  `tr_xmt` is still the ioctl, which segments `tr_rcv` holds (`rcv`) and which were
  tacked together (`kept`); for an rcb which segments `rc_xmt` holds (`xmt`) and which
  are flagged in `rc_snd` (`snd`).
* The process is an environment: in `AtpRequester` it issues each request of `Req`,
  polls and cancels no-wait ones, and may repeat all of it, one command of a request at
  a time, so that a cancel always finds its transaction (one that does not is refused
  like any malformed command, by `Refuse`); in `AtpResponder` it gets
  requests, sends the segments of a response in order, may send one again (`Repeat`)
  or give up.
* The network loses, repeats and reorders. In `AtpRequester` any segment of the
  response may come at any time once the request has been sent. In `AtpResponder` the
  requester is reduced to what it is missing and the bitmaps it may have sent; after
  its release, or 30 seconds of silence, nothing of a transaction is under way.
* `SendDangling` and the second case of `RcbTimeout` are the two places where the code
  follows a pointer to, or frees again, a block that is free; the model stops there
  (`panic`) and says nothing of what follows.

* `Pap`: `pap[e]` is `struct pap_state` of end `e`; of `pap_hdr` only whether it is
  set and knows the other socket (`hdr`), of the bitmap `pap_request` the number of
  segments left. `str[e]` is the pair of queues, `tmo[e]` and `ign[e]` the callouts of
  `pap_timeout` and `pap_read_ignore`. `dreq[e]` is the SEND_DATA transaction of `e` and
  `creq[e]` its CLOSE_CONN, from ATP's issue to its answer. A data item stands for a
  write of any length. `in`, `out` and `told` say what the processes saw and exist only
  for `PapStreams`.
* `FileLock`: `locks[f]` is the list at `fl_flck`, a record of it a `struct filock` with
  its sleepers in place of `wakeflg`; `refcnt` is `fl_refcnt`, `fids` the identifiers in
  use, `sleeplck[p]` the entry of `p` in `sleeplcks`. `Flckadj` takes a `Turn` for each lock
  of the list: a turn is one round of the loop. `Left` says how many records the rest of
  the system may have left, chosen anew at each call.
* `BufCache`: `buf[b]` is a `struct buf` with the flags of the same names; a buffer whose
  `blk` is `None` has no vnode or is B_INVAL. `proc[p]` is where a process is, with its
  local variables (`bp`, breada's first buffer, brealloc's `ep`) and what it sleeps for.
  A block is the set of sectors it covers; `cur` and `disk` follow which sectors, in a
  buffer and on the disk, hold what was written last: a sector of the disk is `new`, `old`
  while a buffer has what it should get, or `lost` when that was given up. It is given up in
  two ways. A write fails (`Biodone` chooses which of its sectors got to the disk, for
  synchronous, delayed and asynchronous writes alike): `brelse` lets the buffer go
  (`vfs_bio.c:232-236`), and the next reader gets what is on the disk; only a process that
  waits in `bwrite` is told. Or a block of a FIFO was read to its end (`Emptied`,
  `5_vnodeops.c:545-549`), whose buffer stays valid but is not written.

Operators named `Faulty...` are what a plausible bug would make of a definition; no
action uses them. Each property was seen to fail with one of them in place.

## 3. What the runs check

| Run | Instance | Shows |
| --- | --- | --- |
| `AtpRequester` | 1 socket, 2 tcbs, a blocking execute-once and a no-wait request of 2 segments, ids mod 3, all four allocations may fail | the send list, the timers, ids, replies, retries and SET_FINISH stay right under every interleaving of process, service procedure, network and clock |
| `AtpRequesterPool` | 2 sockets, 1 tcb, 3 requests (one retried for ever), congestion, close and open | no wakeup of a waiting socket is lost; a socket with work is always scheduled; close leaves no timer and no stale list |
| `AtpRequesterLive` | 1 socket, 1 tcb, 2 blocking requests, congestion, memory shortage | a blocking request with finitely many retries is answered |
| `AtpLostRelease` | 1 execute-once request, no space for its result at first | **violated**: its release is never queued (`atp_read.c:502`) |
| `AtpResponder` | 1 socket, 2 rcbs, an execute-once transaction of 2 segments, waiting and no-wait gets, segments sent again | one rcb per request, none overlooked, unheard segments kept, timers running when needed, the reply list exact |
| `AtpResponderPool` | 2 sockets, 1 rcb, an execute-once and an at-least-once transaction, polls, notes, SET_FINISH, congestion, memory shortage, close and open | no wakeup lost, no socket with work forgotten, SET_FINISH left pending only while something is in progress |
| `AtpStaleTimer` | 1 rcb, segments sent again | **violated**: the timer of an rcb outlives it (`atp_write.c:276`) |
| `AtpStaleReply` | 1 rcb | **violated**: a segment is flagged to be sent after it was freed, and the service procedure waits for memory for ever (`atp_misc.c:147`) |
| `Pap` | 2 ends, 2 segments, numbers 1 to 2, 1 GET_REQUEST; four uses (`MCPap`): a client that crashes, one that is interrupted, a server short of blocks, a client that ignores | no command stalls but a READ whose response ATP forgot (a finding, below), an end keeps hearing requests, fresh requests are taken and only repeated ones dropped, the timeout dies with the session; the connection implements `PapStreams`; with the other end gone no command waits for ever |
| `FileLock` | 3 processes of which 1 reads, 2 files for 1 identifier, 3 bytes, 0 to 2 records left | lists in order and joined, nobody asleep without cause, no circle of sleepers, the search for one ends, identifiers kept; the lists implement `ByteLocks` |
| `FileLockShared` | 2 processes that both read, 1 file | **violated**: a write lock is granted over another's read lock (`flock.c:357`) |
| `BufCache` | 2 processes, 3 buffers, the device as a whole, a block in it that may be a FIFO's, a block read ahead; reads and writes of all kinds may fail | each sector in one buffer, nobody reads old data of a sector that was not given up, no wakeup lost, no deadlock (nor any state without a step) |

Bounds. Two segments are the least that can be lost, repeated and reordered
independently; the code treats segment numbers alike except 7. Two tcbs or rcbs of
one socket exercise the lists, one shared by two sockets the wait lists. Ids mod 3
with two tcbs wrap within a few requests. `MaxQueue` bounds commands waiting on a
queue (one is enough: the walk serves them in order, and several are in progress at
once because a command stays with ATP after it was taken). `MaxTimer` bounds the
entries of one rcb's timer at the two that are needed to leave one behind, `MaxDrift`
how far `atp_nwait` falls below zero. `CHECK_DEADLOCK` is off where a system may come
to rest: the requests are bounded and processes need not ask for more.

`Pap`: sequence numbers of two values wrap at once and are reused by every second
request. One GET_REQUEST is the least credit (the code has two); what a second one
adds is a request taken while one is handled, which `IsNext` treats alike. Each use
combines the failures that meet in the code; all four start in the one run.

What `NoStall` of `Pap` excepts (`Swallowed`) is a defect of the code, reached with both ends
open. A READ asks, WRITE_FLUSH answers, the response is not heard whole within 30 seconds
and ATP forgets it (`RcbExpire`), the repeated request is handed over once more, and
`pap_rputq` drops it as out of sequence (`at_pap.c:466-473`) without the RELEASE_RESPONSE that
`pap_rsrvc` sends for such a request. ATP then takes it for a request that is being
answered, and both ends go on tickling, so that no timeout ends the wait. With
`dreq[e].st # "lost"` in place of the exception TLC finds that state in 14 steps, on the use
`Printing` alone, with both ends tickling. `NoStall` and `FreshTaken` say that there is no
other way: an open end drops a request only if it had been answered. The
other half of `Swallowed` is an end that is closing; once it is gone `CommandEnds` says
that the wait ends.

`FileLock`: three bytes give every one of `regflck`'s regions against another range,
and three processes a circle of three, two sleepers on a lock and a lock between the
two pieces of a split. Only one process reads: with two the defect that
`FileLockShared` shows breaks `ListOrdered` and `ByteLocking` as well.

`BufCache`: three buffers are one more than the processes, and in the instance nothing is
read ahead with what is read ahead; that is what freedom from deadlock needs
(`OneAhead`, `EnoughBuffers`), and `MCBufCache` assumes it so that TLC evaluates it. In
general `breada`, which keeps one buffer while it waits for another, takes two buffers for
each process: with one less the code can deadlock. On an instance of two processes, three
buffers and a file of three blocks read in sequence, TLC finds 32 steps to it: two
processes enter the second block, one has to wait for the other's buffer, and that one for
any buffer. (That instance is not kept; a real system has hundreds of buffers.) Blocks that
cover each other, and one that overlaps none, give every case of the overlap search.
Processes and buffers are symmetric.

Fairness (`FairSpec`). In `AtpRequester`: the run list is served and a service procedure goes on (weak
for `Walk`, strong for `Start` because other work interrupts its being enabled); callouts
fire; a message block asked for again and again is granted in the end (strong fairness
of the sends and of `IssueRequest`, and of the second attempt of `atp_x_done`); congestion
downstream ends (`<>[]~full`): with endless congestion the code would rightly never
send. A lost response is never assumed to arrive: the answer may be ETIMEDOUT.
In `Pap`: a command at the head of an enabled queue is served, or a callout or room
downstream enables it again (`WF` of `Serve` or `Again`; `SF` of `SetHdr`, which starts the
tickling, against endless want of space); and `pap_timeout` fires when nothing comes any
more to restart it. `CommandEnds` needs no fairness of the network: it says only what
happens when the other end is gone.
`Answered` is checked with failing `copymsg` and release allocations, not with failing
result buffers, which is the defect of `AtpLostRelease`.

## 4. What is proved

`AtpRequesterProofs`, for any sets of sockets, tcbs and requests and any bounds, from
the two named assumptions of `AtpRequester` about its constants:

* `TypeCorrect`: `Spec => []TypeOK`. Inductive as it stands; one step per action, with
  lemmas for what `atp_free`, `atp_send`, `atp_x_done`, `untimeout` and list removal
  return.
* `WakeupNotLost`: `Spec => []NoLostWakeup`. Inductive with `TypeOK`: a socket
  joins the wait list only when the pool is empty, and every path that puts a tcb back
  empties the list.
* `NeverStalls`: `Spec => []NoStall`. Not inductive alone. The strengthening `SchedInv`
  adds that a walk in its send phase has the list still to go through, or will be
  enabled (`SendsAgain`), that a queue whose QWANTR is off has been left only by ways
  that bring the service procedure back (`WantsCommands`), and that a closed socket
  has an empty queue (`ClosedEmpty`). TLC checked `SchedInv` on the instance of
  `AtpRequesterPool` before the proof.

`AtpTransactionProofs`, from the same assumptions:

* `SendListsExact` (`SendListExact`), `TimersAreExact` (`TimersExact`), `TidsUnique`
  (`UniqueTids`), `RepliesWhole` (`WholeReply`), `MissingAskedFor` (`AsksForMissing`) and
  `FinishIsPending` (`FinishPending`), from one inductive invariant `IInv`.
* Only `UniqueTids` and `FinishPending` are inductive with `TypeOK`. A reply is whole because each
  segment of the response is at every moment missing and asked for, received, or tacked
  together (`Gathered`); when `atp_x_done` tacks them the bitmap is empty and none can be
  missing. The timers follow from the state of the one tcb (`Timed`).
* The send list is the hard part. `atp_free` does not look at it: the timeout and the
  reply take care by themselves, since they find the tcb in a state in which it is not on the
  list, but a poll and a cancel do not look at the state. What saves them is that a walk has sent the
  whole list before it comes to the commands (`Walked`), and that what it adds
  to the list at the commands is of a request whose id the process cannot have used
  in a command behind it on the queue. So the invariant follows the ids: a pending transaction has one
  request, whose process waits or knows its id (`Owners`), a process that knows an
  id has a pending transaction (`Linked`), and a command on a queue is the only one of its
  request (`Commanded`).
* A step changes one tcb that stays pending (`Keeps`), ends one (`Ends`), takes one, closes
  or opens a socket, or touches none: `KeepsInv` and `EndsInv` show that the first two
  preserve `IInv`, and each action has a lemma that says which it is. TLC checked `IInv` on
  the instances of `AtpRequester` and `AtpRequesterPool`, and with two commands on a queue.

`AtpResponderProofs`, for any sets of sockets, rcbs and transactions and any bounds, from
the named assumption of `AtpResponder` about the transactions:

* `TypeCorrect` (`TypeOK`) and `WakeupNotLost` (`NoLostWakeup`), inductive as on the
  requesting side: `atp_rcb_free` is the only way back to the pool, and empties the wait list.
* `NeverStalls` (`NoStall`). Its `SchedInv` adds that a walk that is past its reply loop and
  has a reply to send will run again (`RepliesAgain`), and `WantsCommands` and
  `ClosedEmpty` as before. A reply comes to be sent from a request repeated, a
  SEND_RESPONSE, a request dropped or a timer, so the proof speaks of what no step may do
  (`ForgetsNone`: take `enab` away, take a socket off the wait list, or give a closed
  or unscheduled one something to send) and shows it of the shared parts of the actions once.

`AtpReplyProofs`, from the same assumption:

* `NoRequestTwice` (`NoTwins`), `NoRequestOverlooked` (`NoneOverlooked`), `UnheardIsHeld`
  (`HeldUntilHeard`), `TimersAreRunning` (`TimersRun`), `ReplyListsExact`
  (`ReplyListExact`) and `FinishIsPending` (`FinishPending`), from one inductive invariant
  `IInv`. Of each rcb it says what it holds in each state (`Own`), that what is needed of its
  response is kept or yet to come (`Kept`), and where it is listed (`Placed`: what
  `atp_rcb_free` and `atp_close` free is just what the lists lead to); of two rcbs
  that they hold different requests, and that none waits while another of its socket holds one
  (`Apart`); of a requester how its bitmaps relate to what it misses (`Peer`).
* `HeldUntilHeard` is not inductive: a segment missing now was kept only if no
  request under way, however old, tells the responder to drop it. `Needed` is what is
  missing or asked for by every request under way, and what an old bitmap may drop is not needed.
* `TimersRun` is not inductive either: a repeated request stops the timer of the rcb, and the
  timer starts again only if the reply loop comes to it, that is if the request asks for
  something that is kept. It does, because every request under way asks for at least one
  segment of the response that all the others ask for too (`Peer`); that segment is needed, so when
  the whole response was sent it is kept, and the rcb is put on the list of replies.
* An action that changes one rcb has to show `Good` and `Apart` of it and nothing of
  others (`SameGood`, `OthersSame`); `FreeInv` and `AgainInv` are the two shared parts, a lemma per
  action uses them. TLC checked `IInv` on the instances of `AtpResponder` and
  `AtpResponderPool` before the proof.

`FileLockProofs`, for any processes, files, bytes and records:

* `DeadlockChecked`: `Spec => []ChainsEnd`. Inductive with `OwnEntry`: a process enters
  the sleepers only when `Deadflck` has followed the chain from the owner of the lock to
  an end that is not itself, so no circle is closed; every other step takes sleepers
  away. The set of processes reached by the chain is what the lemmas speak of. That
  sleepers woken and not yet back still count is what makes the argument short.
* `LockTyped` (`TypeOK`), `LockSleepersWoken` (`NoLostWakeup`) and `FileIdKept` (`FidKept`),
  from one inductive invariant `SInv`, and `LockNoDeadlock` (`NoDeadlock`) from it and
  `ChainsEnd`. Everything rests on what `flckadj` leaves of a list, which is the result of
  a recursive function, for a list of any length: `Walks` says what a walk may be, each
  case of `Adjust` keeps it one (`AdjustWalks`), so by induction on the number of turns the list has only
  locks that cover something, each of them there before as it is or without sleepers (`Fresh`,
  `FlckadjList`). That is why nobody is left asleep on a lock that was cut. A case that `regflck`
  has no region for would leave the walk undefined: that the cases are complete is part of the proof.
  `Blocking` says of each sleeper also that the lock it sleeps on is of the process
  recorded in `blkpid`; so what `ChainsEnd` says of the records is so of the locks. `Counted`
  and `FidKept` count the sleepers of a file by the set of them, which `freefid` and the
  sleep change by one. That `None` is no sleeper's entry is assumed by name in `FileLock`. The
  induction is proved in the module from the well-foundedness of the natural numbers
  (`Least`, `Induct`), on sets instead of predicates; the recursive functions are shown to
  exist the same way (`WalkExists`, `OthersList`). TLC checked `SInv` on the instance
  of `FileLock`.
* `LocksOrdered` (`ListOrdered`), `LocksExclude` (`NoConflict`) and `BytesLocked`:
  `Spec => ByteLocking`, the refinement of `ByteLocks`, each with the hypothesis
  `SoleReader`: at most one process is in `Readers`, as in the instance of `FileLock`. It is a
  hypothesis of the theorems, not an assumption of the module: with two readers `blocked` stops
  its scan too early, and `FileLockShared` finds two locks in conflict. `LocksExclude` is the
  other half of that finding: it takes a second reader.
  The invariant is `OInv`: the locks of a file are `Sorted`, which with one reader means
  that no two of them overlap at all, only `Readers` have read locks, and sleepers wait to
  lock, not to unlock. In such a list the scan of `blocked` comes to the first conflict
  there is (`FoundFirst`), so `flckadj` runs only where the range is `Clear` of others
  (`NothingInWay`). What a call does is shown of its walk, turn by turn: `Sane` says that
  the list stays sorted and clear, that of the process's bytes only those are lost that the call
  gives back or takes (`Unharmed`), that what is behind is before the range (`Passed`), and
  where the new lock is to go (`Placed`). A turn that does not stop brings the walk nearer to
  the end of its list, also where it takes a lock out, so that `Len(q)` turns are enough
  (`WalkSane`). At the end `FlckadjBytes` gives the `Outcome`: the bytes of the range have
  the type asked for, or, when there are no records left, the process has lost the first of
  them; no other byte has changed, and that is a step of `ByteLocks` (`ByteStep`).
  TLC checked `OInv` on the instance of `FileLock`.

`BufCacheProofs`, for any processes, buffers, blocks and overlaps, from the assumption
of `BufCache` about its constants:

* `TypeCorrect`, `MapsOnce` (`MappedOnce`) and `NeverShared` (no two processes have one
  buffer, under any of the names `bp`, `first` and `ep`), from one inductive invariant
  `IInv`. `MappedOnce` can break only where `brealloc` ends its search: between a look at
  the chain and the entry of the length there is no sleep, but the new buffer was
  entered before, and `brealloc` may have slept since. So `Mine` says of each process, place
  by place, which buffers it has, that they are busy, not left to the driver, and still
  entered for its block; `HeldOnce` that they are nobody else's; `AtDriver` that the driver
  gives back only what is in use. One lemma per action; `MineKept` and `NoneMapped`
  carry what an action does not touch. TLC checked `IInv` on the instance of `BufCache`.
* `WakeupNotLost` (`NoLostWakeup`), `ReadsCurrent` (`Current`), `NoBufferLost` and
  `NothingForgotten`, from `IInv`, `Wakes` and `AllSound`, which TLC checked on the same
  instance. `Wakes`: what a process sleeps for is busy, and wanted or its own and with the
  driver (`Dozes`); and since biowait sleeps without a mark, what it will be called for has
  been read or was given to the driver (`Expects`). `Current` depends on the disk being right
  when a read ends, so `Sound` says of a buffer that is mapped and not valid that none of its
  sectors is owed to the disk (`old`), and of one that waits to be written that it is mapped
  and valid. That is so of a new buffer because a sector that is owed is in a buffer that
  waits to be written (`Owed`), which is mapped, so that brealloc's search would have found it.
  What a failed write or a FIFO gives up is owed no more, and stays `lost` until it is written
  again; that nothing else is ever lost is what `NothingForgotten` says. A step that
  writes on a buffer makes every other copy old: no other buffer has a sector of it, by
  `MappedOnce`. `Fills` says of each process which of its buffers have got their length and
  had no error, which `bdwrite` needs, for brelse forgets a buffer with an error. One lemma
  per action; `ChangeWell`, `GiveWell`, `GoWell` and `OutsideWell` say what each kind of
  step has to show.
* `NeverDeadlocked` (`NoDeadlock`), for constants that satisfy `AheadEnds` (no blocks are
  read ahead in a circle of blocks that follow or overlap one another) and `EnoughBuffers`
  (two buffers for each process, or one to spare if `OneAhead`). These are hypotheses of the
  theorem, not assumptions of the module: the code has no such limit, and section 3 says
  what happens without. The invariant is `Aware`: what a process sleeps for is still what it
  went to sleep for (`Awaits`), and breada's first buffer is that of its block (`Names`);
  TLC checked it on the instance of `BufCache`. In a set of processes that wait only for each
  other none is in biowait. If none waits for any buffer, whoever reads ahead waits, in
  one or two hops, for the first buffer of another that reads ahead (`WaitsOverlap`), and
  their blocks are a circle. If one does, all buffers are theirs, and `NotAllTaken` or
  `OneEach` counts that they are too few to have them all.

`PapProofs`, for any use of the connection, any number of segments, GET_REQUESTs and
sequence numbers, and streams of any length, from the assumption of `Pap` about its
constants:

* `TypeCorrect`, `NeverStalls` (`NoStall`), `AlwaysPrimed` (`Primed`), `NoFreshDropped`
  (`FreshTaken`) and `TimeoutDies` (`TimerDies`), and `CarriesStreams`: `Spec => Streams`,
  the refinement of `PapStreams`. All come from one inductive invariant `IInv`.
* `IInv` says of each end by itself (`Local`) that a session that closes has an empty
  queue and no timeout (`Quiet`), which commands may be on its queue (`Commands`,
  `HungUp`), that it has a GET_REQUEST or will run (`Supplied`), and what brings the
  command at the head of the queue back (`Attended`). Of each request it says that there
  is one as long as its end reads (`Asking`), how its number compares with the one the
  other end expects (`Numbered`), and which items its response carries (`Carried`).
* `FreshTaken` and `Streams` are not inductive: that a fresh request is expected
  depends on every older one being answered first, so `Numbered` relates the two counters by
  the state of the one request between them; that nothing is read twice depends on ATP
  dropping the request whose response it forgot, so `Carried` says for each state of the
  request that the items read, those in the response or in `pap_rcv`, and those written make
  one sequence. One lemma per action; `BothEnds` splits what a step has to show by end, as
  every step changes the request or the session or the queues of one end only.

Only model-checked: liveness, since liveness under fairness and ENABLED are out of the
prover's reach. The order of lock lists and the refinement of `ByteLocks` are proved for one
reader, as the run checks them; several readers of a file break them, as `FileLockShared`
shows.

## 5. Plan

1. Done: `AtpStream`, `AtpRequester` with proofs, `AtpResponder`; `FileLock` and `BufCache`
   with proofs; `Pap`; the abstract specifications `ByteLocks` and `PapStreams`.
2. Done: every safety property that a passing run checks is proved; the order of the lock
   lists and `ByteLocks` for one reader.
3. `Atp`: both sides joined by a network of messages, against an abstract
   specification of a transaction (executed once when execute-once, and answered or
   timed out); progress of the responding side, with the deadlock of a GET_REQUEST in
   front of SEND_RESPONSEs.
4. System V semaphores with undo, the name cache; DDP sockets and the bridge timer, NBP
   registration, LAP address acquisition.

## 6. Not modelled

The content and layout of packets, addresses (a request's remote socket is part of its
identity), the values of timeouts, SET_DEFAULT's numbers, buffer sizes, statistics and
tracing. Message priorities and stream-head details beyond what `AtpStream` says.
`Pap`: the opening of a connection, which the library does with requests of its own;
the wait for one of the `NPAPSESSIONS` places; a session whose write queue keeps a READ left by a
signal swallows data meant for the next READ, as in the code, and `Streams` says only
that what is read is in order. `FileLock`: F_GETLK, offsets relative to the position or
the end of the file, `locking(2)`. `BufCache`: the order of the free lists, B_LOCKED,
B_NOCACHE, buffers of tapes, `binvalfree`, strategies that sleep, blocks of different
lengths that begin at one place (`brealloc` growing or shrinking a buffer in use). Failed
reads and writes are modelled; that a transfer fails is the driver's choice, and what a
process does about the error it is told is not followed.
Drivers, memory management, the BSD and Sun network code, and the typesetting software
are left out for the reasons given in `PROJECT.json`.
