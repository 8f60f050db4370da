# A verification project for SeamlessRDP

SeamlessRDP shows the single windows of a Windows terminal server session on
the client's desktop.  This directory holds TLA+ models of the program in
`src/`, the TLC runs that check them on small instances, and proofs that hold
for every instance.

    tlc -config SharedBuffer.cfg MCSharedBuffer      a run
    tlapm VChannelProofs.tla                         the proofs of a module

## 1. Inventory

`ServerExe/` is the server side, `ClientDLL/` an old Windows client that speaks
an older protocol; the two do not work with each other.

| Part | State | Operations | Modelled in |
|---|---|---|---|
| Shared ring (`vchannel.c`, `buffer_t`) | `pw`, `pr`, 96 kB of bytes in a named mapping | copy a message in, read one out | `SharedBuffer`, `MessageFifo` |
| Channel protocol (`vchannel.c`) | recursive mutex, events `g_evwr`, `g_evrd`, serial semaphore; per process the handles and `g_seamless_shell` | `vchannel_write`, `vchannel_process`, `vchannel_block`, `vchannel_unblock` | `VChannel` |
| Channel input (`vchannel_read`) | `buffer`, `size`, `overflow_mode` | read a line | `ChannelInput` |
| Set-up and tear-down (`vchannel_open`, `_reopen`, `_close`) | handles | open, reopen, close | `VChannel`, `Lifecycle`, `ShellLoop` |
| Text filters (`unicode_to_utf8`, `vchannel_strfilter`) | none | conversions | the second in `Sync` |
| Shell main loop (`main.c`, `WinMain`) | `g_connected`, `g_desktop_hidden`, `g_session_disconnect_ts`, `g_persistent_mode`, `check_counter`, `g_mbox_cnt` | one turn of the loop, `should_terminate` | `ShellLoop` |
| Commands (`unescape`, `get_token`, `process_cmds`) | the line | dispatch to the `do_*` functions | `Commands`, `ChannelInput`; the functions in `HookBlock`, `ZOrder`, `Sync`, `ShellLoop` |
| Enumeration (`do_sync`, `enum_cb`) | none | SYNCBEGIN, windows parents first, SYNCEND | `Sync` |
| Hook procedures (`hookdll.c`) | none of their own | report windows as they change | `Sync`; what may be an echo in `HookBlock`, `ZOrder` |
| Safe* functions (`hookdll.c`) | `shared_variables`, under a mutex of its own | carry out a client's request, acknowledge it, block the echo | `HookBlock`, `ZOrder` |
| DLL life cycle (`DllMain`, `SetHooks`, helper process, `kill_15_9`) | `instance_count` | attach, detach, start, terminate | `Lifecycle` |
| Icons (`shared.c`, `update_icon`) | none | extract, send in chunks | not modelled |
| Client: clipper (`clipper.cpp`, `windowdata.cpp`) | table of windows, the clipping region | on each message of the server | `Clipper`, `WindowMap` |
| Client: hash table (`hash.cpp`) | chained buckets | insert, lookup, delete, enumerate, free | `HashTable`, `StringHash` |
| Client: tokenizer (`tokenizer.cpp`) | position | next token | `Tokenizer` |
| Client: vendored `stdstring.h` | | | not modelled |

How the parts interact.  The hook DLL is loaded into every process that has
windows.  Its hooks run in the threads of those processes and write messages
into the ring (`vchannel_write`); the shell's single thread reads the ring and
writes the messages to the RDP virtual channel (`vchannel_process`), reads the
client's commands from the channel and carries them out by calling Windows
functions that run the hooks of other processes *synchronously*.  `libvchannel`
is a static library: the shell and the copy of the DLL it has loaded are two
users of the ring with private state each, in one thread.

What is hard.

* **Concurrency without a scheduler in sight**: writers in any number of
  processes, one recursive mutex, two auto-reset events with several waiters,
  events taken before the mutex is.
* **Killed processes**: a killed writer abandons the mutex and may leave half a
  message; the writers guess from timeouts that the shell was killed.
* **Nesting**: `vchannel_write` within `vchannel_block`, the shell as a writer
  to the ring that only it empties.
* **Feedback**: the client's requests make the hooks fire; shared "block"
  variables tell an echo from news, in another process, under another lock.
* **Polling**: connection, desktop and processes are polled, edges are lost.

What makes each part correct: messages come out of the ring whole, in order
and once; nobody waits for ever; a process stops talking only when the shell is
gone; every request is acknowledged once; between two messages of a bracket no
other process speaks; after a reconnect the client learns all it has missed;
the shell ends when the session is over, and only then.

## 2. Plan

Done, in this order:

1. `MessageFifo`, `SharedBuffer`, `VChannel`: the transport everything else
   stands on, with its proofs.
2. `HookBlock`, `ZOrder`: the client's requests, the windows' own changes and
   the reports of both.
3. `ShellLoop`: the session, its connections, its end.
4. `Lifecycle`: start, second start, termination, killed processes, with its
   proofs.
5. `Sync`: enumeration against hooks, and the client's mirror.
6. `Commands`, `ChannelInput`: from the client's line to the dispatch.
7. `StringHash`, `HashTable`, `Tokenizer`, `Clipper`, `WindowMap`: the client,
   with the proofs that the table is a map.

To come: icons as messages in `Sync`, for the chunks that others come between.

## 3. What is modelled

### MessageFifo

The abstract promise of `vchannel_write` and `vchannel_process`: messages are
accepted whole, taken in order, each once, and delivered or - where the channel
may refuse them - discarded.  `SafeFifoSpec` is the safety part, `FifoSpec`
adds that what is accepted is taken in the end.

### SharedBuffer

The ring, byte by byte.  `data`, `pw`, `pr` are `g_buffer`; `mode` says what the
holder of the mutex is doing, which is all of the mutex that matters here.

| Action | Code |
|---|---|
| `WriteStart` | the fit test of `vchannel_write`, as its two rejecting branches stand (`Fits`) |
| `WriteByte` | a turn of one of its copy loops |
| `ReadStart`, `ReadNothing` | `vchannel_process` has the mutex; the ring holds something, or nothing |
| `ReadByte` | a turn of its read loops: a character, the end of the command, the end of the arguments |
| `Crash` | the writing process is killed between two bytes, once |

Messages are sequences of characters without NUL; arguments are not empty (the
code asserts it).  What the model leaves out: the contents of the message sent
(only that the loop may be left after any message), and that the local buffers
of the reader are finite - without a crash no string is longer than what
`vchannel_write` could put in.  The ring implements `SafeFifoSpec` also when a
writer is killed: the torn message is not accepted, and what comes out after it no
longer counts.  There is no liveness here.  Whether the shell ever gets to read
depends on the mutex and the events, and after a kill it need not: the writer that
inherits the mutex keeps it (line 351), and the shell waits at line 427 for ever.

### VChannel

The protocol around the ring.  The ring is a queue of whole messages with
weights; `SharedBuffer` justifies it.  A state of `pc` is a point between two
system calls of a thread, since only these can be interleaved observably:

| `pc` | where | steps |
|---|---|---|
| `idle` | outside the library | `Block`, `Unblock`, `Write`, `ProcessBegin` |
| `blockLock` | `vchannel_block`, waits for the mutex | `BlockLock` |
| `writeLock` | line 350 | `WriteLock`, `WriteLockTimeout` |
| `writeCheck` | line 358, has the mutex | `Copy`, `NoRoom` |
| `toWait`, `waitRead` | lines 371-372 | `WaitRead`, `WaitReadTimeout`, or woken by the reader |
| `giveUp` | line 376 | `GiveUp` |
| `signal`, `release` | lines 396, 397 | `Signal`, `WriteDone` |
| `procLock`, `procLoop` | lines 427, 437 | `ProcessLock`, `ProcessMessage`, `SerialFails`, `ProcessDone` |
| `dead` | killed | |

Details that are kept because properties depend on them:

* The mutex is recursive, has an owner and a depth, and is *abandoned* when its
  owner dies; the next waiter gets it together with `WAIT_ABANDONED`, which
  `vchannel_write` treats as a failure, `vchannel_process` and `vchannel_block`
  ignore.
* `evwr`, `evrd` are auto-reset: setting releases one waiter or leaves one flag.
* Each copy of the library opens its handles with its first `vchannel_write`;
  until then its `vchannel_block` waits for a null handle, that is, not at all
  (`held` remembers whether a bracket got the mutex).
* The shell's thread has two copies, `ShellExe` and `ShellDll`.
* The two writes to the virtual channel may fail independently; only the
  second result is used, and a failure leaves the loop.
* A message that does not fit the 1024 bytes of `buf` is skipped (`Oversize`).
* The serial is the count of a semaphore with a limit.  `ReleaseSemaphore` may
  fail: at the limit, the second time too, and then `vchannel_process` returns with
  the mutex (`SerialFails`, line 445); or with another error, and then the message
  goes out with whatever is in `prev_serial` (`Unset`).
* `kept` counts for each thread how often it has left the library with the mutex:
  by line 445, and as a writer that has inherited it (line 353).

What is abstracted: a kill hits between two system calls here (a kill within
the copy loops is `SharedBuffer`'s subject), the contents of messages, and the
100 ms timeout of `vchannel_process`, after which the shell calls it again.
The shell is assumed to come back to `vchannel_process`; that it may be stuck
in a synchronous call into an application is `HookBlock`'s subject, that it is
itself a writer to the ring `Sync`'s.

`Patient` says how the 10 second timeouts relate to everything else.  With
TRUE, a wait times out only if no thread has anything left to do that is not a
timeout: the steps between waits take micro- to milliseconds.  With FALSE any
wait may time out at any moment.

### HookBlock

Who changes a window, and who is told.  `shdata` is `g_shdata` without the
variables nobody reads; `thread` has for each window's thread and the shell a
place in the code and its local variables; `log` is all that was ever written
to the ring, of which the last `unread` messages are in it.

| Action | Code |
|---|---|
| `Receive` | `process_cmds` takes a request; `do_state`, `do_position`, `do_focus`, `do_destroy` |
| `MoveBlock` ... `MoveUnblock`, and `PosRead`, `PosReport` of the shell | `SafeMoveWindow` |
| `StateCheck`, `StateShow`, `StateUnblock` | `SafeSetState` |
| `FocusBlock`, `FocusSend`, `FocusDone` | `SafeFocus` |
| `CloseSend`, `CloseDone` | `do_destroy`, a synchronous WM_CLOSE |
| `PosRead`, `PosReport` | `update_position`: the copy of the block, then the bracket |
| `MinMaxRead`, `MinMaxWrite`, `MinMaxDo` | `cbt_hook_proc` on `HCBT_MINMAX`, with its "Unexpected show", then the change itself |
| `FocusAck` | `wndprocret_hook_proc` on the focus message |
| `AppMove`, `AppState`, `AppClose` | the application changes or closes its window |
| `CloseWrite`, `CloseDo` | a window is hidden, which the hook reports, and destroyed |
| `Ask`, `Answer` | a window that, on WM_CLOSE, brings up a dialog, and its user |
| `Process` | `vchannel_process` in the main loop |

* `SetWindowPos`, `ShowWindow` and `SendMessage` on a window of another thread
  wait until that thread attends to them, run the hooks there, and return when
  they are done (`serving`).
* A rectangle is its left edge; `Border` is the width of the invisible border
  that `GetWindowRect` counts and `DwmGetWindowAttribute` does not.
* A window may refuse to go where it is told (`Unruly`).
* The channel is `VChannel` boiled down to what matters to its callers: a write
  succeeds, or waits for the shell, or - when the shell cannot come - times out
  and mutes its process (`Put`).
* All windows are visible top-level windows until they close.  A request for one
  that is gone finds every call on it failing: `SafeMoveWindow` reports that to
  the client (`Debug`) and acknowledges all the same, `SafeSetState` takes the
  window for a normal one, `SafeFocus` and `do_destroy` do nothing.
* A request names one of the three states.  One with another number, which
  `SafeSetState` does not acknowledge (hookdll.c:773), is not made.
* Who answers the dialog is the user, for whom no fairness is assumed.

### ZOrder

The same feedback for the order of windows, which is one state that all windows
share.  `order` is the order of Windows with the layer that is always on top,
`mirror` what the client makes of ZCHANGE and ACK.

| Action | Code |
|---|---|
| `Receive` | `process_cmds` takes a ZCHANGE; `do_zchange` |
| `Block`, `SetPos`, `Unblock` | `SafeZChange` |
| `ReadBlock` | `update_zorder` copies the block variables |
| `Report` | its bracket: the next visible window in front (`InFront`), ACK or ZCHANGE |
| `AppMove` | an application changes the order; the hook runs in its thread |

The bracket is one step because the shell's ring and mutex were the subject of
`VChannel`, and a hook in a bracket keeps other reports, not other changes, out.

### ShellLoop

One step for every point of the main loop at which the session can look
different from before.

| Action | Code |
|---|---|
| `Open`, `Start` | before the loop: `vchannel_open`, `build_startup_procs`, the first poll and HELLO |
| `CheckTerminate`, `CheckCounter` | the counter and `should_terminate`, up to the list of processes |
| `Walk` | the rest of it: the list, made before, is looked through and freed |
| `Poll`, `Reopen`, `Hello` | `is_connected`, the time stamp, `vchannel_reopen`, HELLO |
| `Desktop` | HIDE, UNHIDE, when the counter has run out |
| `ProcessMessage`, `ProcessDone` | a round of `vchannel_process` and its end |
| `Abort` | its assertion that there is a channel (vchannel.c:417) |
| `Command`, `CommandsDone` | `process_cmds`: SPAWN, PERSISTENT, no more |
| `MessageBox` | `mbox_thread` counts itself, and the user closes the box |
| `Disconnect`, `Reconnect`, `SwitchDesktop`, `ProcessStarts`, `ProcessEnds`, `Tick` | the session |

A channel handle belongs to the connection it was opened on: what is written to
an earlier one's is lost, or fails.  A channel that could not be opened leaves
`g_vchannel` empty, and the next `vchannel_process` aborts the shell: also after a
`vchannel_reopen` that has come too late for the client that the poll had seen.
The question that `assert` asks of a program with windows is taken to be answered
with "Abort".  A shell whose `vchannel_open` has failed has no ring (`g_buffer`)
and mutes itself with its HELLO; a client may come before the first turn gets to
the assertion, and then the shell lives on without a word.  The ring is `VChannel`
reduced to the shell's own messages.  `missed` remembers that a client has replaced another one
between two polls, which the shell cannot see.  `unseen` is the time since a
poll found the session active, kept by the model; `disconnect_age` is what the
code makes of it.  A process has one of three names: one that the code ignores
(`system`), or one that counts, from before the shell or later.

### Lifecycle

Two of each: shells, 32-bit helpers and applications, each with a program
counter; `count` is `instance_count`, `mapped` who has it mapped, `held` whose
handles keep the memory alive, `chan` whose handles keep the channel's objects
alive.

| Action | Code |
|---|---|
| `Load`, `Attach` | `LoadLibrary`, `DLL_PROCESS_ATTACH` with its failures |
| `DetachWrite`, `Uncount` | `DLL_PROCESS_DETACH` |
| `Check` | `GetInstanceCount` and what `WinMain` makes of it |
| `Create`, `Reset` | `vchannel_open`: the objects, then `pw` and `pr`; or a failure and `vchannel_close` |
| `launch_helper`, `SetHooks`, `RemoveHooks` | as named |
| `Ask`, `Wait`, `Terminate`, `GiveUp` | `kill_15_9`: WM_CLOSE, the helper has ended, it is terminated, or the wait or the termination fails |
| `Abort` | the assertion in `vchannel_process` when `vchannel_open` has failed |
| `Close`, `Exit` | the helper's window is closed; a process ends |
| `Inject`, `Report`, `Leave`, `Left`, `Quit` | an application gets the DLL with a message, writes, loses it, ends |
| `Kill` | a process is terminated from outside |

`Exit` comes after `FreeLibrary` in the shell and the helper; the DLL's handle
of the memory is not closed by `DllMain`, so that only the end of the process
closes it.  `Terminate` may hit the helper anywhere, also before it has its
window.  A process that failed to attach may have the handle of the memory or not.
A second shell that the check turns away goes through `DetachWrite` as well.

### Sync

The list of windows while it is being made.  `window` is what the windows are,
`mirror` what the client knows when all messages so far have been delivered,
`todo` the steps that a window's thread has still to make for a change it has
begun: the change and the hooks' messages, each a step of its own.  `stack` are
the nested calls of `EnumWindows` with their callbacks; `enum_cb` is split at
every read of a window and every write.

| Action | Code |
|---|---|
| `do_sync`, `Return` | SYNCBEGIN, the first enumeration; the end of one, SYNCEND |
| `NextWindow` ... `Recurse` | `enum_cb` |
| `Process` | `vchannel_process` in the main loop (as in `Recurse`) |
| `Change` | an application shows, hides, closes, moves, renames, minimises a window |
| `Step` | the next thing its thread does for that: `wndproc_hook_proc`, `wndprocret_hook_proc`, `cbt_hook_proc` |

Titles are sequences of symbols, one of them the comma that separates fields,
so that `vchannel_strfilter` has something to do.  The parent of a window is
what its first CREATE says, and the hooks (`get_parent`) and `enum_cb`
(`Parent`) compute it in different ways.  Ownership makes no circle
(`OwnersAssumption`): Windows takes the owner when a window is made, and
`enum_cb`, which follows owners without a mark, would not end otherwise.
`Entries`, the things that can stand in the table of windows, may be any set that
holds what the messages of the instance can put there.  `own` counts the shell's
messages in the ring since it was last emptied: those of the window at hand, two
for each SYNC, and two for each window that was gone when `enum_cb` came to it,
which returns before the loop that empties the ring.  After a failed write to the
virtual channel `vchannel_process` leaves the others in the ring, and from then on
nothing is counted (`Uncounted`), nor is the mirror that of a client that may still
be there; the next client begins with a SYNC of its own.

`consoles` are the windows of class `ConsoleWindowClass`, any of them.  Neither
`enum_cb` nor `wndproc_hook_proc` tells the client of one, and since `enum_cb` does
not get to the children of what it skips, a popup owned by a console is not listed
either.

`enum_cb` reads the visibility, the class and the owner of a window one after the
other (lines 175-196); this is one step.  A window that vanishes between these
reads may, in the code, still be listed, without its owner or although it is a
console, until line 207 finds that it is gone.

### Commands, ChannelInput

`Commands` has the text functions: `unescape`, `get_token` (`Extend` and `Tokens`,
which take the line symbol by symbol), how many tokens each command needs (`Needed`)
and what happens with fewer or more (`Falls`, `Spoils`).  `Symbols` are those a line
consists of.  In `ChannelInput` a client `Say`s commands, `vchannel_read`
gets what is on the wire in pieces of any size, and gives whole lines to
`process_cmds`; `Cut` ends a connection anywhere and begins another.  What that
leaves in the buffer is kept in the histories `left`, `lost` and `torn`.  `Feed` and
`Scan` are no part of the code: they say what a reader knows after any number of
symbols, and with that what lines are due (`Due`) and which are still to come
(`ToCome`).  The buffer
is modelled symbol by symbol, with what `memmove` leaves behind the end, because
`strchr` sees it.  A word without special characters is one symbol.

### StringHash, HashTable, Tokenizer, Clipper, WindowMap

`HashTable` has one operator for each function of `hash.cpp`, from a table to
its result; `StringHash` is `hash()` itself, 16 bits wide.  `Tokenizer` is
`CTokenizer`.  Two things of the table are left out: the `malloc` of
`hash_construct_table`, whose failure leaves a table of size 0 that every later
call divides by (hash.cpp:67), and that `hash_free_table` deletes the very buckets
it is passing - the model goes through a snapshot of them, so that the order of the
two statements at 336-338 is not tested.  `qsort` is what the C library promises of it with this code's `key_comp`.
`Clipper` is the DLL: a message is parsed as the code does it
(`Parsed`), and `HandleCreated`, `HandleDestroyed`, `HandleMoved` and
`HandleOther` are the branches of `VirtualChannelOpenEvent`.  The table's data are
addresses of `CWindowData` objects in `heap`, `bars` the taskbar windows,
`region` a set of pixels.  `WindowMap` is what the DLL is for: a map from ids to
rectangles, of which one changes at a time, and what they cover.  The server,
whose windows come, move and go, is modelled by the messages this code expects;
a message may be lost, as those in more than one piece are.  `TitlesAssumption`
says of `Titles` that none of them changes what is parsed of a message: a title may
hold delimiters, but `;ID=7` in it would be taken for the id.

Operators whose name ends in `_` are variants of the operator after them with a
plausible slip (a forgotten release, a missing SetEvent, ...).  No
specification uses them; each is there to show that a property tells the right
code from the wrong one.

## 4. The runs

| Run | Instance | Shows |
|---|---|---|
| `SharedBuffer` | messages of 4 and 5 bytes, ring of 13, 5 writes, 6 reads, a kill at any byte | the fit test is exact, nothing unread is overwritten, the ring implements `SafeFifoSpec`; after a kill, for what was accepted before |
| `Writers` | 3 applications with 2 calls each, room for 2 units, one application's messages take 2 | no lost wakeup, nobody muted, `FifoSpec` |
| `Faults` | an application and both copies of the shell, 3 calls each; impatient timeouts, any thread may be killed, one failure of the channel or of the semaphore, messages too long, serial limit 2 | the ring is locked, the mutex given back but for two returns, brackets that got it are quiet, serials consecutive, the queue safe; every `vchannel_write` returns |
| `Requests` | 2 windows, one moves, changes its state or closes by itself, the other is unruly and may ask its user before it closes; 2 requests; a ring for 3 messages | the client ends with true positions, one ACK for each request, no echo, and the shell comes back from every request unless a window asks its user |
| `ZOrder` | 5 windows, one always on top, one hidden; 2 requests, 2 changes | the client's order is the windows' unless reports cross; a request that moves its window is acknowledged once |
| `Session` | 2 connections, 2 process ids, a check every second turn, `SESSION_TIMEOUT` of 2 ticks, 1 failing query | clients are greeted and know the desktop; the session ends when it should and not before, unless the assertion ends it |
| `Lifecycle` | 2 shells, 2 helpers, an application of each kind; 1 call fails, 1 process is terminated | the count is right, one shell at a time, who can write during a reset, no hooks left behind |
| `Sync` | a window and its popup, each a console or not, 2 places, 2 titles, 2 states; 2 changes, 2 SYNCs; the channel may fail | as long as it has not: the mirror is right after a SYNC, the shell does not fill its own ring; parents come first, a SYNC ends |
| `Input` | a buffer of 8, four commands, 2 on each of 2 connections | lines and fields come out as meant, what makes the shell fall is known, lines are read at last |
| `Client` | 2 ids in one chain, 2 places off the desktop, 4 messages, 1 failing call | what is shown is what is there, crashes only after a loss, the table is a map |
| `WriterKilled` | an application is killed | *violation*: the others mute themselves |
| `EchoOfMove` | one move, a border | *violation*: the echo is reported |

### Why the bounds are enough

*Transport.*  Messages of 4 and 5 bytes in a ring of 13: two of them leave room
that is too small for a third or just too small for the larger one, three fill
it to the last byte that may be used, and one byte more would make the full
ring look empty.  In five messages the wrap falls on every byte of a message, on
terminators and between messages.  With room for two units and messages of
weight 1 and 2, a waiter may be woken and find that there is not enough room,
and two waiters may compete for one event.  A third application makes the
difference between the waiter that is woken and the one that is not.  Three
calls of each copy in `Faults` give a bracket with a write after one that took
nothing.  `MaxCalls`, `MaxFails`, `MaxWrites`, `MaxReads` only bound how often
something is started; nothing in progress is cut off.

*Requests.*  One request is in progress at a time; the second one meets the
block variables, and the copies of them in hooks, that the first has left.  One
change of a window by itself falls on every step of both.  Two positions are "as
told" and "elsewhere".  A window that closes by itself does so before, between
and within both requests; one closed by the first request is gone for the
second.  One request can write up to four messages, so a ring for
three fills within a request and between two.

*Order.*  Three ordinary windows are needed for a report that names a window
which has moved meanwhile, the window on top for the other layer, the hidden one
for `InFront` to step over.  Two requests and two changes overlap in every way.

*Session.*  A connection is lost and another comes, at any two steps; a second
reconnection meets the same variables as the first.  `CHECK` only delays, 1
makes turns with and without a check; 2 ticks are "too early" and "due".

*Lifecycle.*  A third shell would see what the second does: one that was there
before.  One failure and one kill, of every call and at every point, combine
with each other.

*Sync.*  The popup's owner may come, go or change in the middle of its own
listing, between its listing and that of its children, or in it.  Two changes
are a window that is hidden and shown again, or two windows that change; the
second SYNC meets what the first has left.  With one popup `EnumWindows` nests
two deep in a real listing and three with the empty one below.

*Input.*  A command that just fits with its newline, one too long, one that is
short, escaped characters of both kinds, and pieces of every length; a buffer of
8 is longer than two short lines and shorter than a long one.  `MaxTokens` is 3
instead of 8, so that one escaped comma is enough to exceed it.

*Client.*  The two ids have the same value of the code's own hash function, so
deletion and insertion meet at head and tail of one chain; the places are partly
and wholly off the desktop, the second one with an empty rectangle.

`CHECK_DEADLOCK` is off since programs end, and since bounded inputs are used
up; that nobody is stuck on the way is what `WritesReturn`, `CommandsReturn`,
`EndsAtLast`, `HooksAreRemoved`, `SyncEnds`, `LinesAreRead` and the fair part of
the `ImplementsFifo` of `Writers`, a run without failures, say.

### What the properties exempt

These are properties of the code rather than of the instances:

* `Requests` has no border, because `EchoIsBlocked` fails with one
  (`EchoOfMove`).  `MayReturn` is FALSE: a window that leaves the requested
  position after the ACK, which is reported, and comes back before the block is
  lifted is not reported a second time, since `update_position` cannot tell who
  has moved it.  `AckedOnce` exempts a state request for a window that changes
  its state by itself: it may enter the requested state between `StateCheck` and
  `StateShow`, and the hook announces a state before the window has it, so that
  a request for the old state may be acknowledged, and the window changed,
  afterwards.  It also lets a request go unanswered whose window has closed
  before the hook in its process could answer, and asks no ACK of DESTROY, which
  the code never acknowledges.  `CommandsReturn` lets the shell wait for as long
  as a window asks its user.
* `MutexIsBalanced` counts what the two returns that forget the mutex have left
  a thread with, `kept`, as owed: it shows that there are no others.
  `BracketIsQuiet` is about the brackets that got the mutex.  The first bracket of
  each copy comes before its first `vchannel_write`, has no handle to wait for
  (line 508), and keeps nobody out.  `SerialsAreConsecutive` leaves out the
  messages for which the semaphore failed.  `ImplementsSafeFifo` lets any message
  that was taken be thrown away if something may fail at all; a text whose first
  channel write fails is such a one, and that the second one's newline is then
  joined to the next message is not looked at.
* `OrderMirrored` says nothing once a report has named a window whose own report
  was still to come: the client then puts the first one next to where it still
  has the second.  `AckedIfMoved` knows three kinds of request that are not
  acknowledged at all: those that change nothing, those for the front that
  stay below what is on top, those that something else disturbs.
* `ReturningClientIsGreeted` exempts a client that replaced another one between
  two polls (`missed`).  `NoEarlyEnd` needs `PidReuse` = FALSE: the list of
  startup processes is one of ids.  A failing query ends a session that is not
  persistent, and keeps one that is (`is_connected` answers TRUE).  `NoEarlyEnd`
  also lets the assertion end the shell, applications or not, and exempts the
  applications started after the list of processes was made (`fresh`).  For a shell
  without a ring `ReturningClientIsGreeted` and `ClientKnowsHidden` say nothing.
* `CountIsExact` allows a count that is too high after a process was terminated;
  no shell can then start until the last process with the DLL has ended.
  `WritersAtReset` says who can write while the ring is reset, not that nobody
  can: processes whose own set-up has failed, which are not counted; what a shell
  that ended irregularly, or could not end its helper, has left running; and a
  second shell, whose DESTROYGRP of its `DLL_PROCESS_DETACH` falls between the
  first one's check and its reset.  `HooksAreRemoved` asks nothing of a shell whose
  wait for the helper, or `TerminateProcess`, has failed.
* `MirrorIsRight` and `OwnMessagesFit` hold until a write to the channel fails.
  `MirrorIsRight` exempts windows that changed while `enum_cb` was at them, consoles,
  and popups one of whose owners was not visible at all times or is a console.  It demands a parent
  only where hooks and `enum_cb` agree on it (`SameParent`).
* `CommandsArrive` exempts fields with an escaped comma, and counts what a
  broken connection has left in the buffer as the beginning of the next one's
  first line.  `CrashHasACause` allows the shell to fall over a client's command if
  escaped commas make too many tokens of it, and over another line after a
  connection that broke off within one.
* `ScreenMatches` holds as long as no message was lost; nothing in the client
  repairs a loss.

### Fairness

Weak throughout.  A thread that can continuously make a step in the library
makes one, and the shell, whose main loop calls `vchannel_process` in every turn
(main.c:803), takes a set event.  No fairness of the mutex is assumed; it is not
needed because calls are finite in number.  In `HookBlock` a window's thread
attends to the shell's calls whenever it has nothing else to do.  In `ShellLoop`
the loop goes round, time passes and a created thread runs; in `Lifecycle`
processes go on with what they are doing, and an unhooked application gets a
message, which is when Windows takes the DLL out; in `Sync` the shell goes on,
and so does a window's thread within a change.  In `ChannelInput` the loop goes
on reading.  No fairness is assumed for starting calls, dying, failing, ending
the loop, changing windows, coming back or sending.  Timeouts are part of the
writers' steps: a wait that can only end by a timeout does.

### The violations

They contradict what the source says of itself; `PROJECT.json` quotes the lines.

* `WriterKilled`: `WAIT_ABANDONED` is not `WAIT_OBJECT_0`.  The writer that
  inherits the mutex concludes that the shell was killed, mutes itself for good
  and keeps the mutex; the others time out and do the same.
* `EchoOfMove`: the block holds the rectangle with the border, the hook compares
  the one without.

Other weaknesses that the models show, without a run of their own:

* After a torn message the reader passes `pw`, since it looks for a NUL and
  never compares `pr` with `pw` in its inner loops, and reads old bytes as new
  messages (`SharedBuffer` with `MayCrash`, reading past `torn`).  The shell
  itself terminates a process that has the DLL loaded (`kill_15_9`).
* Within `vchannel_block` the release at line 371 undoes one of two
  acquisitions, so that the shell cannot make room; the writer times out with
  the shell alive (`VChannel`, `MuteOnlyIfShellKilled` with `BlockUsers`).
* The shell's own `vchannel_write` on a full ring waits for an event that only
  the shell sets (`MuteOnlyIfShellKilled` with the shell among `Writers`).
* A failed write to the virtual channel leaves the loop with messages in the
  ring and the event consumed; `QueueIsAnnounced` therefore asks for `fails` = 0.
  If that happens in a SYNC, whose client has gone, each window adds four messages
  to the ring and takes one out, and the shell can come to wait for itself.
* The second failure of `ReleaseSemaphore` leaves `vchannel_process` with the mutex
  (vchannel.c:445): nobody else writes from then on.
* A client that leaves between the poll and `vchannel_reopen` ends the shell by the
  assertion at vchannel.c:417, with the applications running (`NoEarlyEnd` without
  its third disjunct).
* A second shell writes to the ring while the first one may be resetting it
  (`WritersAtReset` without its last disjunct).
* A hook that waits for room while the shell waits for it in `SendMessage` times
  out after 10 seconds and takes the shell for dead (`PutTimeout`).
* A window that asks its user on WM_CLOSE stops the shell: it waits in
  `SendMessage` (main.c:325), so that the CREATE of the dialog stays in the ring
  and the client never shows what has to be answered (`CommandsReturn` without
  its second disjunct).
* The parent of an owned window without `WS_POPUP`, and of a tool window without
  an owner, differs between a window's own CREATE and the one of a SYNC
  (`MirrorIsRight` without `SameParent`).  The SYNC also leaves out the flag of
  windows that are always on top, and sends the position with the border that
  the hooks leave out; these two are not in the model.
* `launch_app` closes a thread handle that nothing has set when `CreateProcess`
  fails (main.c:254, 277).  In a process started normally that call fails; the
  models leave it out.

## 5. The proofs

`SharedBufferProofs` proves for every alphabet, message set and ring size that
can hold the largest message, with a writer killed between any two bytes or not:
`TypeCorrect`, `FitsIsAlwaysExact` (arithmetic on the two branches),
`UnreadStaysIntact` and `MessagesComeOutInOrder` (which speak of a ring without a
torn message), and `RingImplementsFifo`: what was accepted before the torn message
comes out, if it does, whole, in order and before all else.

The inductive invariant `IInv` is `TypeOK`, the facts true within the loops
(`InsideLoops`), the room a message being copied always has (`RoomForRest`), and, as
long as nothing is torn, `Whole`: the history of bytes `stream` is the concatenation
of the messages started, cut at the positions `at`; the unread part of it lies between
`pr` and `pw`; the reader stands at a position of a message that its buffers spell
out.  `DeliveredInOrder` alone says nothing of bytes still in the ring, hence the
history; `UnreadIntact` alone does not say that a write in progress cannot overtake
the reader, hence `RoomForRest`.  Once a writer was killed, `Kept` takes the place of
`Whole`: the frames before the torn message are complete in `stream`, and until the
reader comes to the torn one, what it has not read of them is still in the ring,
unchanged by those who write behind it.  After that the reader may take anything for a
message, even run past `pw`; nothing is claimed of it, and the abstract queue stutters.
`IInv` was checked on the instance of `SharedBuffer`, which has a crash, before it was
proved.

`VChannelProofs` proves for every set of applications, all weights and bounds
and every choice of who may be killed: `TypeCorrect`; `MutualExclusion`, that
the ring is touched by the owner of the mutex only; `MutexIsGivenBack`, that
a thread holds the mutex exactly as often as its bracket, its call in progress and the
two returns that forget it demand; `NoAnnouncementIsLost`; `SerialsGoUp`, that the
serials of the messages counted are consecutive; `BracketsAreQuiet`, that no other
copy's message gets into the ring within a bracket that got the mutex; and `ChannelImplementsFifo`, the safety part of
the refinement of `MessageFifo`.  The type invariant is
strengthened by "the mutex has an owner exactly if its depth is not 0";
`MutexIsBalanced` by where a thread can have a bracket (`BracketPlaces`); each step
then takes or gives back the mutex for a thread that owes one more, or one less
(`BalanceMove`).  The balance holds also after somebody was killed, so that a thread in
a bracket that got the mutex still has it: that gives `BracketIsQuiet`, together with
`SameCopy`, that what is called within a bracket is called through the copy that opened
it.  `SerialsGoUp` goes by the number that the semaphore gives next (`NextSerial`).  For the refinement,
what was accepted is what was taken (`Taken`, from the history `log`) and what is in the
ring, and what was delivered is a history of its own, `sent`; `Copy` is `Accept`,
`ProcessMessage` is `Deliver` or, if the text was not sent, `Discard`, and every other
step changes nothing that the abstract specification sees.

`LifecycleProofs` proves for every number of shells, helpers and applications,
of failures and of terminated processes: `TypeCorrect`, `CountStaysExact`,
`NeverTwoShells`, and `WritersAtResetAreKnown`, an action property.  Its lemma `StepKinds`
sorts the steps by what they do to the count - a process takes the DLL in, takes
it out, ends, or goes on within it, a shell passes the check or starts its
helper - and the parts of the inductive invariant are proved kind by kind.  That
the count is exact needs to know that no process comes in twice (`Counted`), and
so that a helper is started once (`Started`).  `AtMostOneShell` needs that a shell
which has passed stays counted until its last steps (`Passed`): the next one then
sees a count of 2.  `WritersAtReset` needs both directions of the count, that a process
with the DLL which is not counted has failed to attach (`Uncounted`), and whose the
hooks and helpers are that can bring the DLL in between check and reset
(`HooksOK`, `Started`): those of a shell that is past the check, hence of this one,
which has none yet, or of one that has ended.  A shell that comes to write its
DESTROYGRP meanwhile has just been turned away: past the check there is only one.

`VChannelProofs` also proves that a writer takes the shell for
dead only if it is (`NoOneGoesMute`), for the `Favourable` choices: only the shell
may be killed, it does not write, nobody uses `vchannel_block`, the virtual channel
does not fail, and no wait ends while some thread can go on.  Each is needed: without
it a writer can go mute while the shell lives, see the weaknesses above.  The
inductive invariant says where each thread can be (`Places`), that nobody waits
with the event set (`NobodyOverslept`), that a writer at an empty ring finds it set
or has somebody to wake it (`Roused`), and that nobody has given up (`InTime`).

`ShellProofs`, of `ShellLoop`, for any number of connections, commands and processes:
`TypeCorrect`; `ClientIsTold`, that a client knows whether the desktop is hidden
when the ring is empty and the shell between two turns (`Informed` adds what is in
the ring);
`EndIsExcused`, that the shell leaves only for one of the reasons in the code
(`Excused`), the assertion at vchannel.c:417 among them; and `NoApplicationIsLeft`,
that a shell which ends because nothing runs leaves no application but those that
were started after its list of processes was made.  What the list has to do with the
processes while it is looked through is the invariant: one that is in the session and
not in it is fresh.  The last theorem has the hypothesis that no process id is used
twice: otherwise main.c:534 takes a new process for an old one.

The same module proves of `ChannelInput`, for any symbols and commands, any size of
the buffer, any pieces and any number of broken connections: `InputTypeCorrect`;
`CommandsDoArrive`, that every line which fits is returned once, whole and in order,
nothing of one which does not fit is, and the fields come out as the client meant
them; and `NoCrashWithoutCause`.  The inductive invariant `InputIInv` adds to the
properties `Room` - in the buffer there is always room to read, no NUL among what is
kept, no whole line either, and nothing at all in overflow mode -, `Carried`, that
for each line returned its tokens are what was handled, and `Untorn`: as long as no
connection has broken off within a line, every line heard is one that a client has
said.  Of `LinesAreTheCommands` it has `NothingLost`: what a reader of the lines
returned, of the buffer and of the wire would know at last is what one of the left
rest and of all that was said would.  The lines alone would not do: a rest of a line
in the buffer, or overflow mode, decides what the next symbols make of it.  That it
stays so over a read is a lemma for each way the read can go (`FilledKeeps`,
`NoLineKeeps`, `RestKeeps`), and these rest on lemmas of `Scan`: it goes on over a
concatenation where it was (`ScanConcat`), and what it has done comes in front
(`ScanExtends`).  That the fields arrive needs that `unescape` undoes `Escape`
(`ReadsEscape`) and that `Tokens` of fields with commas between them are these
fields (`CommandRead`).  `unescape`, `Tokens`, `Scan` and the library's `FlattenSeq`
are recursive functions.  That there is such a function, and what it gives for one
symbol more, is proved by induction over a set of numbers, which needs no operator
as a parameter; the hypotheses are `SymbolsAssumption` and `InputAssumption`: a
command's name has no comma in it, and it comes with as many fields as it needs.

`HookBlockProofs`, for any windows, rectangles, requests and changes:
`TypeCorrect`; `NoAckIsLost`, that a request is acknowledged exactly once as long
as no process is mute (`AckInv` says who still owes which acknowledgement); `NoEcho`, that what the
client asked for does not come back as news of the server, which needs that
windows have no border (`Border` = 0: with one, the run `EchoOfMove` refutes it); and
`ClientKnowsPositions`, that when things have settled the client has every window
that is not minimised where it is, whoever has moved it last.  That one also excludes
windows that move by themselves to where they were just told to be (`MayReturn`):
the block then swallows what is news.  Its invariant is `BlockIsOfMove`, that a
block which is set is that of the move in progress, and `Mirrored(w)`, which tells
for each place of the shell and the window's thread whether what the client has is
right or a report is still to come.

`ZOrderProofs`, for any windows, layers and requests: `TypeCorrect`;
`ClientKnowsTheOrder`, that the client has the windows which have nothing left to
report in the order they stand in; and `NoAckIsLost`, an action property, that a
request which moves its window alone is acknowledged once.  The order is a
sequence in which every window has one place (`Lists`).  What is proved of the
operators first is how moving a window changes the places of two others - not at
all (`PutElsewhere`, `BehindIs`) - and that `InFront` finds the nearest visible one
(`FrontIs`).  `SameOrder` is `OrderMirrored` by places: a report that names a window
which has been told correctly puts the reporting one right with respect to all
others, those in front of that neighbour and those behind the window itself.  The
second needs that a window asked to the front is there only below nothing visible
that is always on top (`Reachable`), and `AnswersInv`, which says for each point of
the request who still owes the acknowledgement.

`SyncProofs`, for any windows, owners, places and titles: `TypeCorrect`;
`ParentsBeforeChildren`, that a SYNC lists the owner of a popup before it and no
window twice; `OwnMessagesAreFew`, the bound on the shell's messages in the ring
as long as no write to the channel fails; and `MirrorComesRight`, that after a SYNC
the client, if it is still there, knows every window as it is, but for the exceptions
that `MirrorIsRight` names, consoles and their popups among them.  `EnumOK` and `FramesOK` say
what the nested enumerations have done and have still to do, `Untouched` that a
window without a change is as it was when the SYNC began, and `MirrorsOK` what
the client knows of a window that has been listed.  That a window without
exceptions is listed at all is the argument of a minimal owner: were some not, the
one nearest to the root of its owners would have been, hence the assumption that
owners make no circle.

`ClipperProofs`, for any windows, places, hash function and desktop, and any number of
messages and failures: `Invariance`; `CrashNeedsLoss`, that the client falls over a
message only if it missed something; `ScreenIsRight`, that what it shows is what the
server's windows cover, with their taskbar windows; `TableFunctionsAreRight`, of the
table's functions that no message calls; and `TableImplementsMap`, the
refinement of `WindowMap`.  First the functions of `HashTable` are shown to be those
of a map: `InsertIs` and `DelIs` say what `hash_lookup` gives afterwards for every
key, also for those in the same chain, and `EnumerateIs` that `hash_enumerate` passes
each bucket once.  They rest on `TableOK`, that each bucket is in the chain of its
hash value and no key stands twice.  The enumeration is the library's `FlattenSeq`, a
recursive function; that there is one, and what it has at each place, is shown of the
least place at which it were otherwise.  The inductive invariant `IInv` then says
that the data of the table are different objects that exist (`Objects`), that the
region is that of the table, also when the DLL has crashed, and that as long as
nothing was lost the table follows the server (`Follows`) and each taskbar window is
that of one window of the table (`Taskbar`).  `Effect` is what every message does,
proved handler by handler.  `TableFunctionsAreRight` needs besides that the count is
the number of keys (`CountOK`): a property of every step (`CountKept`), since each is
an insertion, a deletion or neither (`Served`).  That there is an order for `qsort` to find
follows from `OrderAssumption`: sent to the number of those not above it (`Ranking`),
every bucket gets a place of its own.  `hash_free_table` is a fold, that is, a
recursive function of a set of positions; `FoldBySteps` makes a sequence of states of
it, and `FreeTableIs` says what the table still has after each of them.  The parsing comes in by `TitlesAssumption`, which TLC
evaluates on the instance of the run `Client`.

The invariants above were first checked as invariants of the runs, and those of
`Sync` of two larger instances too.  Assumptions: those named in the modules, which
say that the constants are what their comments say; for the ring, that each message
is shorter than the ring and that no character is NUL.

Model-checked only: the liveness properties (`WritesReturn`, `CommandsReturn`,
`EndsAtLast`, `HooksAreRemoved`, `SyncEnds`, `LinesAreRead`,
`ReturningClientIsGreeted`, the fair part of `FifoSpec`), which the prover does
not handle; everything of the modules not named above.  Out of the prover's reach is
`StringHash` with its bit operations.  What the folds of the client's parsing give
is an assumption, which the instance of `Client` satisfies.

## 6. What is not modelled

* `stdstring.h`, a vendored string class: more than half of the repository's
  lines.
* Icons: `extract_icon` is a sequence of GDI calls and a loop over pixels.  The
  messages of `update_icon` would belong to `Sync`; they add a value per window
  that only a `WM_SETICON` changes, and `do_sync` does not send it.
* `unicode_to_utf8`: characters to bytes, without state.  The callers give it
  150 characters at most and 1024 bytes of room.
* Groups of windows (`CREATE`'s process id, `DESTROYGRP`): the client's matter.
* Drawing, menus and dialogs of Windows, the text of message boxes, build files.
