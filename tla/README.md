# A verification project for mdsshell

`mdsshell` is a small client/server system around the MDSplus network protocol.
A server process keeps one connection to a remote mdsip daemon and listens on
two local sockets; shell commands (`mdsConnect`, `mdsOpen`, `mdsPut`,
`mdsValue`, `mdsValuePut`, ...) are short-lived clients that send one line and
wait for a reply ending in a line `EOF`. `mdsPutCh` is a client that keeps its
connection and sends one command per channel.

The repository also carries the MDSplus sources it is built against. Of these the
part that runs an experiment's actions, `mdsplus/servershr`, is concurrent code with
state of its own, and is treated here as well: a *dispatcher* sends the actions of a
phase to *action servers*, group by group and as their conditions come true, while a
receiver thread takes the servers' replies and another thread works off the actions
that have ended.

This directory holds TLA+ modules translated from the source, TLC
configurations that check them on small instances, and TLAPS proofs. Paths are
relative to the repository root (`src/` here).

## 1. Inventory

### Components, state, operations

| component | source | state | operations | status |
|---|---|---|---|---|
| server loop | `mdsshell/mdsshell.af_unix.c`, `usc.c`, `usc.h` | `watchset`, `fdpool`, two `UnixSocketConnection`s, reply buffer with an error flag | one turn of `new_state()`: flush the reply, select, read or accept a command, read or accept a debug line, run the handler | modelled: `CommandServer` |
| command handlers | `mdsshell/mdsshell.c` | `S_sock`, statics | the entries of `serverCommands[]` | by their effects: `CommandServer`; `mdsValuePut` in detail: `ValuePut` |
| alarm | `mdsshell/timeout.c` | `S_env`, the process alarm | `set_timeout`, `alarm_handler` | modelled: `ValuePut` |
| command line clients | `client`, `client_work` in `mdsshell.af_unix.c`; `readline.c` | one connection | connect, send, read to the EOF line | modelled: `CommandServer` |
| `MdsShellTransaction` | `mdsshell/mdsPutCh.cpp` | one connection, an error count | put a command, get its reply | modelled: `CommandServer`, `ChannelUpload` |
| mdsip protocol | `mdstcpip/mdsipshr.c`, `mdsiputil.c`, `mdsip_socket_io.c` | a socket number, held by the caller | connect, flush, send, receive, close | its effects on sockets and statuses |
| mdsPutCh upload | `mdsshell/mdsPutCh.cpp`, `InputBlockWrapper.cpp` | options, channel mask, repeat count | one put per channel, repeat on SIGUSR2 | modelled but for the expression: `ChannelUpload` |
| keywords | `RootExpression` in `mdsPutCh.cpp`, `parser.h` | keyword lists | substitute, evaluate | planned |
| timebase | `mdsshell/Timebase.cpp` | capture, cached interval | parse, clip, scale | modelled but for the clock: `Timebase`, `ChannelUpload` |
| mdsPut data path | `mdsshell/mdsshell.c` 427-657, 1089-1225 | buffers | strides, means, dimensions | one file: `Timebase`; the rest planned |
| batch and script modes | `batch_work`, `spawnCmd` | a child process | read a line, run it | planned |
| TCP server | `mdsshell/mdsshell.af_inet.c` | | fork per connection | not built by the Makefile; not planned |
| `mdsPutCal`, `readVolts`, `ChannelDataFile`, `vin/` | | | one-shot tools without shared state | not planned |
| action dispatcher | `mdsplus/servershr/ServerDispatchPhase.c`, `ServerBuildDispatchTable.c`, `ServerDispatchAction.c`, `servershrp.h` | the dispatch table with the flags of each action, the queue of completed actions, `dispatch_mutex`, `AbortInProgress` | dispatch a phase, wait for a group, dispatch on a condition, record statuses | but for monitors and the table's building: `DispatchPhase` |
| job list and receiver | `mdsplus/servershr/ServerSendMessage.c`, `ServerBadSocket.c` | `ClientList`, `Jobs`, the receiver's `fd_set` | connect, register, send, accept, take a reply, give a client up | but for the receiver's start and `ServerWait()`: `JobList` |
| action server | `mdsplus/servershr/ServerQAction.c` | the job queue, `CurrentJob`, the worker thread | queue a job, work, answer, abort, remove the last | but for what a job does: `ActionServer` |
| daemon, rest of MDSplus, tinyxml, packaging | | | vendored, or run elsewhere | environment or left out |

### How they interact

* Clients and server exchange data over AF_UNIX streams. The listener's queue
  holds clients that are not accepted; the server accepts one at a time.
* The server asks the daemon over a TCP stream and blocks until the answer, an
  error or the alarm. Nothing else is served meanwhile.
* The handlers, the protocol library and the loop share the process's
  descriptor table, and each keeps numbers of its own: `command.fd_active`,
  `debug.fd_active`, `S_sock`, the watch set. 0 means "none" in the first two
  and in `S_sock`; `S_sock` is -1 after a failed connect.
* An accepted debug connection takes over descriptors 1 and 2, so `printf()` in
  the server goes to it.
* `mdsPutCh` computes labels and a buffer size from a timebase and sends the
  timebase along; the server parses it again, on its own, when it reads the file.
* `mdsValue` and `mdsValuePut` share one alarm and one `longjmp()` target.
* The dispatcher's main thread calls `ServerSendMessage()`, which registers a job
  under its socket's number, sends the request and waits for its acceptance. The
  action server connects back, to the receiver, and reports each job as started and
  as finished. The receiver calls `Before()` and `DoActionDone()`, which queues the
  action; `ProcessActionDone()`, on a thread of its own, marks it as done and
  dispatches what was waiting for it. The main thread polls the marks.
* In the action server the main thread queues jobs and aborts them, and a worker takes
  and answers them. An abort cancels the worker and starts another.

### What is hard

`PROJECT.json` lists the hazards line by line. They fall into eight groups.

1. *Numbers outlive objects.* A descriptor is closed in one place while its
   number stays in another; the next `accept()` or `socket()` reuses it.
2. *The end of a reply.* A client waits for a line that starts with `EOF`, and
   the server writes it only behind text that ends in a newline.
3. *One slot.* Whoever holds the command connection keeps all others out.
4. *The alarm.* One timer, one target, a global timeout, several paths out.
5. *Arithmetic of segments and timebases.* Divisions, 32-bit spans, windows past the
   file's end, two parsers of one string.
6. *Signals and globals in mdsPutCh.* SIGUSR2 interrupts reads as well as
   `pause()`; options, a counter and a cached string survive from line to line.
7. *Several threads, few locks.* The flags of an action are bits of one word that four
   kinds of thread write; clients and jobs are found under a lock and used without it;
   a thread that is cancelled may hold a mutex, or a job.
8. *Who has completed a job.* A server that dies, a reply that is lost, an abort and a
   normal end all complete jobs, and may come together.

### What makes each component correct

* server: a reply reaches the client that asked, once, with the command's own
  outcome; the server serves one client at a time and everybody eventually; the
  numbers it keeps name what it thinks they name; clients cannot stop it;
* `mdsValuePut`: every sample of the window of every channel is sent once, with
  the right time range; success means that every put was acknowledged, by the
  answer to its own question; a timeout applies to the command that asked for
  it, and ends it;
* `mdsPutCh`: a selection of channels is uploaded in order, each channel from its
  own file, and completely unless it says otherwise; an element's label is its
  time; the repeat mode takes the turns it was asked for;
* dispatcher: no group starts before the one before it has ended; an action with a
  condition is sent when the actions it names have ended as it requires, and not
  twice; a phase that returns has nothing running and all statuses recorded; it
  returns;
* job list: a job is sent once and completed once, with the server's status, or with
  `PATH_DOWN` when the server has gone; every job is completed;
* action server: jobs are worked on in their order, one at a time, and answered once;
  the queue stays a queue; every job comes to an end.

## 2. The modules

### CommandProxy

The abstract specification: per client a phase (idle, asked, served, answered,
gone) and the outcome of its command. `Take` is possible only while no other
client is being served; an outcome is decided once; an answer comes after it.

### CommandServer

State and code:

| variable | code |
|---|---|
| `fdtab` | the kernel's descriptor table: number to object |
| `watchset`, `inset` | the `fd_set`s of `new_state()`; `fdpool` always has the same members as `watchset` |
| `cmd_active`, `deb_active` | `command.fd_active`, `debug.fd_active` |
| `S_sock` | the global of `mdsshell.c` |
| `stdoutOpen` | `stdout`: printed text goes to descriptor 1 until somebody closes it |
| `pc`, `in` | the point in the loop; the command line being run and who sent it |
| `out` | `cmd->out`: whether there is text, whether it ends in a newline, the error flag |
| `mdsUp` | the daemon's end of the connection |
| `backlog`, `dbacklog`, `c2s`, `s2c` | socket queues |
| `cpc`, `sent`, `verdict` | the clients |
| `result` | history: what the last command of a client came to at the server |

One turn of the loop is `Flush`, `Select`, one action of the command half
(`ReadCommand`, `CommandHangUp`, `AcceptCommand`, `NoCommand` and the two ways to
die), and, unless a command was read, one of the debug half. A handler is one
action, or two when it waits for the daemon: the request, then `MdsAnswer`,
`MdsGarbles`, `PeerAnswer` or `MdsTimeout`. Commands are classes: `mdsOpen`
stands for every command of one question and one line; files, floats and timed
reads have their own, and so have `mdsValue -o` with a file (`DoValueFile`, whose file
`CloseOutput` closes, and a timeout leaves open) or with `-`, and `mdsValuePut -d`
with a file, which nothing closes.

Descriptors are numbers handed out lowest first, because the code's mistakes and
its correctness both depend on it: `DebugAccept` relies on it for `dup()`
(`Redirect`), `mdsValue -o -` frees number 1 by `fclose(stdout)`, and
`S_sock` after `mdsDisconnect` is caught by it. A number may name the daemon, a
client (`SendTo` then gives the client protocol bytes), a file nobody closes
(`leak`), or nothing. `CloseSocket()` does `shutdown()` as well as `close()`, so
it ends a connection under all its numbers.

Clients may be killed at any point. With `UnreadDeath` also while reply lines are
on their way; the kernel then resets the connection, which is fatal to the
server. Properties that cannot hold after that are checked without it.

### ValuePut

One server running `mdsConnect`, `mdsValue` and `mdsValuePut`, with the daemon's
connection and the alarm. `BeginPut` parses the options, sets the alarm and
computes the first segment; `PutChannel` builds a channel's descriptor and asks;
`Answer` takes the first answer on the connection (`owed` is the queue of
questions on it, so that an answer to an earlier question would be taken for the
present one's); `PutAnswered` clears the alarm and breaks the loop on failure;
`PutTimebase`, `BeginSegment`, `FinishPut` follow `doMdsValuePutSegment` and
`doMdsValuePut`. `alarm` says whether the timer runs and whether the frame its
`longjmp()` goes to still exists: `Return` turns a running one `dead`, and
`RingWild` is what happens then. Sample counts keep the difference between the
length computed from the file (`Elems`, with its unsigned wrap) and the samples
read (`SamplesRead`). The span is reduced modulo `SpanMod` (2^32 in the code).

### Timebase

Operators only. A timebase "start,samples,stride" is a record `Definition`. The
first half is `StartSampleStride`: `Stride`, `Samples` and `First` in the order of
its constructor, with C's division towards zero (`Quotient`) and a start relative to
the trigger. The second half is what the server makes of the same string in
`_setStartStride()`: its chain of `sscanf` patterns comes down to when each of the
three numbers is taken (`ServerStart`, `ServerSamples`, `ServerStride`;
`Colon` and `Star` are the two signs for a default, one to `mdsPutCh` and two to the
server, and `StrideTaken` tells the forms in which the server takes the stride;
`OneCharacter` is the pattern `%d,%c,%d`, which takes a one-digit number of samples
for a colon). `Elements` is what `_getFileData()` then reads into the buffer of
`Dim` elements. The Makefile does not define `PGMCOMOUT`, so nothing is written to
the driver, and the two halves have to agree by themselves. A negative start, sample
count or stride, and a stride of 0, are left out.

### ChannelUpload

`mdsPutCh` with its standard input, a server that answers or goes, and SIGUSR2.
`ReadCommand` is a line: options set globals that stay set, and channels start an
upload or the repeat mode. An upload is `CreateTimebase`, `ReadMask`, then
`PutChannel` and `Answer` for each channel the iterator finds in the mask
(`Upcoming`), then `FinishUpload`. A put carries what it tells the server: channel,
site and number on the site (`Member`, `PhysicalChannel`), labels, interval and
timebase. The interval is `Interval`, the string that is made once in the life of the
process and kept in `dt`. A failing answer exits. `Turn` is the condition of the repeat loop; its
`repeatn-- > 0` leaves -1, the code's "for ever". A signal wakes `pause()`, or does
nothing (`Trigger`), or ends the program because the handler is not there yet or a
read from standard input or `acqcmd` is cut short (`TriggerEnds`), or leaves the
channel mask uninitialized (`TriggerSpoilsMask`: any selection, or a crash).
`turns`, `limit`, `strides` and the content of `acks` are history.

### JobService

What a dispatcher may rely on: for each job, `Send` or `Refuse`, then at most one
`Start` and one `Complete`. A job whose sending failed after it was registered is
`lost`, and may still be completed (`late`): the caller was told a failure, and gets a
completion all the same. `DispatchPhase` uses these actions as its environment, and
`JobList` is shown to implement them, which is how the two are composed.

### DispatchPhase

A shot is a dispatch table as `ServerBuildDispatchTable()` leaves it, and the phases
dispatched on it, one call of `ServerDispatchPhase()` after another.

| variable | code |
|---|---|
| `act` | the fields of each `ActionInfo` that change: status, `done`, `doing`, `dispatched`, `recorded` |
| `value` | the TDI variable `_ACTION_<nid>` of each action, which conditions refer to |
| `completed` | the queue between `DoActionDone()` and `DequeueCompletedAction()` |
| `running`, `abort`, `failed`, `mutex` | `ProcessActionDoneRunning`, `AbortInProgress`, `failed_essential`, `dispatch_mutex` |
| `at`, `item`, `deps`, `target` | where each thread is, and its loop variables |
| `first_g`, `last_g` | the current group of the sequence |
| `job`, `sends` | the jobs, as `JobService` has them, and how many an action has had |
| `tree` | the statuses recorded |
| `torn` | history: a store to one flag has undone another's |

Main's loop is `BeginGroup`, `DispatchNext`, `WaitForActions` (one action per step,
because the flags change under it), `GroupDone`, and behind the last group
`EndDependencies`, `CannotHappen`, `BeginRecord`, `RecordStatus`, `NextPhase`.
`Dispatch(t)` is the routine that main and the done threads share, from its lock to
its unlock. `ProcessActionDone(t)` is a done thread. `Before` and `Completion` are the
receiver's callbacks. A condition (`Condition`) names actions and asks that all
have ended well, that none has, or cannot be evaluated; it is unknown while one of
them has no value.

### JobList

`ServerSendMessage.c` with its two threads: main's `Begin`, `Check`, `Connect`,
`RegisterJob`, `Send`, `Answer`; the receiver's `Select`, `Accept`, `Scan`, `Message`,
`Completion`; and `RemoveClient(t)`, which both run, in five steps, because the list's
lock is given up between them. Sockets are numbers, lowest first: `fd` says what a
number names, and `sock`, `client`, `active` keep numbers that may have come to name
something else. An element of `Servers` is one life of a server process; `ServerDies`
and `ServerRises` may happen between any two steps. `NoRoom` is the bound on clients.
A thread that has unlocked the list goes on with the entry it looked up; `Close` on an
entry the other thread has taken out meanwhile uses freed memory, and sets `stray`.

### ActionService, ActionServer

`ActionService` is the promise: a queue, jobs taken from its head, one at a time, each
answered once; after an abort "one at a time" is not promised any more. `ActionServer`
is `ServerQAction.c`: the doubly linked queue with its four pointers, `CurrentJob`,
the flag that says that a worker runs, the workers themselves, and `SrvAbort` in the
steps between which it holds no lock (`KillThread`, `AbortCurrent`, `ClearCurrent`,
`FlushQueue`, `StartThread`). A cancelled worker dies at a cancellation point (`Die`),
and its cleanup comes later (`ThreadCleanup`). The jobs' `fate` and `Queue`, the
sequence that the pointers form, are the refinement mapping. The servers of `JobList`
do what `ActionService` allows a server without aborts: `ServerStarts` is a `Take`,
`ServerFinishes` an `Answer`.

### MC modules

`MCCommandServer`, `MCValuePut`, `MCChannelUpload`, `MCDispatchPhase`, `MCJobList`,
`MCActionServer`: definitions for TLC only, such as command sets, tables and addresses.

### CommandServerProofs, CommandProxyProofs, ValuePutProofs, ValuePutOutcomeProofs, ChannelUploadProofs, DispatchPhaseProofs, JobListProofs, ActionServerProofs

TLAPS proofs about the modules they are named for, section 5. `CommandProxyProofs`
extends `CommandServerProofs`, and `ValuePutOutcomeProofs` extends `ValuePutProofs`.

## 3. The runs

Passing runs:

| run | what is in it | what it shows |
|---|---|---|
| `clean` | a one-shot client and a session of two commands, both may be killed; the daemon hangs up, or does not answer a timed read; descriptors limited to 7 | replies reach their requesters, numbers and objects agree, the server implements `CommandProxy`, and everyone is answered |
| `debug` | a session beside a debug client that comes, writes, goes or dies | debug output never reaches the command client, and the command client is still answered |
| `everything` | a command of every effect, malformed headers, deaths with unread lines, a full descriptor pool, a debug client | types hold; a reply is written once; the outcome a client reports is its command's, over several commands on a connection |
| `puts` | regular puts: the window divides into segments, no timebase, a timeout only where one answer is awaited; the connection may break | every sample once, in plan order, over the whole time range; success means all acknowledged; the alarm ends the command that set it, and only that |
| `channels` | two command lines with every kind of timebase, options carried over, repeat modes, two signals at any point, failing puts, a server that goes | the channels of the mask in order, from their own files, completely or with an error exit; labels, computed from the interval that is written, are the times of the elements, as long as the process has put with one stride; the buffer is large enough; no turn too many; an upload ends, unless the server has gone |
| `uploads` | every kind of put, with the mistakes: no channels, no window, a missing file, channel `MAXCHAN`, a timebase, more segments than samples, windows past the end of the file, sticky timeouts | the timebase of a segment that starts inside the file or at its end is as long as its channels |
| `phase` | seven shots of three actions: groups, conditions on success, on failure, along the table and against it, two phases; servers that cannot be reached, answers that are lost, a second done thread | groups run one after another; conditions are kept; nothing is sent twice, left running or left unrecorded; a phase ends |
| `jobs` | two servers on two hosts, one of which may die and come again, two jobs, both threads giving clients up | a job is completed once, up to a use of freed memory; `PATH_DOWN` is true, or explained by a number used twice; every job ends |
| `actions` | three jobs, an abort at any point with and without a flush, removals, up to three workers | the pointers are a queue, the server implements `ActionService`, every job ends, unless the abort was untimely or what it freed is used again |

Runs that show a disagreement between the code and what the repository says of it
(each is a finding in `PROJECT.json`, with the lines):

| run | property | what happens |
|---|---|---|
| `v_disconnect` | `ReplyToRequester` | after `mdsDisconnect` a client's connection has the number in `S_sock` and gets protocol bytes |
| `v_path` | `PathDownTrue` | two servers on one host get each other's connections back, and the end of one completes the jobs of the other as `PATH_DOWN` |
| `v_abort` | `AnsweredOnce` | an abort between a job's answer and the clearing of `CurrentJob` answers it again, with `ABORT` |

The same models show more of the kind, for which no run is kept. Of the server and `mdsValuePut`
(the command sets and the regular requests of the passing runs keep them out):

* `/* are you there ? */`, as any comment or empty line, is never answered, and the
  client that asks blocks all others (`EveryoneAnswered` with `DoComment`);
* an unknown command reaches `assert(0)`, not the handler written for it (`DoUnknown`);
* a file lost by each strided put, each `mdsValuePut -d` with a file, and each
  `mdsValue -o` with a file that times out, exhausts the descriptor pool (`leak`);
* `mdsValue -o -` closes `stdout`, which is descriptor 1 (`CloseOutput`): the next
  connection to the daemon or from a client gets that number, and the next debug
  connection pushes it off with `close(1)` and `dup()` (`DescriptorsAgree` with
  `mdsValueStdout` and a debug client; `ReplyToRequester` still holds);
* the timeout of a put covers its first channel only (`EveryPutEnds` with two channels
  and an option `-t`);
* `mdsPut aborted` has no newline, so its EOF line is not one (`PutFileAborted`);
* a client killed with unread reply lines ends the server (`CommandReset`);
* a window that `--nsegs` does not divide loses its last samples, and more
  segments than samples send the whole file each time (`FirstSegment`);
* the 32-bit span cuts off a long time range (`Span`);
* the timebase's status replaces a channel's failure (`OkMeansAll` with a timebase);
* `-t` is remembered by later puts that do not give it (`TimeoutOption`);
* a put refused for its options leaves the alarm running (`RejectPut`, `RingWild`);
* the loop over channels ends before channel 96: the help's `--ch1 1:96` sends 95
  and succeeds (`Upcoming` of `ValuePut`);
* past the end of the files the timebase has the window's length, and the channels have
  no sample: `Elems` is computed from the window, and `fread()` returns 0. This is why
  `TimebaseMatches` has the premise `StartsInFile`; the requests of `uploads` contain
  such segments, and without the premise the run fails.

Of `mdsPutCh`:

* `%DT` keeps the stride of the process's first put (`Interval`): the string is made
  once (`Timebase.cpp:254-270`), where `mdsPutCh.cpp:62` says that it includes the
  stride. After a line with another stride every label is wrong. `LabelsTrue` therefore
  has the premise `OneStride`; the lines of `channels` have several strides, and without
  the premise the run fails;
* a timebase that starts with a colon and gives the number of samples, as in
  `:,8,2`, or mixes the signs, as in `*,:,5`, is ignored by the server as a whole, so
  the labels are those of a stride that was not used (`ServerStride`; `LabelsTrue`
  speaks of the forms of `StrideTaken`);
* `%S2 - %S0` is the number of samples asked for, and more than are read when a
  start leaves fewer behind it (`Samples`, `Elements`);
* a line after `-R n` repeats for ever (`Turn`);
* a signal between two lines ends the program with success (`TriggerEnds`);
* a client whose server has gone waits for ever, reading nothing (`ServerGoes`).

And of the dispatcher and the action server, where the premises of the properties
(`Regular`, which is `OneThread`, `NoneLost` and `Awaited`, and `NumberShared`,
`FreedTwice`, `Unwatched`, `untimely`) name what has to be excluded:

* an action whose completion is queued is not done yet: `CannotHappen` writes
  `CANT_HAPPEN` over the `PATH_DOWN`, `NOT_DISPATCHED` or `INVALID_DEPENDENCY` it had;
* two completions before the done thread says that it runs start two of it, and the
  two can dispatch one action twice (`DispatchedOnce` without `OneThread`);
* a condition on an action with a condition that comes later in the table (`Backward`,
  with four actions): main has passed the first when the second is triggered, so its
  phase ends without it, and its completion is worked off in the next phase, where
  `AbortInProgress` is 0 again. It is then dispatched in a phase that is not its own, and
  an action whose completion was left over can be dispatched twice by one thread. This
  is why `Awaited` asks that conditions look back in the table;
* the same happens with conditions on actions of another phase: what cannot happen in
  its own phase is dispatched, or dispatched again, when the other phase is. `Awaited`
  asks that they are of one phase;
* a condition that names no action, and would be true, is never evaluated, since only
  the end of an action it names makes the dispatcher look at it: the action is told
  `CANT_HAPPEN` (`Fulfilled` therefore asks for one). The last three were found by
  proving: the properties held, without these premises, on the checked tables of three
  actions;
* the flags are bits of one word: a store can undo another, and then an action is
  waited for for ever or not at all (`torn`; behaviours are followed up to there);
* a job whose acceptance was lost is completed twice for the dispatcher (`late`);
* an action that is triggered behind main's last look runs after the phase has
  returned (`ReturnsComplete` without `Awaited`);
* between the close of a lost connection and the marking of its jobs the number can be
  given to a new server, whose job is then marked with them (`NumberShared`);
* both threads may take the same client out: its numbers are then closed twice, and the
  second close can end a connection opened in between (`FreedTwice`);
* a connection back of a server that has died, still in the backlog, is given to the
  next client of the same address, and its end is taken for the end of the server that
  client talks to. This is why `PathDownExplained` speaks of a dead server of the job's
  host, not of the job's server. The proof found it: a stronger form held on the
  checked instances, and fails with two addresses, two lives each and four jobs;
* a server that dies before it has connected back is not noticed (`Unwatched`);
* a worker cancelled in its wait dies with `JobWaitMutex`, and one cancelled between
  taking a job and making it current takes the job with it (`untimely`);
* a worker that is cancelled goes on with a job that the abort has freed, until it comes
  to a cancellation point (`DoJob`, `stray`);
* the cleanup of a cancelled worker says that none runs when its successor does, so
  that the next request starts a second one.

### Bounds

* Two command connections are enough for one to wait while the other is served,
  die in the queue, and be accepted on the other's number. Numbers 0-4 are in use
  from the start, and 5 and 6 are the first that are reused, so a pool of 6 to 10
  numbers reaches both reuse and exhaustion, as 32 does in the code.
* `MaxCmds` 2: one command after another on the same connection, which is what
  stale buffers and flags need.
* `Backlog` is the code's 5 and never reached with two or three peers.
* Four channels, the fourth numbered `MaxChan`; files of six samples; up to three
  segments: one, an inner one and a last; `SpanMod` 64, more than the spans of the
  runs. `MaxLosses` 1 or 2 breaks of the connection.

* Captures of four samples before and eight after the trigger, starts and strides on
  both sides of the trigger and of the end: every case of the clipping, and strides
  that divide the capture and that do not. Three sites of two, one and two channels,
  one channel not in the mask: the first, the only and the last channel of a site.
  `MaxLines` 2 and `MaxSignals` 2: a line after another is what stale globals need,
  and two turns of `-R 2`, or one and a lost signal.

* `MaxSends` 2: a second dispatch of an action is what `DispatchedOnce` looks for.
  Three actions are two groups and a condition, or a chain of two; two done threads
  are as many as the race at their start makes. Main, two done threads and the
  receiver give every pair of writers of a flag.
* `MaxJobs` 2 and `MaxClients` 3: a job on an old connection and one on its successor,
  with a client in between; six numbers are never exhausted by two servers, so reuse
  comes from closing, as in the code.
* `MaxWorkers` 3 and `MaxAborts` 1: the cancelled worker, its successor, and the one
  too many; three jobs give the queue a first, an inner and a last entry. Bounds end a
  behaviour in `Rest` (`BoundReached`, `NoRoom`), with what was checked up to there.

No symmetry is used: the peers differ in what they may do, and several runs check
liveness.

### Fairness

`FairSpec` assumes that the server process runs (`Server`; it is sequential, so
one weak fairness condition is enough), that `connect()` to the daemon ends, that
clients that are alive go on, and that the daemon answers or its connection
breaks, except for a command with a timeout, where the alarm goes off instead.
Nobody is obliged to be killed, and a client in the middle of a session may end it
or go on. `TimedSpec` of `ValuePut` assumes that the server runs, that a set alarm
rings, and that a question over a broken connection fails; it does not assume that
the daemon answers. `EveryoneAnswered` holds although only one connection is
served, because every client's session is finite. In `ChannelUpload` the program runs
and a server that is there answers; nobody has to send a line or a signal.
In `DispatchPhase` each thread runs, `dispatch_mutex` goes to every thread that keeps
asking (strong fairness of `Lock`), and a job that was sent is completed, which is what
`jobs` shows of `JobList`. In `JobList` both threads run, a server that lives does its
work, and one that does not answer a request has died; nobody has to die or to start
again. In `ActionServer` the threads run and every job's work ends; nobody has to send
a request, and a cancelled worker need not reach a cancellation point in its work.

## 4. Mutants

For every property of a passing run, `PROJECT.json` names a definition and a
plausible bug in the code it models (a flag not reset, an `fd_active` set to the
wrong value, an alarm not cleared, windows that overlap) with which TLC finds the
property violated. The mutated forms stand before the definitions they replace.

## 5. The proofs

For `CommandServer`, for any number of clients, any descriptor limits, any command set, from the
named assumptions on the constants (`SizesAssumption`, `PeersAssumption`).

* `TypeCorrect`: `Spec => []TypeOK`. `TypeOK` is inductive. It is not vacuous: the
  numbers stay in the table, and the reply buffer only ever has the three forms.
* `RepliesReachRequesters`: `Spec => []ReplyToRequester`, and `NumbersAgree`:
  `Spec => []DescriptorsAgree`, both assuming `NumbersTrusted`: none of the commands
  in `Closers`, `mdsDisconnect` and `mdsValue -o -`, and no malformed header from the
  daemon. The first and the last close the daemon's socket and keep its number;
  `v_disconnect` shows what follows. The second frees number 1, which the next debug
  connection takes whoever has it.

`ReplyToRequester` is not inductive: that the next line is for the right client
depends on what the active number names, on who sent the command, and on who the
buffered text is for. `IInv` adds

* `StdKept`: 0, 1 and 2 are never given to a command client or to the daemon;
* `SockIsMds`: at most one number is the daemon's, and it is `S_sock`, or the
  socket of a connect under way; a positive `S_sock` is the daemon's;
* `ActiveIsClient`: a number names a command client exactly when it is
  `cmd_active`;
* `RequesterKept`: while a command runs, the client that sent it is at `cmd_active`;
* `ReplyKept`: buffered text is for the client at `cmd_active`;
* `NoCloser`: no command that is run or waits to be read is one of `Closers`.

`IInv` was model-checked on the instances of the runs before it was proved. The
proof has one lemma per group of actions (`LoopKept`, `DebuggingKept`,
`ExecuteKept`, `AnswerKept`, ...), each with a step per action, over lemmas about
what a close, an accept or a delivery does to the parts.

`CommandProxyProofs` goes on from `IInv`, under the same assumption:
`VerdictsTruthful` (`Spec => []VerdictTruthful`), `AnswersOnce`
(`Spec => []AnsweredOnce`) and `Implementation` (`Spec => ImplementsProxy`). It first
shows that every step of the server is to its clients one of four (`Seen`): one they
do not notice, a command taken from the active client, a handler that returns, a
reply written. The invariant `Stages` then says of each client alone where its last
command is: unread (`Awaited`), running (`RunsOnce`), its reply buffered
(`PendingTrue`) or on its way (`RepliedTrue`), never two of these, and nothing of any
between two commands (`Between`); a client whose command was read is at `cmd_active`
(`ServedIsActive`), which is why the proxy may take one only when it serves nobody.
A hang-up, a reset or a debug session cannot break this because of `ActiveStays`: the
connection being served changes only when its client has left.

For `ValuePut`, from `SizesAssumption` alone, for any channels, files, windows,
numbers of segments and commands:

* `TypeCorrect`: `Spec => []TypeOK`. `SegmentInv` adds to `TypeOK` that, while a put
  is working, its segment has the number, window and range of the plan in closed
  form (`SegmentPlanned`): without it the number could be 0 or the successor of a
  last segment, and `NextSegment` would divide by zero segments.
* `PutsPlanned`: `Spec => []PutsFollowPlan`. The invariant is built in three layers.
  `OneQuestion`: the daemon owes at most the answer to the question being asked,
  because a broken connection, a timeout and every answer leave nothing behind.
  This is why a late answer can never be taken for the present one's.
  `AskedNext`: the put asked for is planned and comes after all acknowledged ones.
  `VisitedBefore`: between questions, what is acknowledged of the segment comes
  before the channels still in the loop. There is one lemma for each of the three
  steps that ask or take an answer; the rest leave `puts` alone or start afresh.

`ValuePutOutcomeProofs` adds what holds for some requests only; but for the last, each
condition is an operator over `Requests`, for any number of them; the list of section 3 says what
becomes of requests that do not meet it.

* `TimeoutsAsked`: `Spec => []OnlyAskedTimeouts` if every put gives `-t`
  (`PutsSayTimeout`), since `-t` stays in a global; `JumpsHome`:
  `Spec => []NoWildJump` if moreover every put with a timeout is accepted and has
  something to put (`TimedPutsAsk`). `AlarmInv` and `FirstAnswerInv`: an alarm that is
  set belongs to the command being executed, and its first answer, which takes it
  back, is still to come.
* `SuccessMeansAll`: `Spec => []OkMeansAll` for puts without a timebase
  (`NoTimebase`), whose answer would stand for all the channels'. `AckedInv` gives the
  exact set of acknowledged pairs of segment and channel at each point of the loop.
* `TimesReach`: `Spec => []TimeCovered` if moreover the span of a segment fits its 32
  bits (`SpansFit`); `SamplesSentOnce`: `Spec => []SamplesOnce` if moreover windows
  divide evenly (`WindowsRegular`). They need no invariant of their own but the lengths
  of the puts (`LengthInv`): with the plan (`PutsPlanned`), the rest is arithmetic, that
  a number is in one block of a division and no other (`BlockExists`, `BlockUnique`).
* `TimebasesMatch`: `Spec => []TimebaseMatches` for any requests. The property itself
  speaks of segments that start inside the file or at its end (`StartsInFile`): there the
  length the code computes and the number of samples that `fread()` returns agree
  (`LengthsAgree`).

For `DispatchPhase`, from `SizesAssumption` and `ShotsAssumption`, for any table, any
phases, any division into groups and any number of done threads:

* `TypeCorrect`: `Spec => []TypeOK`, and `GroupsKept`: `Spec => []GroupsInOrder`.
  The table is sorted, so a phase, its conditional actions and its sequence are
  intervals (`PhaseRanges`, `RangeIs`), and `SetGroup()` cuts an interval of one group
  from the sequence (`GroupIs`). `IInv` says where main is in it (`MainPlaced`), that
  done threads dispatch only actions with a condition (`ThreadsPlaced`), that nothing
  of the sequence has been sent from main's `Frontier` on (`NumberedPlan`), that an
  action on its way to being done does not run (`NumberedPending`), that one that
  runs is marked as dispatched and not done (`NumberedFlags`), and that it is in the
  current group and has not been passed by the waiting loop (`NumberedBusy`). The last
  is the heart of it: the flags are read one by one, and what was passed cannot start
  again because each action of the sequence is sent once.
* `DependenciesKept`: `Spec => []DependenciesHold`, `OnceDispatched`:
  `Spec => []DispatchedOnce`, `ReturnsCorrect`: `Spec => []ReturnsComplete`, and
  `CannotHappenCorrect`: `Spec => []CannotHappenTrue`, all under `Regular`, the premise
  that is part of the properties. They need one invariant, since each rests on the
  others: an action is not sent twice because its condition does not become true again,
  which is so because what it names has ended once, and a phase that is over has left
  none of them behind. `OrderInv` is to be read as: each job of an action goes through
  its stages once, and the flags and the value of the action follow (`ActionsTrue`: when
  it has ended, it is once in the queue or in the hand of the thread, or it is done);
  a conditional action is sent exactly when its condition is fulfilled and the thread
  has come to it (`Triggered`, `NotLost`; `Considered` is the point where the thread
  has); what main has waited for is settled (`AllSettled`); and what it has recorded is
  in the tree (`Recorded`). That an action will *never* be sent is what makes the waiting
  sound, and it is a fact about a chain of actions of any length, while no induction is
  at hand: `Dead` is therefore the greatest fixed point, the existence of a set of
  actions each of which waits for one that failed or for one of the set (`DeadSet`),
  which a step keeps by showing the same set again (`DeadGrows`). `Onward` says that a
  step never restores a broken premise, so that `CInv`, `IInv` with `Orderly => OrderInv`,
  is inductive (`StepCInv`); there is a lemma for each action (`LockKept`, `SendKept`,
  `CompletionKept`, `ConsiderKept`, `LookingKept`, `NextPhaseKept`, ...).

For `JobList`, from `ListAssumption`, for any servers, addresses, hosts and numbers:

* `TypeCorrect`, and `Implementation`: `Spec => ImplementsJobService`. `IInv` says which
  pointers each thread has at each point (`HoldsClient`), that `Min` of the clients that
  may take a connection is one of them (`AcceptsSomeone`), that the job main is sending
  is new (`NextIsNew`), and that a registered job is one that is not completed
  (`RegisteredAreOpen`), so that completing it is a step of `JobService` unless it is
  not registered any more, which is where `stray` is set.
* `PathsExplained`: `Spec => []PathDownExplained`. A job is called `PATH_DOWN` only if a
  server of its host is dead, or a number was shared, or an entry was freed twice or
  used after it was freed. `SocketInv` says what the numbers in entries, jobs and
  threads still name: every server process has one connection back (`OneReply`), what
  the receiver found to be readable is readable still (`ReadyTrue`), a swept client's
  jobs are marked (`SweepsMarked`), and, `Sound`, that as long as nothing was mistaken
  (`Mistaken`) an entry no thread is removing owns its two connections alone
  (`WholeIntact`, `Apart`). A close then takes away only the numbers of the client it is
  for, so that a client is removed only where a server of its host is dead
  (`RemovedRightly`), and only its own jobs are marked (`MarkedRightly`). `MistakenStays`:
  a mistake, once made, leaves a trace in the conclusion for good.

For `ActionServer`, from `ServerAssumption`, for any number of jobs, workers and aborts:

* `ListIsQueue`: `Spec => []QueueLinked`, and `Implementation`:
  `Spec => ImplementsService`. The existence of the sequence that the pointers form is
  itself the invariant, carried over each of `Link`, `UnlinkFirst` and `UnlinkLast` by
  naming the new sequence; the sequence read forward is unique, so `Queue` is it.
  `WorkOK` says what a worker with a job may assume of its fate, and `AloneOK` that
  before the first abort there is one worker, the one that `running` tells of.

For `ChannelUpload` and `Timebase`, from `UploadAssumption` and `CaptureAssumption`, for
any sites, mask, commands and capture, all of the run's invariants:

* `TypeCorrect`, and `FilesCorrect`: `Spec => []FilesAreChannels`. The running sums are
  a recursive function: that it exists (`UptoDefined`), and that a channel is between the
  sums of one site (`MemberEncloses`), is shown with `Least`, a least element of a set of
  numbers, in place of an induction.
* `BuffersHold`: `Spec => []BufferHolds`, for every definition of a timebase
  (`ElementsFit`), and `LabelsCorrect`: `Spec => []LabelsTrue`, for any commands. The
  property has the premises: one stride in the life of the process (`OneStride`), and a
  form of which the server takes the stride (`StrideTaken`). The invariant behind it,
  `StringsTrue`, says that the cached interval is the stride of some put before, so that
  with one stride it is the stride of every put (`StringsStep`); the rest is the
  arithmetic of `LabelsNear`. Both rest on `PutsMade`: every put was made for its channel
  and its timebase.
* `TurnsCorrect`: `Spec => []TurnsBounded`, with `TurnsLeft`: the turns taken, the ones
  left, and the one that waits for its signal are no more than were asked for.
* `OrderCorrect` and `CompletenessCorrect`: `ChannelsInOrder` and `OkMeansUploaded`. They
  are proved together with `Past`, that what was answered is what the iterator has come
  past, and `Ends`, that only a failed put ends the program as failed.

So every invariant and action property of a passing run is stated by a theorem. Only
model-checked: `VerdictTruthful` and `AnsweredOnce` with `mdsDisconnect`,
`mdsValue -o -` and malformed headers (run `everything`), and all liveness, which the
prover cannot treat under fairness.

## 6. Not modelled

* `select()` returning with EINTR. No signal handler of the server returns:
  `alarm_handler()` always leaves by `longjmp()`, so that `select()` is not interrupted
  in this way. If it were, `new_state()` would return the state it was called with, and
  the loop would run the last command again.
* Messages of the server itself on `stderr`, and what `mdsValue -o -` writes to
  descriptor 1 before it closes it.
* In `ValuePut`, a malformed header from the daemon: `GetMdsMsg()` closes the socket and
  keeps the number, which is `MdsGarbles` of `CommandServer`.
* Partial writes, and commands split over several `read()`s: a line is written and
  read at once (lines are shorter than the socket buffer).
* Numeric formats, byte order, compression and descriptor encodings of mdsip.
* The expression of `mdsPutCh` but for its labels, the value of the sample clock, and
  mdsPutCh's descriptors (`ChannelMask` does not close its pipe).
* The TCP server, the calibration tools, and the components marked planned.
* Of the dispatcher: a phase without numbered actions, where the end of the last group is
  read uninitialized (`ServerDispatchPhase.c:461`, used in 554; `ShotsAssumption` asks for
  one); what the done thread does between the look at `done` and the store of
  `CANT_HAPPEN` (547-549, one step in `CannotHappen`); monitors with their queue and thread (`SendMonitor`,
  `SendToMonitors`), a second dispatch of the same table, the building of the table from
  the tree. `AbortRange()` cannot run: nothing sets `AbortInProgress` while it
  could. `ServerBuildDispatchTable.c:274` steps
  its loop by `i += num_actions - 1`, which with a single action and a monitor never
  advances.
* Of the job list: the start of the receiver, which two first callers can do twice;
  `ServerWait()`; the loop of `CleanupJob()`, which does not advance; the clients thrown
  away after `select()` has failed twice, and the exit after ten times; what happens
  after a use of freed memory.
* Of the action server: what a job does, `SrvShow`, `SrvSetLogging`, `SrvStop`.
* The rest of MDSplus: the tree and data libraries, the TDI functions and the X
  displays are by far the largest part of the repository. They are single-threaded
  data and display code, much of it generated tables; the map therefore covers a small
  share of the repository's lines, and a large one of the programs treated here.

## 7. Plan

What would come next; each module with its MC module, runs, mutants and, where marked,
theorems.

1. The composition of `DispatchPhase` with `JobList` as one theorem, in place of the two
   that meet in `JobService`; what of `DispatchPhase` holds with two done threads.
2. `PutArray`: strides, means, dimensions and the elements actually read.
3. `Keywords`: substitution to a fixed point, and the condition on the keyword
   graph under which it ends.
4. `BatchMode`: `batch_work` and `spawnCmd` with a child and two ends of a socket
   pair.
