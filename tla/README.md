# A verification development for zcc

`zcc` carries the selection of a Zed editor to Claude Code. A keystroke runs
`zcc send`; the first send of a worktree forks a `zcc daemon`, which tells every
Claude client attached over a websocket which lines were selected. This directory
models that path, the installer and the log in TLA+: TLC checks the models on small
instances, TLAPS proves every safety property of every component for all of them. Source lines below are
those of the repository's `src/` directory.

## The system

| Component | State it keeps | Operations | Talks to |
| --- | --- | --- | --- |
| daemon hub: `daemon/mod.rs` (`DaemonState`), `daemon/ipc.rs`, `daemon/ws.rs` | `pending` (32 payloads at most, behind a mutex), the broadcast channel `tx` (64), the counter `connected` | queue replay; an IPC line (selection, ping); a websocket's accept, subscribe, replay, forward, close | sends over the Unix socket, Claude over TCP |
| sends and daemon lifecycle: `send.rs`, `fork.rs`, `daemon/mod.rs` (`run`, `drain_queue_dir`, `cleanup`), `daemon/lockfile.rs` (`write`) | the socket path, the queue directory, the lockfile directory | warm send, cold send, fork; probe, unlink, bind, drain, publish, serve, clean up | each other, through the file system alone |
| idle watchdog: `daemon/mod.rs` (`idle_watchdog`) | `idle_since`, `last_connected` | a tick every 30 s | reads `connected` of the hub, ends the daemon |
| selection: `selection.rs`, part of `send.rs` and `daemon/ipc.rs` | none | selected text and row to a line range, then to 0-based lines | called by a send |
| lockfiles and MCP sessions: `daemon/lockfile.rs` (`write`), `daemon/ws.rs` (accept, handshake, reading), `daemon/protocol.rs` | a lockfile for each port, the connections | publish, unpublish, accept, compare the token, answer a request | Claude over the file system and TCP |
| installer: `install/` | Zed's `tasks.json` and `keymap.json` and their backups | install, uninstall | the user, who edits the same files |
| log: `logging.rs` | three log files | append, rotate at 5 MB | every process, with a lock per process only |
| runtime directory: `util.rs` | one directory, mode 0700 | create, chmod, verify | sends and daemons |
| lockfile lookup: `daemon/lockfile.rs` (`find_for_worktree`) | none | no caller (`allow(dead_code)`) | - |
| doctor, command line, packaging | none | read and print | - |

What is hard in it, and what makes each part correct:

* **Hub.** Any number of tasks of a multi-threaded runtime share one buffer. A send
  pushes and counts receivers in one critical section, a client subscribes outside
  of it and drains in another one, and the drain loops of two kinds of task take
  turns. Correct means: no payload is lost or doubled by an interleaving, none is
  left behind in the buffer while a client is attached, each client gets them in
  order, and the counts that the watchdog and the sender rely on are right.
* **Lifecycle.** Sends and daemons are processes without a lock between them: probe,
  unlink and bind are three steps, so are listing, reading and removing a queue
  file, creating and writing one are two, and a daemon may die between any two.
  Correct means: one daemon owns the socket; a payload is not handed to two of
  them, a send that reports success has not lost its payload and payloads keep their
  order, each but for exceptions that can be named, for the code ignores many an
  error; and every send ends.
* **Watchdog.** It samples, so it can miss a client, and it must neither end a daemon
  in use nor keep an unused one.
* **Selection.** The text may occur several times, nowhere, or end in a newline.
* **Sessions.** A port and a token reach the client by a file that a dead daemon may have
  left, and the port may be another daemon's by then. Correct means: what a lockfile says
  is true, or its daemon was killed or could not remove it, a client is let in by the daemon that invited it and
  by no other, and nobody waits for an answer in vain.
* **Installer.** It rewrites files that belong to the user, without a lock, in place.
  Correct means: nothing of the user's is lost that could not be restored, and a run that
  ends well leaves exactly one copy of the current entries, or none.
* **Log.** All processes rotate the same three files, each under its own lock. Correct
  means: the files stay small, records whole, and what is kept is what is newest.

## Modules

| Module | Models | Checked by | Proved in |
| --- | --- | --- | --- |
| `Mailbox` | what the hub promises, without tasks, locks or a channel | as a property of `Hub` | |
| `Hub` | the memory of one daemon and the tasks on it | `MCHub` | `HubProofs` |
| `Rendezvous` | all sends and daemons of one worktree, and the file system between them | `MCRendezvous` | `RendezvousProofs`, `DeliveryProofs` |
| `Watchdog` | the idle watchdog in discrete time | `MCWatchdog` | `WatchdogProofs` |
| `Selection` | selected text to line range to broadcast | `MCSelection` | `SelectionProofs` |
| `Session` | lockfiles, handshake and requests of all daemons and clients | `MCSession` | `SessionProofs` |
| `Install` | install and uninstall against a user's configuration files | `MCInstall` | `InstallProofs` |
| `Logging` | the log files and every writer of them | `MCLogging` | `LoggingProofs` |

They share no state, so they are kept apart where the code keeps them apart:
`Rendezvous` treats "accepted into the memory of daemon d" as the end of a payload's
journey, `Hub` starts there (its `ReplayFile` is `DrainRead` of a whole file, its
`IpcPush` is `Handle`), a connection that `Session` attaches is one that `Hub` accepts, the
steps `Publish` and `Unpublish` of `Rendezvous` are `Session`'s writing and removal of the
lockfile, and the counter `connected` of `Watchdog` is the one `Hub` proves
exact. Definitions marked "Slip" are mistakes one could make in the code next to
them; each property is known to notice one of them.

### Hub

`pending`, `connected` and `chan` (every value the channel has taken) are the fields of
`DaemonState`; `holder` is the owner of the mutex around `pending`; `ws[c]` and `ipc[h]` say
which await or lock a task has reached. A payload is its rank in the order of
pushes. One action is one access to shared state: `IpcPush` (lock, push, evict),
`IpcCount` (`receiver_count`, which is not protected by the mutex and can change before
the drain), `IpcDrain` (one `tx.send` of the loop), `IpcReply`; `WsCount`, `WsSubscribe`,
`WsReplayBegin` and `WsReplay` (the drain of ws.rs:73-78), `WsDeliver`, `WsWriteFails`,
`WsLagged` (the receiver jumps to the oldest value kept), `WsClose`, `WsUncount` (the
counter goes down) and `WsReturn` (only here is the receiver dropped).
The channel of the library keeps the last `BroadcastCap` values; it rounds a capacity up
to a power of two, and 64 is one. A websocket whose handshake is refused, an
IPC connection that is not accepted or whose peer is another user's (ipc.rs:66-86), and a
line that does not parse change nothing here and have no action; what such a connection
costs its send is `Reject` of `Rendezvous`. Stopping the daemon cuts a behaviour short,
which no safety property can notice.

### Rendezvous

A member p of `Procs` is one send, its payload, the queue file it may write (a fresh
uuid) and the daemon it may fork. `sock` is the daemon whose socket the path names,
possibly dead (a stale path); `files` is the queue directory by modification time; `torn`
has the files created and not written. Each system call that other processes can see
is an action: `Connect`, `WarmWrite`, `WarmEnd`, `CreateFile`, `WriteFile`, `Spawn`; `Probe`,
`Unlink`, `Bind`, `Scan`, `DrainRead`, `DrainRemove`, `DrainEnd`, `Publish`, `Stop`, `Unpublish`,
`UnlinkSock`, `Exit`. `Faults` switches on the failures:

* "kill": a daemon dies at any step, the socket path stays;
* "stop": a signal or the idle timeout, hence `cleanup`;
* "fork": one of the two forks of a send fails;
* "reject": a connection is not accepted, or is dropped, by a daemon that lives on
  (`Reject`: ipc.rs:66-86 and an error in reading a line);
* "disk": creating or writing a queue file or the lockfile, binding, or a removal of the
  socket path or the lockfile fails, the removals without any consequence (`BindFails`,
  `Removed`, `PublishFails`);
* "queue": the queue directory or a file of it cannot be read, dated or removed, which the
  drain passes over (mod.rs:181-238: `Scan` may list fewer files, or in another order,
  `DrainSkip` leaves a file, `DrainRemove` goes on without removing it).

A process that ends closes its connections: what waits in its inbox is lost (`Dies`).

History variables record what happened, for the properties to name it: `overlapped`, two
daemons were between probe and bind at once; `discarded`, a file was read before its
bytes were written; `cut`, a connection ended with its line unhandled; `left[d]`, daemon d
did not list, read or remove a file; `early[d]`, it listed a file ahead of an older one;
`after[p]`, the sends that were over, with no line unhandled, when p started. With them:

* `OneOwner`: without an overlap one daemon at most is bound, and the path is its own;
* `AtMostOnce`: without an overlap, only a file in `left` reaches two published daemons;
* `OnlyKnownLosses`: the payload of a send that says Ok is on disk, in the connection of a
  live daemon or accepted, unless it is in `discarded` or `cut`;
* `SentOrderIsKept`: a daemon has payloads in the order of sending, except for a send that
  gave up after its 500 ms and was unhandled when the other one started, and for files
  in `early`.

Simplifications: listing the directory is one step; equal modification times are the case
of those that cannot be read; a failure of the steps before the probe is a
kill; a line written to a connection is handled whole; the servers go on during
`cleanup` because nothing stops them (mod.rs:119-134). A reply Err (send.rs:117) would need
a line that does not parse or a notification that does not serialize, and `send_payload`
writes no such line.

### Watchdog

One unit of time stands for a fraction of the 30 s period. A tick is handled at most
`Late` units after it is due; clients come and go in between. `idle` is
`idle_since.elapsed()`. `present`, `quiet` and `missing` only record the past.

### Selection

Texts are sequences over a newline and letters; one action is one line of
`search_in_file`. The properties are stated over positions in the text, not lines, so
that they do not repeat the code's counting. `LineRange` is the source's type; `AtLeast` and
`SaturatingSub` are `max` and `saturating_sub` of numbers far below 2^32. The
properties speak of ranges that came of a scan of at least one line: what an empty selection
or a file that cannot be read yields (`EmptySelection`, `NoText`) has no text to be compared
with, and the model does not tell an empty file from one that cannot be read.

### Session

`lock[p]` and `tmp[p]` are the files `<p>.lock` and `.<p>.lock.tmp`; a token is the daemon it
belongs to. A daemon binds a port nobody listens on (`Bind`), writes and renames its
lockfile (`OpenTmp`, `WriteTmp`, `Rename`), serves, and leaves by `Stop`, `Unpublish` (which may fail to remove the lockfile and then
goes on: `stuck`), `Exit`, or by `Bail` and `Kill`; the listener lives until the process ends, and accepts during the
clean-up, because nothing stops its task. A connection goes from `ReadLock` over `Connect`
(the system queues it while the daemon is still starting), `Accept`, `Ask` and `Handshake` to
frames: `SendFrame` by the client, `ReadFrame` by the daemon, which applies `handle` of
protocol.rs. The client is external and modelled after `examples/fake_claude.rs`, without
its time limits. Binding and queueing are the operating system's. What a daemon pushes
to clients unasked is `Hub`'s.

### Install

`file[f]` is missing, blank, not JSON5, not an array, or an array of entries that has or lacks
comments. A task is its label and its command; a key binding block is the actions of the
four keys at which `is_zcc_keymap_block` looks. Of the user's entries, `Foreign`, some are
`Lookalikes`: the predicates take them for zcc's, and install and uninstall remove them with
whatever else they bind. `UserEntriesKept` speaks of the others. Each file goes through `Backup` (one step where the file
system clones, else `BackupEnd` is the second), `ReadArray` or `ReadToRemove`, `Truncate` and
`Write`; `Abort` ends a run anywhere, in the middle of the write too. `Save` is the user.
`theirs` is the text the user saved last, and `marks[f]` names what the code has no answer
to: a copy cut short ("torn"), a write cut short ("cut"), an edit after the backup
("edited"), a save behind a run's back ("overtaken"), an uninstall without a backup
("unbacked"). Each property names the marks that excuse it. zcc's entries are recognised
in the properties by what zcc emits, now or in earlier versions, not by the predicates
under test. `Only(s, S)` is `retain`: the entries of s that are in S, in their order; it is a
recursive function, not a library operator, because the proofs need its equations.

### Logging

A file is the sequence of the pieces written to it, whatever its name by now; `dir` maps
the three names to files. `Stat` takes the mutex of the process and reads the length,
`RemoveOldest` and the two renames of `Shift` rotate, `Open` and twice `Write` append: a handle
without a buffer gets every piece of the format string in a call of its own, and two
pieces stand for them. Every call may fail, and log() ignores each failure: the length
may not be had, a file not removed or renamed, the log not opened, a write end after the
first piece. Each piece carries its number among those of its process, so that
the properties can say what is kept and in which order without a second copy of the
history. `Kill` ends a process with all its threads. `marks` records what the
lock of one process cannot prevent ("raced"), a death within a rotation ("cut") and the
names whose file a failed call left in place; `broken` has the pieces whose record could
not be ended. `SizeBound` holds as long as the log itself never stayed in place, for log()
then appends to a full file; `NewestKept` as long as nothing raced and the two old files did
not both stay; `LinesWhole` names the records in `broken`.

## Runs

| Run | Instance | Shows |
| --- | --- | --- |
| `hub_safety` | 2 clients, 2 IPC connections, PendingCap 2, BroadcastCap 3, 4 payloads | all safety properties of `Hub`, and that it implements `Mailbox` |
| `hub_liveness` | 2 clients, 1 IPC connection, PendingCap 1, BroadcastCap 2, 3 payloads | `OwedIsDelivered` under `FairSpec` |
| `rendezvous_crashes` | 3 sends and daemons, "kill", "disk", "fork", "reject" | types, `OneOwner`, `OnlyKnownLosses` |
| `rendezvous_faults` | 2 sends and daemons, all faults but "disk" | `OneOwner` again, now with clean-ups, `AtMostOnce`, `SentOrderIsKept`, and `SendsEnd` and `BoundDaemonDrains` under `FairSpec` |
| `watchdog` | period 3, timeout 6, delay 1, 2 clients | when a daemon stops, and that it does |
| `selection` | every file of at most 5 and selection of at most 3 characters over a newline and two letters, rows 0 to 4 | which range is sent |
| `session` | 2 daemons, 1 port, 2 connections of 2 frames and 2 methods | lockfiles, handshake, replies, and `NobodyWaits` under `FairSpec` |
| `install` | every file of at most one entry, one save, any number of runs | what becomes of the two files |
| `log` | a process of two threads and one of one, rotation at 2 pieces, 5 records, every call may fail | size, wholeness and order of the log |
| `double_start`, `stranded`, `torn_file` | small | a statement of the sources that the code does not keep |

Why the bounds are enough: with two clients one can be attached while the other
subscribes, lags or leaves, with two IPC connections two sends compete for the mutex,
and four payloads overflow the buffer twice and the channel once. Three sends let two
daemons compete while a third finds what they left. The largest texts hold an
occurrence before, across and after a line break and overlapping ones. The watchdog's
timeout is a multiple of its period, as in the code. One port makes every daemon after
the first inherit it, with its stale lockfile. A file of one entry, an install that was
cut short and a save give files with the user's entries before and after zcc's. Five
records of two pieces, with rotation at two, fill the three files and remove the oldest
twice. `MaxPayloads`,
`MaxClients`, `MaxContent`, `MaxSelection`, `MaxRow`, `MaxFrames`, `MaxEntries`, `MaxSaves` and
`MaxRecords` are the bounds; the theorems hold whatever their values. Deadlock is not checked: all these
systems may come to rest.

### Fairness

`Hub!FairSpec`: the runtime polls every ready task, so each step a task takes by itself is
weakly fair. The mutex of tokio serves its waiters in turn, so a websocket task that
wants it gets it although sends keep taking it: `WsReplayBegin` is strongly fair. A client
is assumed to read its socket (delivery or a failed write is weakly fair), for the code has
no timeout there. Connections, lines and closings are not fair.
`Rendezvous!FairSpec`: processes that run go on, and a live daemon handles its lines; nobody
has to send, stop or die.
`Session!FairSpec`: a daemon's own steps into and out of service wait for nobody, and the
runtime runs a task that can accept, compare or read; the loop of a connection picks at
random among what is ready, so a frame is read. A read frame is answered and
written without a time limit (ws.rs:105-126), so a client is assumed to read its socket or to
go away. It may stall at any step of its own, and one
that has not sent its upgrade request is waited for without end: the code has no timeout
there, but no one else waits with it.

### Where the sources say otherwise

* `double_start`: "a concurrent loser daemon (from a fast double-send) bails here
  without ever publishing a lockfile" (mod.rs:60-62). Two daemons can both find the path
  dead before either has bound it; the slower one removes the faster one's socket,
  binds, and both publish. The first one's sends are gone from the path, and its later
  `cleanup` removes the other's socket.
* `stranded`: "The daemon will drain the queue dir at startup" (send.rs:50-51). A
  send that finds no daemon, and writes its file after the daemon of another send has
  listed the directory, forks a daemon that bails out at the probe: the file waits until
  some later daemon starts.
* `torn_file`: "One file per message (uuid-named) so concurrent writers are atomic
  regardless of payload size" (util.rs:79-81). A daemon that lists the directory between a
  writer's open and its write reads an empty file, fails to parse it and removes it; the
  writer reports success.

Other limits of the code that the models show, where a property names the exception or
the model leaves the case to a comment:

* "If no Claude client connects or reconnects for this long, shut down" (mod.rs:23): a
  client that connects and leaves between two ticks of the watchdog is not seen.
* "Derived 1-based, inclusive line range of a selection" (selection.rs:4): a selection that
  ends in a newline gets a last line of which nothing is selected.
* "Originals backed up as *.bak" (install/mod.rs:24): once; a later install keeps the old
  backup, a copy that was cut short counts as one, and uninstall makes none. Comments in
  the files are lost to every rewrite and survive only there.
* "`zcc uninstall` removes the entries it added; any other Zed config you have is
  untouched" (README.md:42): a block of the user's that binds `cmd-f20` to the terminal's
  ToggleFocus, or `cmd-f18` and `cmd-f19` as zcc does, is removed with all its other bindings
  (install/mod.rs:220-235), by install too, and so is a task that the user has named
  `zcc-send`. These are `Lookalikes`, the exception `UserEntriesKept` names.
* A save in Zed between a run's read and its write is overwritten.
* A warm send whose daemon dies, or drops the connection, after the payload was written
  reads the end of the stream and says Ok (send.rs:101-120); nothing has the payload then:
  `cut`, an exception of `OnlyKnownLosses`.
* "Files are processed in mtime order so message ordering is preserved" (mod.rs:177-178): a
  send that gave up on a starting daemon has its line handled when that daemon serves, after
  what was queued and in no order with the lines of later sends.
* Errors that the code ignores: a queue file that cannot be removed is accepted again by the
  next daemon (mod.rs:222 and 237), one that cannot be read stays (mod.rs:211-217); a lockfile
  that cannot be removed stays when its daemon ends (mod.rs:168-172).
* Uninstall goes through the files in the order of install, so one that fails in between
  leaves keys bound to a task that is gone; so does a second install that dies between
  emptying `tasks.json` and writing it; uninstall also refuses a blank file, which install
  takes for an empty array.
* "JSON lines" (README.md:52): records of two processes can mix within a line. Two
  processes that rotate at once can drop a generation early, and after a death in a
  rotation the next one keeps a single full file. A log that cannot be renamed grows past
  5 MB without bound, and a record whose write fails half-way runs into the next one.

## Proofs

* `HubProofs`: type correctness and every safety property the runs check, from
  `CapAssumption` and `TaskAssumption` only. The inductive invariant `IInv` rests on one
  observation: what is in `pending` is always the run of the newest ranks (`Tailed`), so a
  number, `Out`, says what has left it, and a push or one turn of a drain loop moves it by
  at most one. Every step is then one of three kinds (`StepKinds`): it pushes, it drains
  one, or it leaves buffer and channel alone. `LockInv` ties the mutex to the critical
  sections, `ChanInv` and `OrderInv` order the channel and the clients' pasts, `LoadInv`
  bounds what a receiver has ahead of it, `OwedInv` says where each owed payload is, and
  `FateInv` keeps the fates apart. None of the properties is inductive without them: for
  instance `NoStrandedBacklog` needs to know that whoever holds the mutex with a
  subscribed client will drain. `HubImplementsMailbox` maps pushes to `Accept` and
  `AcceptEvicting`, drain turns to `Publish` and `Discard`, and everything else but
  deliveries to stuttering.
* `RendezvousProofs`: `OneOwner`, for any number of processes and any faults. It is not
  inductive, since it says nothing of a daemon about to remove the path; `OneIntruder` adds
  that without an overlap there is one such daemon at most, and nobody is bound then.
* `DeliveryProofs`: types, `OnlyKnownLosses`, `AtMostOnce` and `SentOrderIsKept`, for any number
  of sends and any faults, with the exceptions named above. `OnlyKnownLosses` says that a
  payload is somewhere; to keep it one must
  know where it is not, or a removal could take the last copy: `PlaceInv` says that a payload
  in an inbox is nowhere else, that one not yet written is in a torn file only, that the
  file about to be removed is one whose payload has been taken or dropped. `OnceInv` adds the
  cases between the push and the removal: without an overlap a payload in a memory is still
  on disk only if its reader is about to remove it, could not, or has died before it published.
  `OrderInv` carries the order of sending through the directory, the list a daemon drains and
  its memory; the payload sent later cannot be in a memory while the earlier is still to come.
* `WatchdogProofs`: the two bounds of the watchdog and its types, for any period, timeout
  and delay shorter than the period. The invariant relates the clock to the last tick:
  before each tick `idle` is short of the timeout by what `wait` can add.
* `SessionProofs`: types, `LockfilesAreTrue`, `HandshakeIsRight` and `RepliesInOrder`, for any
  daemons, ports and clients. `DaemonInv` adds that a temporary file is that of the daemon about to rename
  it, that no two daemons listen at one port, and that a lockfile has the port of its
  daemon, which serves, is cleaning up, or is one of `killed` or `stuck`; so a daemon renames and removes nobody's file but its own. `ClientInv` adds that
  a client knows a daemon that has published, and is connected to one that listens at the
  port of that daemon; the token does the rest. `ReplyInv` adds to `RepliesInOrder` that what
  waits in the inbox is the end of what the client has sent.
* `LoggingProofs`: types, `SizeBound`, `LinesWhole` and `NewestKept`, for any processes, maximum
  and number of records. A position of a file is late if the file was full without it.
  `SizeInv` says that a process that has found the file short has no piece at a late position
  of the file it is about to open or has open, and after the first piece none but first ones;
  so each process has at most one piece of each kind there. `SizeCount` counts them with the
  pigeonhole principle. `LineInv` ties the last piece of a process in a file to who is
  writing it. `NewestInv` adds to `NewestKept` that numbers rise in each file, linked or not,
  and, as long as nothing raced and the two old files did not both stay, what a process in a rotation has still to move
  (`RotationInv`), that the file a thread has open still has a name and no younger file has
  anything of its process (`WriterInv`), and which full files are there once something has
  gone, counted at each step of a rotation (`LossInv`). `NewestKept` alone allows a thread to
  write into an old file while a younger one has later pieces.
* `InstallProofs`: types, `UserEntriesKept`, `OriginalKept`, `EndsAsAnnounced` and the action
  property `NoDanglingBinding`, for any bound on entries and saves. `ArrayInv` says what the
  array a run is about to write holds: the current entries once or none, nothing else that
  the predicates match, and the user's part
  of what the user saved last. `ThroughInv` says that of the files a run has been through, and
  `OriginalInv` that a run past its backup has one or found no file. The lemmas about
  `Only` (what it keeps, in which order, of a concatenation) are induction over sequences.
* `SelectionProofs`: all four properties, for texts of any length over any letters and for any
  row. `ScanInv` says that the matches stand for the occurrences in the lines read so far,
  every one of them, in the order of their lines, and that the line number is one more than
  the newlines before it; `ResultInv` that what is derived is the row, the fallback or a match
  that was picked. `OccurrenceLines` counts the newlines of an occurrence by a bijection with
  those of the selection, `LineScanned` those of a line. The first of the nearest matches is
  then the first of the nearest occurrences, because matches of one line have one range.

Every theorem rests on the assumptions on constants that the component's module names, and
on nothing else. The library's induction theorems take an operator as a parameter, which
the installed provers cannot instantiate. Where a proof needs induction (over the
length of a list, the newlines of a text) it takes a least counterexample instead
(`LeastNatural`, from the well-foundedness of the naturals).

Only checked by TLC: the liveness properties `OwedIsDelivered`, `SendsEnd`, `BoundDaemonDrains` and
`NobodyWaits`, because fairness means ENABLED, of which the prover knows nothing; that they
hold under their fairness is shown on the instances above. `StopsInTime` is a bound on time,
hence an invariant, and proved.

## Not modelled, and what comes next

1. An abstract specification of the socket and the queue that `Rendezvous` implements, as
   `Mailbox` is for `Hub`.
2. The safety half of the liveness properties: what cannot block a send or a drain.
3. Runtime directory (util.rs:35-72): no property of the above depends on it; its mode and
   owner checks are about access rights, not about behaviour.

Out of scope: `find_for_worktree` (no caller), the parts of doctor that list directories and
print, the command line (it dispatches), the serialised types of jsonrpc.rs, packaging.
