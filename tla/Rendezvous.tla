----------------------------- MODULE Rendezvous -----------------------------
(***************************************************************************)
(* How the `zcc send` processes of one worktree find the daemon of that    *)
(* worktree, start it when there is none, and hand their payload over:     *)
(* send.rs, fork.rs and the life of a daemon in daemon/mod.rs.  The        *)
(* processes share three things of the file system: the path of the Unix   *)
(* socket, the queue directory and the directory of lockfiles.             *)
(*                                                                         *)
(* A member p of Procs names one `zcc send`, the payload it carries, the   *)
(* queue file it may write and the daemon it may fork: the code creates    *)
(* each of them at most once per send.  What a serving daemon does with a  *)
(* payload in its memory is the business of module Hub.  A definition      *)
(* whose comment starts with "Slip" is not the code's: it is the one that  *)
(* follows it with a mistake, put in its place to see that a property      *)
(* notices.                                                                *)
(***************************************************************************)
EXTENDS Integers, Sequences, FiniteSets

CONSTANTS
  Procs,   \* the sends of a behaviour, and what belongs to each
  None,    \* no process: a path that does not exist, no connection
  Faults   \* what may happen: a process dies ("kill") or is stopped ("stop"), a
           \* fork fails ("fork"), a connection is dropped ("reject"), a write, bind
           \* or removal of a path fails ("disk"), a queue file or the queue
           \* directory cannot be read, dated or emptied ("queue")

ASSUME ProcAssumption == None \notin Procs

ASSUME FaultAssumption == Faults \subseteq {"kill", "stop", "fork", "reject", "disk", "queue"}

VARIABLES
  send,    \* send[p]: where `zcc send` p is
  conn,    \* conn[p]: the daemon p's warm path is connected to
  daemon,  \* daemon[p]: where the daemon forked by p is
  todo,    \* todo[p]: queue files daemon p has listed and not dealt with
  sock,    \* the daemon whose socket the socket path names, dead or alive
  files,   \* the queue directory, in the order of modification times
  torn,    \* queue files created and not written yet
  locks,   \* daemons that have a lockfile
  inbox,   \* inbox[p]: payloads written to connections of daemon p, not handled
  memory   \* memory[p]: payloads accepted by daemon p, in order

\* History.
VARIABLES
  overlapped,  \* two daemons were between their probe and their bind at once
  discarded,   \* payloads whose queue file a daemon dropped as unparsable
  cut,         \* payloads whose connection ended before its line was handled
  left,        \* left[d]: files that daemon d failed to list, to read or to remove
  early,       \* early[d]: files that daemon d listed ahead of an older one
  served,      \* daemons that have published a lockfile
  after        \* after[p]: sends over, and in no inbox, when send p started

procVars == <<send, conn, daemon, todo>>
fileVars == <<sock, files, torn, locks>>
dataVars == <<inbox, memory>>
lossVars == <<discarded, cut, left, early>>
pastVars == <<overlapped, lossVars, served, after>>
vars == <<procVars, fileVars, dataVars, pastVars>>

-----------------------------------------------------------------------------
SendStage == {"idle", "connected", "awaiting", "cold", "created", "queued",
              "done", "failed"}

DaemonStage == {"none", "probe", "unlink", "bind", "scan", "drain", "remove",
                "publish", "serving", "unpublish", "unlinksock", "exit", "dead"}

\* Between a failed probe and the bind.
Window == {"unlink", "bind"}

\* The daemon owns a listener and expects the socket path to name it.
Bound == {"scan", "drain", "remove", "publish", "serving", "unpublish", "unlinksock"}

\* The daemon's listener is open: the kernel completes connections to it.
Listening == Bound \cup {"exit"}

Alive == DaemonStage \ {"none", "dead"}

\* The servers run: they are not stopped while run() cleans up.
Serving == {"serving", "unpublish", "unlinksock", "exit"}

\* UnixStream::connect(sock) succeeds.
Connectable == sock # None /\ daemon[sock] \in Listening

Elems(s) == {s[i] : i \in 1 .. Len(s)}

\* s without its member p, which it holds at most once.
Without(s, p) ==
  IF p \in Elems(s)
  THEN LET i == CHOOSE j \in 1 .. Len(s) : s[j] = p
       IN  SubSeq(s, 1, i - 1) \o SubSeq(s, i + 1, Len(s))
  ELSE s

\* s comes before t in the sequence q.
Precedes(q, s, t) == \E i, j \in 1 .. Len(q) : i < j /\ q[i] = s /\ q[j] = t

\* s holds each of its members once.
Distinct(s) == \A i, j \in 1 .. Len(s) : s[i] = s[j] => i = j

\* A send that is over and whose payload does not wait for a daemon to handle it.
Over(p) == send[p] = "done" /\ \A d \in Procs : p \notin inbox[d]

SendAt(p, from, to) ==
  /\ send[p] = from
  /\ send' = [send EXCEPT ![p] = to]

DaemonAt(d, from, to) ==
  /\ daemon[d] = from
  /\ daemon' = [daemon EXCEPT ![d] = to]

\* The process ends, and with it its connections.
Dies(d) ==
  /\ daemon' = [daemon EXCEPT ![d] = "dead"]
  /\ inbox' = [inbox EXCEPT ![d] = {}]
  /\ cut' = cut \cup inbox[d]

-----------------------------------------------------------------------------
(* zcc send.                                                               *)

\* connect decides between the warm and the cold path.
Connect(p) ==
  /\ IF Connectable
     THEN SendAt(p, "idle", "connected") /\ conn' = [conn EXCEPT ![p] = sock]
     ELSE SendAt(p, "idle", "cold") /\ UNCHANGED conn
  /\ after' = [after EXCEPT ![p] = {q \in Procs : Over(q)}]
  /\ UNCHANGED <<daemon, todo, fileVars, dataVars, overlapped, lossVars, served>>

\* The daemon p is connected to is alive and has not closed the connection.
ConnectionOpen(p) == conn[p] # None /\ daemon[conn[p]] \in Listening

\* The payload goes into an open connection ...
WarmWrite(p) ==
  /\ SendAt(p, "connected", "awaiting")
  /\ ConnectionOpen(p)
  /\ inbox' = [inbox EXCEPT ![conn[p]] = @ \cup {p}]
  /\ UNCHANGED <<conn, daemon, todo, fileVars, memory, pastVars>>

\* Slip: the error of send_payload is dropped.
WarmWriteFailsQuietly(p) ==
  /\ SendAt(p, "connected", "done")
  /\ ~ConnectionOpen(p)
  /\ conn' = [conn EXCEPT ![p] = None]
  /\ UNCHANGED <<daemon, todo, fileVars, dataVars, pastVars>>

\* ... or it has been closed since, and the send fails: the payload is not queued.
WarmWriteFails(p) ==
  /\ SendAt(p, "connected", "failed")
  /\ ~ConnectionOpen(p)
  /\ conn' = [conn EXCEPT ![p] = None]
  /\ UNCHANGED <<daemon, todo, fileVars, dataVars, pastVars>>

\* Slip: the read has no timeout.
WarmEndOnReply(p) ==
  /\ SendAt(p, "awaiting", "done")
  /\ \E d \in Procs : p \in Elems(memory[d])
  /\ conn' = [conn EXCEPT ![p] = None]
  /\ UNCHANGED <<daemon, todo, fileVars, dataVars, pastVars>>

\* A reply, the end of the stream and 500 ms without either all end in Ok.  The
\* reply Err needs a line that does not parse or a notification that does not
\* serialize, and send_payload writes no such line.
WarmEnd(p) ==
  /\ SendAt(p, "awaiting", "done")
  /\ conn' = [conn EXCEPT ![p] = None]
  /\ UNCHANGED <<daemon, todo, fileVars, dataVars, pastVars>>

\* enqueue: the file is created ...
CreateFile(p) ==
  /\ SendAt(p, "cold", "created")
  /\ files' = Append(files, p)
  /\ torn' = torn \cup {p}
  /\ UNCHANGED <<conn, daemon, todo, sock, locks, dataVars, pastVars>>

CreateFileFails(p) ==
  /\ "disk" \in Faults
  /\ SendAt(p, "cold", "failed")
  /\ UNCHANGED <<conn, daemon, todo, fileVars, dataVars, pastVars>>

\* ... then written, which makes it the youngest, unless a daemon has already
\* removed it and the bytes go to a file without a name.
WriteFile(p) ==
  /\ SendAt(p, "created", "queued")
  /\ torn' = torn \ {p}
  /\ files' = IF p \in Elems(files) THEN Append(Without(files, p), p) ELSE files
  /\ UNCHANGED <<conn, daemon, todo, sock, locks, dataVars, pastVars>>

WriteFileFails(p) ==
  /\ "disk" \in Faults
  /\ SendAt(p, "created", "failed")
  /\ UNCHANGED <<conn, daemon, todo, fileVars, dataVars, pastVars>>

\* spawn_daemon: both forks succeed,
Spawn(p) ==
  /\ SendAt(p, "queued", "done")
  /\ daemon' = [daemon EXCEPT ![p] = "probe"]
  /\ UNCHANGED <<conn, todo, fileVars, dataVars, pastVars>>

\* the first one fails, or the second one, which the send does not learn.
SpawnFails(p) ==
  /\ "fork" \in Faults
  /\ SendAt(p, "queued", "failed") \/ SendAt(p, "queued", "done")
  /\ UNCHANGED <<conn, daemon, todo, fileVars, dataVars, pastVars>>

-----------------------------------------------------------------------------
(* zcc daemon, up to the servers.                                          *)

\* Slip: no probe, as if every path were stale.
ProbeSkipped(d) ==
  /\ DaemonAt(d, "probe", "unlink")
  /\ overlapped' = (overlapped \/ \E e \in Procs : daemon[e] \in Window)
  /\ UNCHANGED <<send, conn, todo, fileVars, dataVars, lossVars, served, after>>

\* Slip: the daemon that finds another one runs the clean-up.
ProbeThenCleanup(d) ==
  /\ IF Connectable THEN DaemonAt(d, "probe", "unpublish") ELSE DaemonAt(d, "probe", "unlink")
  /\ overlapped' = (overlapped \/ (~Connectable /\ \E e \in Procs : daemon[e] \in Window))
  /\ UNCHANGED <<send, conn, todo, fileVars, dataVars, lossVars, served, after>>

\* The daemon bails out when somebody answers at the socket path.
Probe(d) ==
  /\ IF Connectable THEN DaemonAt(d, "probe", "dead") ELSE DaemonAt(d, "probe", "unlink")
  /\ overlapped' = (overlapped \/ (~Connectable /\ \E e \in Procs : daemon[e] \in Window))
  /\ UNCHANGED <<send, conn, todo, fileVars, dataVars, lossVars, served, after>>

\* A path that remove_file may fail to remove.
Removed(path) == path' = None \/ ("disk" \in Faults /\ UNCHANGED path)

\* remove_file of the path, whatever it names by now; an error is ignored.
Unlink(d) ==
  /\ DaemonAt(d, "unlink", "bind")
  /\ Removed(sock)
  /\ UNCHANGED <<send, conn, todo, files, torn, locks, dataVars, pastVars>>

\* bind fails on a path that exists.
Bind(d) ==
  /\ IF sock = None
     THEN DaemonAt(d, "bind", "scan") /\ sock' = d
     ELSE DaemonAt(d, "bind", "dead") /\ UNCHANGED sock
  /\ UNCHANGED <<send, conn, todo, files, torn, locks, dataVars, pastVars>>

\* bind, or the chmod of the path it has made, fails for another reason.
BindFails(d) ==
  /\ "disk" \in Faults
  /\ DaemonAt(d, "bind", "dead")
  /\ sock' = sock \/ (sock = None /\ sock' = d)
  /\ UNCHANGED <<send, conn, todo, files, torn, locks, dataVars, pastVars>>

\* Slip: youngest first.
ScanYoungestFirst(d) ==
  /\ DaemonAt(d, "scan", "drain")
  /\ todo' = [todo EXCEPT ![d] = [i \in 1 .. Len(files) |-> files[Len(files) + 1 - i]]]
  /\ UNCHANGED <<send, conn, fileVars, dataVars, pastVars>>

\* drain_queue_dir lists the directory and sorts it by modification time.  It
\* lists nothing when the directory cannot be read, and what it has by then when
\* reading an entry fails; files whose time cannot be read count as the oldest, in
\* the order of the directory, so that any order can come of it.
Scan(d) ==
  /\ DaemonAt(d, "scan", "drain")
  /\ \E n \in 0 .. Len(files) : \E l \in [1 .. n -> Elems(files)] :
       /\ l = files \/ ("queue" \in Faults /\ Distinct(l))
       /\ todo' = [todo EXCEPT ![d] = l]
       /\ left' = [left EXCEPT ![d] = Elems(files) \ Elems(l)]
       /\ early' = [early EXCEPT ![d] =
            {p \in Procs : \E q \in Procs : Precedes(l, p, q) /\ Precedes(files, q, p)}]
  /\ UNCHANGED <<send, conn, fileVars, dataVars, overlapped, discarded, cut, served, after>>

\* The next listed file has gone, or cannot be read and stays.
DrainSkip(d) ==
  /\ daemon[d] = "drain"
  /\ todo[d] # <<>>
  /\ IF Head(todo[d]) \in Elems(files)
     THEN "queue" \in Faults /\ left' = [left EXCEPT ![d] = @ \cup {Head(todo[d])}]
     ELSE UNCHANGED left
  /\ todo' = [todo EXCEPT ![d] = Tail(@)]
  /\ UNCHANGED <<send, conn, daemon, fileVars, dataVars,
                 overlapped, discarded, cut, early, served, after>>

\* The next listed file is read: a whole one joins memory, a torn one does not
\* parse; either is removed next.
DrainRead(d) ==
  LET f == Head(todo[d])
  IN  /\ DaemonAt(d, "drain", "remove")
      /\ todo[d] # <<>>
      /\ f \in Elems(files)
      /\ IF f \in torn
         THEN discarded' = discarded \cup {f} /\ UNCHANGED memory
         ELSE memory' = [memory EXCEPT ![d] = Append(@, f)] /\ UNCHANGED discarded
      /\ UNCHANGED <<send, conn, todo, fileVars, inbox,
                     overlapped, cut, left, early, served, after>>

\* Slip: a replayed file stays.
DrainRemoveNothing(d) ==
  /\ DaemonAt(d, "remove", "drain")
  /\ todo' = [todo EXCEPT ![d] = Tail(@)]
  /\ UNCHANGED <<send, conn, fileVars, dataVars, pastVars>>

\* The file that was read is removed, whatever has become of it, or its removal
\* fails, which is ignored.
DrainRemove(d) ==
  LET f == Head(todo[d])
  IN  /\ DaemonAt(d, "remove", "drain")
      /\ \/ files' = Without(files, f) /\ torn' = torn \ {f} /\ UNCHANGED left
         \/ /\ "queue" \in Faults /\ f \in Elems(files)
            /\ left' = [left EXCEPT ![d] = @ \cup {f}]
            /\ UNCHANGED <<files, torn>>
      /\ todo' = [todo EXCEPT ![d] = Tail(@)]
      /\ UNCHANGED <<send, conn, sock, locks, dataVars,
                     overlapped, discarded, cut, early, served, after>>

\* Slip: the replay is not awaited.
DrainEndEarly(d) ==
  /\ DaemonAt(d, "drain", "publish")
  /\ UNCHANGED <<send, conn, todo, fileVars, dataVars, pastVars>>

DrainEnd(d) ==
  /\ todo[d] = <<>>
  /\ DaemonAt(d, "drain", "publish")
  /\ UNCHANGED <<send, conn, todo, fileVars, dataVars, pastVars>>

\* lockfile::write, then the servers start.
Publish(d) ==
  /\ DaemonAt(d, "publish", "serving")
  /\ locks' = locks \cup {d}
  /\ served' = served \cup {d}
  /\ UNCHANGED <<send, conn, todo, sock, files, torn, dataVars, overlapped, lossVars, after>>

\* The error leaves run() at once: no cleanup.
PublishFails(d) ==
  /\ "disk" \in Faults
  /\ daemon[d] = "publish"
  /\ Dies(d)
  /\ UNCHANGED <<send, conn, todo, fileVars, memory,
                 overlapped, discarded, left, early, served, after>>

-----------------------------------------------------------------------------
(* zcc daemon, serving and stopping.                                       *)

\* An IPC connection's line is handled (IpcPush of module Hub).
Handle(d, p) ==
  /\ daemon[d] \in Serving
  /\ p \in inbox[d]
  /\ inbox' = [inbox EXCEPT ![d] = @ \ {p}]
  /\ memory' = [memory EXCEPT ![d] = Append(@, p)]
  /\ UNCHANGED <<procVars, fileVars, pastVars>>

\* An IPC connection is not accepted, or the credentials of its peer or a line
\* of it cannot be read: it is dropped, with the payload if that was written.
Reject(d, p) ==
  /\ "reject" \in Faults
  /\ daemon[d] \in Serving
  /\ conn[p] = d \/ p \in inbox[d]
  /\ conn' = IF conn[p] = d THEN [conn EXCEPT ![p] = None] ELSE conn
  /\ inbox' = [inbox EXCEPT ![d] = @ \ {p}]
  /\ cut' = cut \cup (inbox[d] \cap {p})
  /\ UNCHANGED <<send, daemon, todo, fileVars, memory,
                 overlapped, discarded, left, early, served, after>>

\* A signal, or the idle watchdog.
Stop(d) ==
  /\ "stop" \in Faults
  /\ DaemonAt(d, "serving", "unpublish")
  /\ UNCHANGED <<send, conn, todo, fileVars, dataVars, pastVars>>

\* cleanup: the lockfile, then the socket path, whatever it names by now.  An
\* error of either removal is ignored.
Unpublish(d) ==
  /\ DaemonAt(d, "unpublish", "unlinksock")
  /\ locks' = locks \ {d} \/ ("disk" \in Faults /\ UNCHANGED locks)
  /\ UNCHANGED <<send, conn, todo, sock, files, torn, dataVars, pastVars>>

UnlinkSock(d) ==
  /\ DaemonAt(d, "unlinksock", "exit")
  /\ Removed(sock)
  /\ UNCHANGED <<send, conn, todo, files, torn, locks, dataVars, pastVars>>

Exit(d) ==
  /\ daemon[d] = "exit"
  /\ Dies(d)
  /\ UNCHANGED <<send, conn, todo, fileVars, memory,
                 overlapped, discarded, left, early, served, after>>

\* A crash, or a signal before the handlers of shutdown_signal are installed.
Kill(d) ==
  /\ "kill" \in Faults
  /\ daemon[d] \in Alive
  /\ Dies(d)
  /\ todo' = [todo EXCEPT ![d] = <<>>]
  /\ UNCHANGED <<send, conn, fileVars, memory,
                 overlapped, discarded, left, early, served, after>>

-----------------------------------------------------------------------------
Init ==
  /\ send = [p \in Procs |-> "idle"]
  /\ conn = [p \in Procs |-> None]
  /\ daemon = [p \in Procs |-> "none"]
  /\ todo = [p \in Procs |-> <<>>]
  /\ sock = None
  /\ files = <<>>
  /\ torn = {}
  /\ locks = {}
  /\ inbox = [p \in Procs |-> {}]
  /\ memory = [p \in Procs |-> <<>>]
  /\ overlapped = FALSE
  /\ discarded = {}
  /\ cut = {}
  /\ left = [p \in Procs |-> {}]
  /\ early = [p \in Procs |-> {}]
  /\ served = {}
  /\ after = [p \in Procs |-> {}]

\* Steps a send takes by itself once it has started.
SendRuns(p) ==
  \/ WarmWrite(p) \/ WarmWriteFails(p) \/ WarmEnd(p)
  \/ CreateFile(p) \/ CreateFileFails(p) \/ WriteFile(p) \/ WriteFileFails(p)
  \/ Spawn(p) \/ SpawnFails(p)

\* Steps a daemon takes by itself.
DaemonRuns(d) ==
  \/ Probe(d) \/ Unlink(d) \/ Bind(d) \/ BindFails(d)
  \/ Scan(d) \/ DrainSkip(d) \/ DrainRead(d) \/ DrainRemove(d) \/ DrainEnd(d)
  \/ Publish(d) \/ PublishFails(d)
  \/ Unpublish(d) \/ UnlinkSock(d) \/ Exit(d)

Next ==
  \E p \in Procs :
    \/ Connect(p) \/ SendRuns(p)
    \/ DaemonRuns(p) \/ Stop(p) \/ Kill(p)
    \/ \E q \in Procs : Handle(p, q) \/ Reject(p, q)

Spec == Init /\ [][Next]_vars

(* Processes that run keep running and a live daemon handles its lines.    *)
(* Nobody has to send, to stop or kill anything, or to reject a line.      *)
Fairness ==
  \A p \in Procs :
    /\ WF_vars(SendRuns(p))
    /\ WF_vars(DaemonRuns(p))
    /\ WF_vars(\E q \in Procs : Handle(p, q))

FairSpec == Spec /\ Fairness

-----------------------------------------------------------------------------
(* Properties.                                                             *)

TypeOK ==
  /\ send \in [Procs -> SendStage]
  /\ conn \in [Procs -> Procs \cup {None}]
  /\ daemon \in [Procs -> DaemonStage]
  /\ todo \in [Procs -> Seq(Procs)]
  /\ \A d \in Procs : todo[d] # <<>> => daemon[d] \in {"drain", "remove"}
  /\ sock \in Procs \cup {None}
  /\ files \in Seq(Procs)
  /\ torn \subseteq Procs
  /\ locks \subseteq Procs
  /\ inbox \in [Procs -> SUBSET Procs]
  /\ memory \in [Procs -> Seq(Procs)]
  /\ overlapped \in BOOLEAN
  /\ discarded \subseteq Procs
  /\ cut \subseteq Procs
  /\ left \in [Procs -> SUBSET Procs]
  /\ early \in [Procs -> SUBSET Procs]
  /\ served \subseteq Procs
  /\ after \in [Procs -> SUBSET Procs]

\* As long as no two daemons have been between probe and bind at the same time,
\* one daemon at most is bound and the socket path is its own, through any
\* number of stale paths, crashes and clean-ups (mod.rs:60-80 and 167-174).
OneOwner ==
  ~overlapped =>
    /\ \A d, e \in Procs : daemon[d] \in Bound /\ daemon[e] \in Bound => d = e
    /\ \A d \in Procs : daemon[d] \in Bound => sock = d

\* As long as that holds, a payload that reaches the memory of two daemons that
\* Claude could find is one whose file the first of them failed to remove: its
\* reader removes a file before it publishes a lockfile, and goes on when that
\* fails (mod.rs:90-92, 222 and 237).
AtMostOnce ==
  ~overlapped =>
    \A d, e \in served :
      d # e => Elems(memory[d]) \cap Elems(memory[e]) \subseteq left[d] \cup left[e]

\* The payload of a send that says Ok is whole on disk, in the connection of a
\* live daemon or accepted by a daemon.  There are two exceptions, no more: its
\* file was read before it was written (mod.rs:218-224), or its connection ended
\* before the daemon handled the line, which the send takes for the end of an
\* answer (send.rs:101-120, ipc.rs:66-86).
OnlyKnownLosses ==
  \A p \in Procs :
    send[p] = "done" /\ p \notin discarded \cup cut =>
      \/ p \in Elems(files) \ torn
      \/ \E d \in Procs : p \in inbox[d] /\ daemon[d] \in Listening
      \/ \E d \in Procs : p \in Elems(memory[d])

\* Two payloads accepted by the same daemon are in the order in which they were
\* sent, whichever of the two paths each took (mod.rs:176-208).  There are two
\* exceptions: a send that gave up on its answer and was still unhandled when the
\* other one started may be overtaken (send.rs:91-110, ipc.rs:87-92), and a file
\* whose time could not be read goes first (mod.rs:201-208).
SentOrderIsKept ==
  \A d, p, q \in Procs :
    q \in after[p] /\ {p, q} \subseteq Elems(memory[d]) /\ p \notin early[d] =>
      Precedes(memory[d], q, p)

\* Stated by mod.rs:60-64, and not so: of the daemons of a fast double-send one
\* at most gets as far as publishing.  Two daemons can both find the path dead,
\* and the second one then removes the socket the first has just bound.
LoserNeverPublishes ==
  \A d, e \in Procs : daemon[d] = "serving" /\ daemon[e] = "serving" => d = e

\* Stated by util.rs:79-81, and not so: queue files are atomic.  A file can be
\* listed, read and removed between its creation and its write.
QueueFilesAreAtomic ==
  \A p \in Procs : send[p] = "done" => p \notin discarded

\* Stated by send.rs:50-52, and not so: what a send has queued is drained by a
\* daemon that starts.  A file written after the only daemon has listed the
\* directory waits for the next one, and the daemon its send forks bails out.
QueuedIsDrained ==
  \A p \in Procs : send[p] = "done" /\ p \in Elems(files) ~> p \notin Elems(files)

\* Every send that has started ends: a daemon that does not answer costs it a
\* timeout, no more (send.rs:91-110).
SendsEnd ==
  \A p \in Procs : send[p] # "idle" ~> send[p] \in {"done", "failed"}

\* Every file that is there when a daemon has bound is gone in the end, unless the
\* daemon dies, or it could not list, read or remove the file: then the file stays
\* and the daemon serves without it (mod.rs:90 and 179-238).
BoundDaemonDrains ==
  \A d, p \in Procs :
    daemon[d] = "scan" /\ p \in Elems(files)
      ~> p \notin Elems(files) \/ p \in left[d] \/ daemon[d] = "dead"
=============================================================================
