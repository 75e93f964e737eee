------------------------------ MODULE Session -------------------------------
(***************************************************************************)
(* How Claude Code finds a daemon and talks to it: the daemon binds a port *)
(* and publishes port and token in a lockfile (daemon/lockfile.rs), the    *)
(* client reads it, connects, proves itself with the token (daemon/ws.rs)  *)
(* and sends JSON-RPC frames (daemon/protocol.rs).  A daemon may be killed *)
(* at any step, its lockfile stays then, and its port may become another   *)
(* daemon's.  What a daemon pushes by itself is in module Hub; of its run, *)
(* module Rendezvous has the part that concerns the socket and the queue.  *)
(*                                                                         *)
(* A definition whose comment starts with "Slip" is not the code's: it is  *)
(* the one that follows it with a mistake, put in its place to see that a  *)
(* property notices.                                                       *)
(***************************************************************************)
EXTENDS Integers, Sequences

CONSTANTS
  Daemons,    \* the processes that run `zcc daemon`, each with a token of its own
  Ports,      \* the ports the system gives out
  Clients,    \* the connections Claude Code makes
  Methods,    \* the methods they call
  MaxFrames,  \* bound on the frames of a connection
  None        \* no daemon, port or id

Torn == "torn"  \* a lockfile that is not all there

ASSUME NoneAssumption == None \notin Daemons \cup Ports \cup Nat
ASSUME TornAssumption == Torn \notin Daemons \cup {None}
ASSUME BoundAssumption == MaxFrames \in Nat

VARIABLES
  lock,   \* lock[p]: whose port and token <p>.lock holds
  tmp,    \* tmp[p]: the same of .<p>.lock.tmp
  at,     \* at[d]: where daemon d is in run()
  port,   \* port[d]: the port it has bound
  stage,  \* stage[c]: where connection c is
  token,  \* token[c]: the daemon whose lockfile the client has read
  peer,   \* peer[c]: the daemon it has reached
  asked,  \* asked[c]: the client has sent its upgrade request
  inbox,  \* inbox[c]: the frames the daemon has not read yet
  sent    \* sent[c]: the replies of the daemon

\* History.
VARIABLES
  frames,  \* frames[c]: the frames of the client
  killed,  \* the daemons that were killed
  stuck    \* the daemons that could not remove their lockfile

fileVars == <<lock, tmp>>
pastVars == <<killed, stuck>>
daemonVars == <<fileVars, at, port, pastVars>>
talkVars == <<inbox, sent, frames>>
linkVars == <<stage, peer, asked, talkVars>>
vars == <<daemonVars, linkVars, token>>

-----------------------------------------------------------------------------
Starting == {"bound", "opened", "written"}

\* Slip: the listener is closed before the lockfile is removed.
ListeningUntilStop(d) == at[d] \in Starting \cup {"serving"}

\* The task that owns the listener runs until the process ends.
Listening(d) == at[d] \in Starting \cup {"serving", "cleanup", "leaving"}

\* The tasks of the daemon run.
Accepting(d) == Listening(d) /\ at[d] \notin Starting

Goto(d, where) == at' = [at EXCEPT ![d] = where]

\* The connections in S end; what was not read or not asked yet is gone.
End(S, how) ==
  LET Reset(f, value) == [c \in Clients |-> IF c \in S THEN value ELSE f[c]]
  IN  /\ stage' = Reset(stage, how)
      /\ peer' = Reset(peer, None)
      /\ asked' = Reset(asked, FALSE)
      /\ inbox' = Reset(inbox, <<>>) /\ sent' = Reset(sent, <<>>) /\ frames' = Reset(frames, <<>>)

\* Connections to d end with the process.
Cut(d) == End({c \in Clients : peer[c] = d}, "ended")

Bind(d) ==
  /\ at[d] = "new"
  /\ \E p \in Ports :
       /\ \A e \in Daemons : Listening(e) => port[e] # p
       /\ port' = [port EXCEPT ![d] = p]
  /\ Goto(d, "bound")
  /\ UNCHANGED <<fileVars, pastVars, linkVars, token>>

\* The socket of the worktree is taken, or a file cannot be written.
Bail(d) ==
  /\ at[d] \in Starting
  /\ Goto(d, "gone")
  /\ Cut(d)
  /\ UNCHANGED <<fileVars, port, pastVars, token>>

\* lockfile::write, in three steps.
OpenTmp(d) ==
  /\ at[d] = "bound"
  /\ Goto(d, "opened")
  /\ tmp' = [tmp EXCEPT ![port[d]] = Torn]
  /\ UNCHANGED <<lock, port, pastVars, linkVars, token>>

WriteTmp(d) ==
  /\ at[d] = "opened"
  /\ Goto(d, "written")
  /\ tmp' = [tmp EXCEPT ![port[d]] = d]
  /\ UNCHANGED <<lock, port, pastVars, linkVars, token>>

Rename(d) ==
  /\ at[d] = "written"
  /\ Goto(d, "serving")
  /\ lock' = [lock EXCEPT ![port[d]] = tmp[port[d]]]
  /\ tmp' = [tmp EXCEPT ![port[d]] = None]
  /\ UNCHANGED <<port, pastVars, linkVars, token>>

\* A signal, or the idle watchdog.
Stop(d) ==
  /\ at[d] = "serving"
  /\ Goto(d, "cleanup")
  /\ UNCHANGED <<fileVars, port, pastVars, linkVars, token>>

\* cleanup: the lockfile is removed, or that fails and is only logged.
Unpublish(d) ==
  /\ at[d] = "cleanup"
  /\ Goto(d, "leaving")
  /\ \/ lock' = [lock EXCEPT ![port[d]] = None] /\ UNCHANGED stuck
     \/ stuck' = stuck \cup {d} /\ UNCHANGED lock
  /\ UNCHANGED <<tmp, port, killed, linkVars, token>>

Exit(d) ==
  /\ at[d] = "leaving"
  /\ Goto(d, "gone")
  /\ Cut(d)
  /\ UNCHANGED <<fileVars, port, pastVars, token>>

Kill(d) ==
  /\ Listening(d)
  /\ Goto(d, "gone")
  /\ killed' = killed \cup {d}
  /\ Cut(d)
  /\ UNCHANGED <<fileVars, port, stuck, token>>

-----------------------------------------------------------------------------
Move(c, where) == stage' = [stage EXCEPT ![c] = where]

\* The client reads a lockfile ...
ReadLock(c) ==
  /\ stage[c] = "idle"
  /\ \E p \in Ports :
       /\ lock[p] \in Daemons
       /\ token' = [token EXCEPT ![c] = lock[p]]
  /\ Move(c, "invited")
  /\ UNCHANGED <<daemonVars, peer, asked, talkVars>>

\* ... and connects to its port, whoever listens there by now.
Connect(c) ==
  LET there == {d \in Daemons : Listening(d) /\ port[d] = port[token[c]]}
  IN  /\ stage[c] = "invited"
      /\ IF there = {}
         THEN End({c}, "ended")
         ELSE /\ Move(c, "queued")
              /\ \E d \in there : peer' = [peer EXCEPT ![c] = d]
              /\ UNCHANGED <<asked, talkVars>>
      /\ UNCHANGED <<daemonVars, token>>

\* The client sends its upgrade request, sooner or later or never.
Ask(c) ==
  /\ stage[c] \in {"queued", "shaking"}
  /\ ~asked[c]
  /\ asked' = [asked EXCEPT ![c] = TRUE]
  /\ UNCHANGED <<daemonVars, stage, peer, token, talkVars>>

\* Slip: the handshake is done in the loop that accepts.
AcceptInTurn(c) ==
  /\ stage[c] = "queued"
  /\ Accepting(peer[c])
  /\ \A e \in Clients : ~(stage[e] = "shaking" /\ peer[e] = peer[c])
  /\ Move(c, "shaking")
  /\ UNCHANGED <<daemonVars, token, peer, asked, talkVars>>

\* serve: each connection gets a task of its own.
Accept(c) ==
  /\ stage[c] = "queued"
  /\ Accepting(peer[c])
  /\ Move(c, "shaking")
  /\ UNCHANGED <<daemonVars, token, peer, asked, talkVars>>

\* Slip: any token will do.
auth_any(c) == TRUE

\* The callback that compares the header with the daemon's own token.
auth_cb(c) == token[c] = peer[c]

Handshake(c) ==
  /\ stage[c] = "shaking"
  /\ asked[c]
  /\ IF auth_cb(c)
     THEN Move(c, "attached") /\ UNCHANGED <<peer, asked, talkVars>>
     ELSE End({c}, "refused")
  /\ UNCHANGED <<daemonVars, token>>

\* A frame is a request, a notification, which has no id, a frame to close, or one that
\* calls for no reply: a ping, binary data, text that does not parse.
FramesFor(id) ==
  {[kind |-> "text", id |-> id, method |-> m] : m \in Methods}
    \cup {[kind |-> k, id |-> None, method |-> "other"] : k \in {"text", "other", "close"}}

SendFrame(c) ==
  /\ stage[c] = "attached"
  /\ Len(frames[c]) < MaxFrames
  /\ \E f \in FramesFor(Len(frames[c]) + 1) :
       /\ inbox' = [inbox EXCEPT ![c] = Append(@, f)]
       /\ frames' = [frames EXCEPT ![c] = Append(@, f)]
  /\ UNCHANGED <<daemonVars, token, stage, peer, asked, sent>>

Outcome(method) == IF method \in {"initialize", "tools/list"} THEN "result" ELSE "error"

\* Slip: a notification is answered like a request.
handle_everything(f) ==
  IF f.kind = "text" THEN <<[id |-> f.id, outcome |-> Outcome(f.method)]>> ELSE <<>>

\* Slip: a method the daemon does not know is not answered.
handle_known(f) ==
  IF f.kind = "text" /\ f.id # None /\ Outcome(f.method) = "result"
  THEN <<[id |-> f.id, outcome |-> "result"]>>
  ELSE <<>>

\* protocol::handle.
handle(f) ==
  IF f.kind = "text" /\ f.id # None
  THEN <<[id |-> f.id, outcome |-> Outcome(f.method)]>>
  ELSE <<>>

\* The branch of the loop that reads.
ReadFrame(c) ==
  /\ stage[c] = "attached"
  /\ inbox[c] # <<>>
  /\ IF Head(inbox[c]).kind = "close"
     THEN End({c}, "ended")
     ELSE /\ inbox' = [inbox EXCEPT ![c] = Tail(@)]
          /\ sent' = [sent EXCEPT ![c] = @ \o handle(Head(inbox[c]))]
          /\ UNCHANGED <<stage, peer, asked, frames>>
  /\ UNCHANGED <<daemonVars, token>>

\* The client goes away, or a read or a write fails.
Drop(c) ==
  /\ peer[c] # None
  /\ End({c}, "ended")
  /\ UNCHANGED <<daemonVars, token>>

-----------------------------------------------------------------------------
Init ==
  /\ lock = [p \in Ports |-> None]
  /\ tmp = [p \in Ports |-> None]
  /\ at = [d \in Daemons |-> "new"]
  /\ port = [d \in Daemons |-> None]
  /\ stage = [c \in Clients |-> "idle"]
  /\ token = [c \in Clients |-> None]
  /\ peer = [c \in Clients |-> None]
  /\ asked = [c \in Clients |-> FALSE]
  /\ inbox = [c \in Clients |-> <<>>]
  /\ sent = [c \in Clients |-> <<>>]
  /\ frames = [c \in Clients |-> <<>>]
  /\ killed = {}
  /\ stuck = {}

Start(d) == OpenTmp(d) \/ WriteTmp(d) \/ Rename(d)
Quit(d) == Unpublish(d) \/ Exit(d)
Served(c) == Accept(c) \/ Handshake(c) \/ ReadFrame(c)

Next ==
  \/ \E d \in Daemons : Bind(d) \/ Bail(d) \/ Start(d) \/ Stop(d) \/ Quit(d) \/ Kill(d)
  \/ \E c \in Clients :
       ReadLock(c) \/ Connect(c) \/ Ask(c) \/ SendFrame(c) \/ Drop(c) \/ Served(c)

Spec == Init /\ [][Next]_vars

\* A daemon waits for nobody on its way to its tasks and out, and the runtime runs
\* each task that can go on.  Of clients one thing is assumed: to answer is to write to
\* a socket, which has no timeout, so an attached client is one that reads its replies
\* or goes away.
Fairness ==
  /\ \A d \in Daemons : WF_vars(Start(d)) /\ WF_vars(Quit(d))
  /\ \A c \in Clients : WF_vars(Served(c))

FairSpec == Spec /\ Fairness

-----------------------------------------------------------------------------
(* Properties.                                                             *)

DaemonStages == Starting \cup {"new", "serving", "cleanup", "leaving", "gone"}
Connected == {"queued", "shaking", "attached"}
LinkStages == Connected \cup {"idle", "invited", "refused", "ended"}
Frames == UNION {FramesFor(i) : i \in 1 .. MaxFrames}
Replies == [id : 1 .. MaxFrames, outcome : {"result", "error"}]

\* Besides types: a connection has a peer, and a peer that listens, as long as it lasts.
TypeOK ==
  /\ lock \in [Ports -> Daemons \cup {None, Torn}]
  /\ tmp \in [Ports -> Daemons \cup {None, Torn}]
  /\ at \in [Daemons -> DaemonStages]
  /\ port \in [Daemons -> Ports \cup {None}]
  /\ stage \in [Clients -> LinkStages]
  /\ token \in [Clients -> Daemons \cup {None}]
  /\ peer \in [Clients -> Daemons \cup {None}]
  /\ \A c \in Clients :
       /\ IF stage[c] \in Connected THEN peer[c] # None /\ Listening(peer[c]) ELSE peer[c] = None
       /\ Len(frames[c]) <= MaxFrames
  /\ asked \in [Clients -> BOOLEAN]
  /\ inbox \in [Clients -> Seq(Frames)]
  /\ sent \in [Clients -> Seq(Replies)]
  /\ frames \in [Clients -> Seq(Frames)]
  /\ killed \cup stuck \subseteq Daemons

\* A client never reads half a lockfile; a daemon that serves is the one its lockfile
\* names, whatever was there before; and none is left behind but by a daemon that was
\* killed or could not remove it, for no other daemon gets the port before it is removed
\* (daemon/lockfile.rs:37-54, daemon/mod.rs:134 and 167-172).
LockfilesAreTrue ==
  /\ \A p \in Ports : lock[p] # Torn
  /\ \A d \in Daemons : at[d] = "serving" => lock[port[d]] = d
  /\ \A p \in Ports, d \in Daemons :
       lock[p] = d => at[d] \in {"serving", "cleanup"} \/ d \in killed \cup stuck

\* A client is attached to no daemon but the one whose lockfile it read, though that
\* may be dead and its port another's, and it is turned away only if that daemon is
\* no longer there (daemon/ws.rs:38-56).
HandshakeIsRight ==
  \A c \in Clients :
    /\ stage[c] = "attached" => peer[c] = token[c]
    /\ stage[c] = "refused" => at[token[c]] = "gone"

\* Of the frames a daemon has read it answers each request, known or not, once and in
\* order, with its id, and nothing else (daemon/protocol.rs:42-88).  The id of a request
\* is its place among the frames.
RepliesInOrder ==
  \A c \in Clients :
    LET read == Len(frames[c]) - Len(inbox[c])
        answered == {sent[c][i].id : i \in 1 .. Len(sent[c])}
    IN  /\ answered = {i \in 1 .. read : frames[c][i].id # None}
        /\ \A i, j \in 1 .. Len(sent[c]) : i < j => sent[c][i].id < sent[c][j].id

\* Nobody is kept waiting, by a silent client beside it least of all: a client that has
\* asked is let in or turned away, and a request is answered, unless the connection
\* ends (daemon/ws.rs:15-35 and 95-127).
NobodyWaits ==
  \A c \in Clients :
    /\ stage[c] \in {"queued", "shaking"} /\ asked[c] ~> stage[c] \notin {"queued", "shaking"}
    /\ inbox[c] # <<>> ~> inbox[c] = <<>> \/ stage[c] # "attached"
=============================================================================
