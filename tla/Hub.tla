--------------------------------- MODULE Hub ---------------------------------
(***************************************************************************)
(* The memory of one running `zcc daemon` (DaemonState in                  *)
(* daemon/mod.rs) and the tasks that share it: the replay of the on-disk   *)
(* queue at startup, one task per IPC connection (daemon/ipc.rs) and one   *)
(* task per websocket connection (daemon/ws.rs).  Tasks run on a           *)
(* multi-threaded runtime, so any two of them interleave at every access   *)
(* to shared state: the mutex around `pending`, the broadcast channel and  *)
(* the mutex around `connected`.                                           *)
(*                                                                         *)
(* A payload is named by its rank in the order in which payloads were      *)
(* pushed into `pending`: file names and line ranges play no part here.    *)
(* The daemon's end (signal, idle timeout, crash) only cuts a behaviour    *)
(* short and is the business of module Rendezvous.                         *)
(***************************************************************************)
EXTENDS Integers, Sequences, FiniteSets

CONSTANTS
  Clients,       \* websocket connections, each used once
  Handlers,      \* IPC connections, each carrying any number of lines
  Free,          \* "no task holds the pending mutex"
  PendingCap,    \* PENDING_CAP
  BroadcastCap,  \* BROADCAST_CAP
  MaxPayloads    \* bound on the payloads of a behaviour

ASSUME CapAssumption ==
  /\ PendingCap \in Nat \ {0}
  /\ BroadcastCap \in Nat \ {0}
  /\ MaxPayloads \in Nat

ASSUME TaskAssumption ==
  /\ IsFiniteSet(Clients)
  /\ Clients \cap Handlers = {}
  /\ Free \notin Clients \cup Handlers

VARIABLES
  phase,      \* "booting" while the queue directory is replayed, then "serving"
  pending,    \* DaemonState.pending
  holder,     \* the task that holds the pending mutex, or Free
  chan,       \* every value the broadcast channel has taken, in order
  connected,  \* DaemonState.connected
  ws,         \* ws[c]: where the handler of websocket connection c is
  cursor,     \* cursor[c]: how far c's broadcast receiver has got in chan
  ipc,        \* ipc[h]: where the handler of IPC connection h is
  seen,       \* seen[h]: whether h counted a receiver for the reply it prepares
  mine        \* mine[h]: the payload h prepares a reply to, 0 for none

\* History: what happened to each payload.
VARIABLES
  accepted,   \* how many payloads have been pushed into pending
  evicted,    \* payloads popped because pending was over its capacity
  unheard,    \* payloads given to tx.send when no receiver was left
  got,        \* got[c]: payloads written to c's websocket, in order
  missed,     \* missed[c]: payloads c's receiver lagged behind
  floor,      \* floor[c]: newest payload already out of pending at c's subscribe
  since       \* since[c]: newest payload at c's subscribe

hubVars == <<pending, holder, chan, connected>>
wsVars == <<ws, cursor, got, missed, floor, since>>
ipcVars == <<ipc, seen, mine>>
fateVars == <<accepted, evicted, unheard>>
vars == <<phase, hubVars, wsVars, ipcVars, fateVars>>

-----------------------------------------------------------------------------
(* Positions of a websocket handler.                                       *)

\* The handler owns a broadcast receiver.
HasReceiver == {"subscribed", "loop", "closing", "uncounted"}

\* The handler is counted in `connected`.
IsCounted == {"counted", "subscribed", "loop", "closing"}

\* The handler still serves its client.
IsAttached == {"subscribed", "loop"}

IpcStage == {"reading", "counting", "draining", "replying"}

WsStage == {"out", "upgraded", "counted", "subscribed", "loop", "closing",
            "uncounted", "gone"}

Subscribers == {c \in Clients : ws[c] \in HasReceiver}

\* The elements of a sequence.
Elems(s) == {s[i] : i \in 1 .. Len(s)}

\* No value occurs twice in a sequence.
NoRepeats(s) == \A i, j \in 1 .. Len(s) : s[i] = s[j] => i = j

\* What c's receiver can still take from the channel, lag aside.
Ahead(c) == {chan[i] : i \in cursor[c] + 1 .. Len(chan)}

-----------------------------------------------------------------------------
(* The pending buffer and the channel.  A definition whose comment starts  *)
(* with "Slip" is not the code's: it is the one that follows it with a     *)
(* mistake, put in its place to see that a property notices.               *)

\* Slip: the eviction loop keeps one element too many.
CappedLate(s) ==
  IF Len(s) > PendingCap + 1 THEN SubSeq(s, Len(s) - PendingCap, Len(s)) ELSE s

\* Slip: no eviction.
CappedNever(s) == s

\* A buffer after `while len > PENDING_CAP { pop_front }`, and what it lost.
Capped(s) ==
  IF Len(s) > PendingCap THEN SubSeq(s, Len(s) - PendingCap + 1, Len(s)) ELSE s

Overflow(s) == {s[i] : i \in 1 .. Len(s) - PendingCap}

\* Slip: push_front.
PushFront ==
  LET s == <<accepted + 1>> \o pending
  IN  /\ accepted < MaxPayloads
      /\ accepted' = accepted + 1
      /\ pending' = Capped(s)
      /\ evicted' = evicted \cup Overflow(s)

\* push_back of a new payload, then the eviction loop.
Push ==
  LET s == Append(pending, accepted + 1)
  IN  /\ accepted < MaxPayloads
      /\ accepted' = accepted + 1
      /\ pending' = Capped(s)
      /\ evicted' = evicted \cup Overflow(s)

\* tx.send: the channel takes the value iff it has a receiver; the error is ignored.
TxSend(m) ==
  IF Subscribers # {}
  THEN chan' = Append(chan, m) /\ UNCHANGED unheard
  ELSE unheard' = unheard \cup {m} /\ UNCHANGED chan

\* Slip: the loop iterates over the buffer and forgets to empty it.
DrainOneCopying(t) ==
  /\ holder = t
  /\ TxSend(Head(pending))
  /\ pending' = pending
  /\ holder' = Free

\* One turn of `for msg in pending.drain(..) { tx.send(msg) }` by the mutex's
\* holder t, which unlocks when nothing is left.
DrainOne(t) ==
  /\ holder = t
  /\ TxSend(Head(pending))
  /\ pending' = Tail(pending)
  /\ holder' = IF Len(pending) = 1 THEN Free ELSE t

-----------------------------------------------------------------------------
(* Startup: drain_queue_dir runs before any server task exists.            *)

\* A queue file parses to a selection, which joins pending.
ReplayFile ==
  /\ phase = "booting"
  /\ Push
  /\ UNCHANGED <<phase, holder, chan, connected, wsVars, ipcVars, unheard>>

Serve ==
  /\ phase = "booting"
  /\ phase' = "serving"
  /\ UNCHANGED <<hubVars, wsVars, ipcVars, fateVars>>

-----------------------------------------------------------------------------
(* An IPC connection.                                                      *)

\* A line holding a selection: lock pending, push, evict.
IpcPush(h) ==
  /\ phase = "serving"
  /\ ipc[h] = "reading"
  /\ holder = Free
  /\ Push
  /\ holder' = h
  /\ ipc' = [ipc EXCEPT ![h] = "counting"]
  /\ mine' = [mine EXCEPT ![h] = accepted + 1]
  /\ UNCHANGED <<phase, chan, connected, wsVars, seen, unheard>>

\* Slip: the count is compared with one.
IpcCountOne(h) ==
  /\ ipc[h] = "counting"
  /\ seen' = [seen EXCEPT ![h] = Subscribers # {}]
  /\ IF Cardinality(Subscribers) > 1
     THEN ipc' = [ipc EXCEPT ![h] = "draining"] /\ UNCHANGED holder
     ELSE ipc' = [ipc EXCEPT ![h] = "replying"] /\ holder' = Free
  /\ UNCHANGED <<phase, pending, chan, connected, wsVars, mine, fateVars>>

\* Slip: the drain does not depend on the count.
IpcCountIgnored(h) ==
  /\ ipc[h] = "counting"
  /\ seen' = [seen EXCEPT ![h] = Subscribers # {}]
  /\ ipc' = [ipc EXCEPT ![h] = "draining"]
  /\ UNCHANGED <<phase, hubVars, wsVars, mine, fateVars>>

\* Still locked, read the receiver count: with receivers the handler goes on
\* to drain, with none it unlocks and leaves the payload where it is.
IpcCount(h) ==
  /\ ipc[h] = "counting"
  /\ seen' = [seen EXCEPT ![h] = Subscribers # {}]
  /\ IF Subscribers # {}
     THEN ipc' = [ipc EXCEPT ![h] = "draining"] /\ UNCHANGED holder
     ELSE ipc' = [ipc EXCEPT ![h] = "replying"] /\ holder' = Free
  /\ UNCHANGED <<phase, pending, chan, connected, wsVars, mine, fateVars>>

IpcDrain(h) ==
  /\ ipc[h] = "draining"
  /\ DrainOne(h)
  /\ ipc' = IF Len(pending) = 1 THEN [ipc EXCEPT ![h] = "replying"] ELSE ipc
  /\ UNCHANGED <<phase, connected, wsVars, seen, mine, accepted, evicted>>

\* A line that is a ping: only the receiver count is read.
IpcPing(h) ==
  /\ phase = "serving"
  /\ ipc[h] = "reading"
  /\ ipc' = [ipc EXCEPT ![h] = "replying"]
  /\ seen' = [seen EXCEPT ![h] = Subscribers # {}]
  /\ UNCHANGED <<phase, hubVars, wsVars, mine, fateVars>>

IpcReply(h) ==
  /\ ipc[h] = "replying"
  /\ ipc' = [ipc EXCEPT ![h] = "reading"]
  /\ seen' = [seen EXCEPT ![h] = FALSE]
  /\ mine' = [mine EXCEPT ![h] = 0]
  /\ UNCHANGED <<phase, hubVars, wsVars, fateVars>>

-----------------------------------------------------------------------------
(* A websocket connection.  One whose handshake is refused changes nothing *)
(* and has no action.                                                      *)

\* The step of connection c from one position to the next.
Goto(c, from, to) ==
  /\ ws[c] = from
  /\ ws' = [ws EXCEPT ![c] = to]

WsAccept(c) ==
  /\ phase = "serving"
  /\ Goto(c, "out", "upgraded")
  /\ UNCHANGED <<phase, hubVars, cursor, got, missed, floor, since, ipcVars, fateVars>>

WsCount(c) ==
  /\ Goto(c, "upgraded", "counted")
  /\ connected' = connected + 1
  /\ UNCHANGED <<phase, pending, holder, chan, cursor, got, missed, floor, since,
                 ipcVars, fateVars>>

\* Slip: the replay of the pending buffer is left out.
WsSubscribeOnly(c) ==
  /\ Goto(c, "counted", "loop")
  /\ cursor' = [cursor EXCEPT ![c] = Len(chan)]
  /\ floor' = [floor EXCEPT ![c] = accepted - Len(pending)]
  /\ since' = [since EXCEPT ![c] = accepted]
  /\ UNCHANGED <<phase, hubVars, got, missed, ipcVars, fateVars>>

\* tx.subscribe: the receiver sees what is sent from now on.
WsSubscribe(c) ==
  /\ Goto(c, "counted", "subscribed")
  /\ cursor' = [cursor EXCEPT ![c] = Len(chan)]
  /\ floor' = [floor EXCEPT ![c] = accepted - Len(pending)]
  /\ since' = [since EXCEPT ![c] = accepted]
  /\ UNCHANGED <<phase, hubVars, got, missed, ipcVars, fateVars>>

\* The handler locks pending; an empty buffer is unlocked at once.
WsReplayBegin(c) ==
  /\ ws[c] = "subscribed"
  /\ holder = Free
  /\ IF pending = <<>>
     THEN ws' = [ws EXCEPT ![c] = "loop"] /\ UNCHANGED holder
     ELSE holder' = c /\ UNCHANGED ws
  /\ UNCHANGED <<phase, pending, chan, connected, cursor, got, missed, floor, since,
                 ipcVars, fateVars>>

WsReplay(c) ==
  /\ DrainOne(c)
  /\ ws' = IF Len(pending) = 1 THEN [ws EXCEPT ![c] = "loop"] ELSE ws
  /\ UNCHANGED <<phase, connected, cursor, got, missed, floor, since, ipcVars,
                 accepted, evicted>>

\* rx.recv finds that the channel has dropped values this receiver had not
\* taken: Lagged is logged and the receiver jumps to the oldest value kept.
WsLagged(c) ==
  LET oldest == Len(chan) - BroadcastCap
  IN  /\ ws[c] = "loop"
      /\ cursor[c] < oldest
      /\ missed' = [missed EXCEPT ![c] = @ \cup {chan[i] : i \in cursor[c] + 1 .. oldest}]
      /\ cursor' = [cursor EXCEPT ![c] = oldest]
      /\ UNCHANGED <<phase, hubVars, ws, got, floor, since, ipcVars, fateVars>>

\* rx.recv takes the next value ...
Take(c) ==
  /\ ws[c] = "loop"
  /\ cursor[c] < Len(chan)
  /\ cursor[c] >= Len(chan) - BroadcastCap
  /\ cursor' = [cursor EXCEPT ![c] = @ + 1]

\* ... and it is written to the websocket,
WsDeliver(c) ==
  /\ Take(c)
  /\ got' = [got EXCEPT ![c] = Append(@, chan[cursor[c] + 1])]
  /\ UNCHANGED <<phase, hubVars, ws, missed, floor, since, ipcVars, fateVars>>

\* ... or the write fails and the handler leaves its loop.
WsWriteFails(c) ==
  /\ Take(c)
  /\ ws' = [ws EXCEPT ![c] = "closing"]
  /\ UNCHANGED <<phase, hubVars, got, missed, floor, since, ipcVars, fateVars>>

\* The client closes, its stream ends or fails, or a ping or a protocol reply
\* cannot be written.
WsClose(c) ==
  /\ Goto(c, "loop", "closing")
  /\ UNCHANGED <<phase, hubVars, cursor, got, missed, floor, since, ipcVars, fateVars>>

\* Slip: the counter is decremented twice.
WsUncountTwice(c) ==
  /\ Goto(c, "closing", "uncounted")
  /\ connected' = IF connected < 2 THEN 0 ELSE connected - 2
  /\ UNCHANGED <<phase, pending, holder, chan, cursor, got, missed, floor, since,
                 ipcVars, fateVars>>

\* saturating_sub.
WsUncount(c) ==
  /\ Goto(c, "closing", "uncounted")
  /\ connected' = IF connected = 0 THEN 0 ELSE connected - 1
  /\ UNCHANGED <<phase, pending, holder, chan, cursor, got, missed, floor, since,
                 ipcVars, fateVars>>

\* The handler returns: only now is its receiver dropped.
WsReturn(c) ==
  /\ Goto(c, "uncounted", "gone")
  /\ UNCHANGED <<phase, hubVars, cursor, got, missed, floor, since, ipcVars, fateVars>>

-----------------------------------------------------------------------------
Init ==
  /\ phase = "booting"
  /\ pending = <<>>
  /\ holder = Free
  /\ chan = <<>>
  /\ connected = 0
  /\ ws = [c \in Clients |-> "out"]
  /\ cursor = [c \in Clients |-> 0]
  /\ ipc = [h \in Handlers |-> "reading"]
  /\ seen = [h \in Handlers |-> FALSE]
  /\ mine = [h \in Handlers |-> 0]
  /\ accepted = 0
  /\ evicted = {}
  /\ unheard = {}
  /\ got = [c \in Clients |-> <<>>]
  /\ missed = [c \in Clients |-> {}]
  /\ floor = [c \in Clients |-> 0]
  /\ since = [c \in Clients |-> 0]

IpcNext(h) ==
  IpcPush(h) \/ IpcCount(h) \/ IpcDrain(h) \/ IpcPing(h) \/ IpcReply(h)

WsNext(c) ==
  \/ WsAccept(c) \/ WsCount(c) \/ WsSubscribe(c)
  \/ WsReplayBegin(c) \/ WsReplay(c)
  \/ WsLagged(c) \/ WsDeliver(c) \/ WsWriteFails(c)
  \/ WsClose(c) \/ WsUncount(c) \/ WsReturn(c)

Next ==
  \/ ReplayFile
  \/ Serve
  \/ \E h \in Handlers : IpcNext(h)
  \/ \E c \in Clients : WsNext(c)

Spec == Init /\ [][Next]_vars

(* The runtime keeps polling every ready task, so each step a task can     *)
(* take by itself is weakly fair.  tokio's Mutex hands the lock over in    *)
(* FIFO order, so a handler that wants it gets it although others keep     *)
(* taking it: strong fairness.  Connections, lines, closings and the       *)
(* queue's files come from outside and are not fair.                       *)
Fairness ==
  /\ WF_vars(Serve)
  /\ \A h \in Handlers :
       /\ WF_vars(IpcCount(h)) /\ WF_vars(IpcDrain(h)) /\ WF_vars(IpcReply(h))
  /\ \A c \in Clients :
       /\ WF_vars(WsCount(c)) /\ WF_vars(WsSubscribe(c))
       /\ SF_vars(WsReplayBegin(c)) /\ WF_vars(WsReplay(c))
       /\ WF_vars(WsLagged(c) \/ WsDeliver(c) \/ WsWriteFails(c))
       /\ WF_vars(WsUncount(c)) /\ WF_vars(WsReturn(c))

FairSpec == Spec /\ Fairness

-----------------------------------------------------------------------------
(* Properties.                                                             *)

TypeOK ==
  /\ phase \in {"booting", "serving"}
  /\ pending \in Seq(Nat)
  /\ Len(pending) <= PendingCap
  /\ holder \in Clients \cup Handlers \cup {Free}
  /\ chan \in Seq(Nat)
  /\ connected \in Nat
  /\ ws \in [Clients -> WsStage]
  /\ cursor \in [Clients -> Nat]
  /\ ipc \in [Handlers -> IpcStage]
  /\ seen \in [Handlers -> BOOLEAN]
  /\ mine \in [Handlers -> Nat]
  /\ accepted \in Nat
  /\ evicted \subseteq 1 .. accepted
  /\ unheard \subseteq 1 .. accepted
  /\ got \in [Clients -> Seq(Nat)]
  /\ missed \in [Clients -> SUBSET (1 .. accepted)]
  /\ floor \in [Clients -> Nat]
  /\ since \in [Clients -> Nat]

\* Every accepted payload has exactly one fate: it waits in pending, was sent
\* on the channel, was evicted, or was sent to nobody.  None is duplicated and
\* none disappears, whatever the handlers' interleaving (the drain loops of
\* ipc.rs:139-143 and ws.rs:74-77 share one buffer).
SettledOnce ==
  LET fates == <<Elems(pending), Elems(chan), evicted, unheard>>
  IN  /\ UNION {fates[i] : i \in 1 .. 4} = 1 .. accepted
      /\ \A i, j \in 1 .. 4 : i # j => fates[i] \cap fates[j] = {}
      /\ NoRepeats(pending)
      /\ NoRepeats(chan)

\* While a client is past its replay and still has its receiver, an unlocked
\* buffer is empty: no payload waits for a keystroke that may never come
\* (ws.rs:67-72, subscribe before drain; ipc.rs:138, count after push).
NoStrandedBacklog ==
  (holder = Free /\ \E c \in Clients : ws[c] \in HasReceiver \ {"subscribed"})
    => pending = <<>>

\* A payload is evicted only while no client is past its replay: capacity costs
\* nothing to a client that is attached (mod.rs:29-32, ipc.rs:133-137).
NoEvictionWhileServed ==
  [][evicted' # evicted =>
       \A c \in Clients : ws[c] \notin HasReceiver \ {"subscribed"}]_vars

\* A payload is sent on the channel with nobody listening only because a client
\* has come and gone: with no client at all it stays in pending (ipc.rs:138-143).
UnheardOnlyAfterDeparture ==
  unheard # {} => \E c \in Clients : ws[c] = "gone"

\* Once a client is in its loop and the buffer is unlocked, every payload that
\* was waiting when it subscribed or came later has been written to it, is ahead
\* of it in the channel, or was lost to a full buffer or to lag: attaching in the
\* middle of a send loses nothing (ws.rs:64-78).
NothingOwedIsForgotten ==
  \A c \in Clients :
    ws[c] = "loop" /\ holder = Free =>
      floor[c] + 1 .. accepted
        \subseteq Elems(got[c]) \cup Ahead(c) \cup evicted \cup missed[c]

\* A client misses a payload by lagging only if more than BroadcastCap -
\* PendingCap payloads were accepted after it subscribed: the replay of a full
\* buffer alone never overruns the channel (mod.rs:27 and 32).
LagOnlyUnderLoad ==
  \A c \in Clients :
    missed[c] # {} => accepted - since[c] > BroadcastCap - PendingCap

\* The connection counter the idle watchdog reads is exact, although handlers
\* add and subtract in separate critical sections (ws.rs:59-62 and 129-132).
ConnectedIsExact ==
  connected = Cardinality({c \in Clients : ws[c] \in IsCounted})

\* A reply that counts a client, which silences the "no Claude client is
\* attached" warning of send.rs:113, is only sent once the payload has left the
\* buffer (ipc.rs:138-144).
NoWarningMeansSent ==
  \A h \in Handlers :
    ipc[h] = "replying" /\ seen[h] => mine[h] \notin Elems(pending)

\* The hub implements Mailbox: acceptance order, bounded buffer losing its
\* oldest, at-most-once delivery in order to every client.
M == INSTANCE Mailbox WITH waiting <- Elems(pending), published <- Elems(chan)

ImplementsMailbox == M!Spec

\* Every payload owed to an attached client is eventually written to it, unless
\* the buffer or the channel overflows or the client leaves.
Undelivered(c, m) ==
  /\ ws[c] \in IsAttached
  /\ m \in floor[c] + 1 .. accepted
  /\ m \notin Elems(got[c]) \cup evicted \cup missed[c]

OwedIsDelivered ==
  \A c \in Clients, m \in 1 .. MaxPayloads :
    Undelivered(c, m) ~> ~Undelivered(c, m)
=============================================================================
