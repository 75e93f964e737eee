------------------------------ MODULE HubProofs ------------------------------
(***************************************************************************)
(* Theorems about module Hub, for any number of connections and payloads   *)
(* and any capacities.                                                     *)
(***************************************************************************)
EXTENDS Hub, SequenceTheorems, FiniteSetTheorems, TLAPS

-----------------------------------------------------------------------------
(* The operators on sequences.                                             *)

\* Appending adds one element.
LEMMA ElemsAppend ==
  ASSUME NEW s \in Seq(Nat), NEW m \in Nat
  PROVE  /\ Append(s, m) \in Seq(Nat)
         /\ Len(Append(s, m)) = Len(s) + 1
         /\ \A i \in 1 .. Len(s) : Append(s, m)[i] = s[i]
         /\ Append(s, m)[Len(s) + 1] = m
         /\ Elems(Append(s, m)) = Elems(s) \cup {m}
  BY DEF Elems

\* Capped keeps the newest PendingCap elements.
LEMMA CappedKeepsNewest ==
  ASSUME NEW s \in Seq(Nat), Len(s) <= PendingCap + 1
  PROVE  /\ Capped(s) \in Seq(Nat)
         /\ Len(s) <= PendingCap => Capped(s) = s /\ Overflow(s) = {}
         /\ Len(s) = PendingCap + 1 =>
              /\ Len(Capped(s)) = PendingCap
              /\ \A i \in 1 .. PendingCap : Capped(s)[i] = s[i + 1]
              /\ Overflow(s) = {s[1]}
  BY CapAssumption DEF Capped, Overflow

\* Head and Tail of a non-empty sequence, by index.
LEMMA HeadAndTail ==
  ASSUME NEW s \in Seq(Nat), s # <<>>
  PROVE  /\ Len(s) \in Nat \ {0}
         /\ Head(s) = s[1]
         /\ Tail(s) \in Seq(Nat)
         /\ Len(Tail(s)) = Len(s) - 1
         /\ \A i \in 1 .. Len(s) - 1 : Tail(s)[i] = s[i + 1]
  BY DEF Elems

-----------------------------------------------------------------------------
(* The inductive invariant, part by part.                                  *)

\* Payloads already out of pending, one way or another.
Out == accepted - Len(pending)

\* pending holds the payloads accepted last, oldest first.
Tailed ==
  /\ Len(pending) <= accepted
  /\ \A i \in 1 .. Len(pending) : pending[i] = Out + i

\* A sequence of consecutive numbers that ends in a has an interval of elements.
LEMMA TailIsInterval ==
  ASSUME NEW s \in Seq(Nat), NEW a \in Nat, Len(s) <= a,
         \A i \in 1 .. Len(s) : s[i] = (a - Len(s)) + i
  PROVE  Elems(s) = (a - Len(s)) + 1 .. a
<1> DEFINE o == a - Len(s)
<1>1. Len(s) \in Nat /\ o \in Nat
  OBVIOUS
<1>2. ASSUME NEW m \in o + 1 .. a
      PROVE  m \in Elems(s)
  <2>1. m - o \in 1 .. Len(s)
    BY <1>1, <1>2
  <2>2. s[m - o] = o + (m - o) /\ o + (m - o) = m
    BY <1>1, <1>2, <2>1
  <2> QED
    BY <2>1, <2>2 DEF Elems
<1>3. ASSUME NEW i \in 1 .. Len(s)
      PROVE  s[i] \in o + 1 .. a
  BY <1>1, <1>3
<1> QED
  BY <1>2, <1>3 DEF Elems

\* The buffer holds the newest payloads, in order: an interval of ranks,
LEMMA PendingIsInterval ==
  ASSUME TypeOK, Tailed
  PROVE  Elems(pending) = Out + 1 .. accepted
  BY TailIsInterval DEF TypeOK, Tailed, Out

\* and so after a step.
LEMMA PendingIsIntervalNext ==
  ASSUME TypeOK', Tailed'
  PROVE  Elems(pending') = Out' + 1 .. accepted'
  BY TailIsInterval DEF TypeOK, Tailed, Out

\* Nothing has happened while the queue is replayed.
BootQuiet ==
  phase = "booting" =>
    /\ holder = Free
    /\ chan = <<>>
    /\ \A c \in Clients : ws[c] = "out"
    /\ \A h \in Handlers : ipc[h] = "reading"

\* Who holds the mutex is where its critical section says, with work to do.
LockInv ==
  /\ \A h \in Handlers : ipc[h] \in {"counting", "draining"} <=> holder = h
  /\ \A c \in Clients : holder = c => ws[c] = "subscribed"
  /\ holder # Free => pending # <<>>

\* A handler drains only because it has seen a receiver.
DrainInv ==
  \A h \in Handlers :
    ipc[h] = "draining" => \E c \in Clients : ws[c] \in HasReceiver \cup {"gone"}

\* The channel's values are increasing and older than the buffer's; a
\* receiver's position is inside the channel.
ChanInv ==
  /\ \A i \in 1 .. Len(chan) : chan[i] \in 1 .. Out
  /\ \A i, j \in 1 .. Len(chan) : i < j => chan[i] < chan[j]
  /\ \A c \in Clients : cursor[c] <= Len(chan)

\* A client that has yet to subscribe has seen nothing.
FreshInv ==
  \A c \in Clients :
    ws[c] \in {"out", "upgraded", "counted"} => got[c] = <<>> /\ missed[c] = {}

\* What a receiver has ahead of it and what waits in pending is bounded by a
\* full buffer and what was accepted since it subscribed.
LoadInv ==
  \A c \in Clients :
    ws[c] \in HasReceiver =>
      /\ since[c] <= accepted
      /\ Len(chan) - cursor[c] + Len(pending) <= PendingCap + accepted - since[c]

\* What client c is owed has been written to it, is ahead of it, still waits,
\* or has overflowed.
Owed(c) == floor[c] + 1 .. accepted

OwedInv ==
  \A c \in Clients :
    ws[c] \in IsAttached =>
      /\ floor[c] <= accepted
      /\ Owed(c) \subseteq
           Elems(got[c]) \cup Ahead(c) \cup evicted \cup missed[c] \cup Elems(pending)

\* A handler that has counted a receiver replies once its payload is out.
ReplyInv ==
  \A h \in Handlers :
    /\ mine[h] <= accepted
    /\ ipc[h] = "reading" => mine[h] = 0

\* What has left pending is on the channel, evicted or sent to nobody.
FateInv ==
  /\ Elems(chan) \cup evicted \cup unheard = 1 .. Out
  /\ Elems(chan) \cap evicted = {}
  /\ Elems(chan) \cap unheard = {}
  /\ evicted \cap unheard = {}

\* What c has been sent is older than everything ahead of it.
OrderInv ==
  \A c \in Clients : \A i \in 1 .. Len(got[c]) :
    /\ got[c][i] <= Out
    /\ \A j \in cursor[c] + 1 .. Len(chan) : got[c][i] < chan[j]

IInv ==
  /\ TypeOK
  /\ Tailed
  /\ BootQuiet
  /\ LockInv
  /\ DrainInv
  /\ UnheardOnlyAfterDeparture
  /\ NoStrandedBacklog
  /\ ChanInv
  /\ FreshInv
  /\ LoadInv
  /\ LagOnlyUnderLoad
  /\ OwedInv
  /\ ReplyInv
  /\ NoWarningMeansSent
  /\ FateInv
  /\ OrderInv
  /\ ConnectedIsExact
-----------------------------------------------------------------------------
(* What the two operations on pending do, in terms of Out.                 *)

\* push_back and the eviction loop (ipc.rs:134-137): the oldest goes iff the buffer was full.
LEMMA PushEffect ==
  ASSUME TypeOK, Tailed, Push
  PROVE  /\ accepted' = accepted + 1
         /\ pending' \in Seq(Nat) /\ pending' # <<>> /\ Len(pending') <= PendingCap
         /\ Tailed'
         /\ \/ /\ Len(pending) < PendingCap
               /\ Len(pending') = Len(pending) + 1
               /\ evicted' = evicted
               /\ Out' = Out
            \/ /\ Len(pending) = PendingCap
               /\ Len(pending') = Len(pending)
               /\ evicted' = evicted \cup {Out + 1}
               /\ Out' = Out + 1
<1>0. PICK s : s = Append(pending, accepted + 1)
  OBVIOUS
<1>1. /\ pending \in Seq(Nat) /\ Len(pending) \in Nat /\ Len(pending) <= PendingCap
      /\ accepted \in Nat /\ Len(pending) <= accepted /\ PendingCap \in Nat \ {0}
  BY CapAssumption DEF TypeOK, Tailed
<1>2. accepted' = accepted + 1 /\ pending' = Capped(s) /\ evicted' = evicted \cup Overflow(s)
  BY <1>0 DEF Push
<1>3. /\ s \in Seq(Nat) /\ Len(s) = Len(pending) + 1
      /\ \A i \in 1 .. Len(s) : s[i] = Out + i
  <2>1. /\ s \in Seq(Nat) /\ Len(s) = Len(pending) + 1
        /\ \A i \in 1 .. Len(pending) : s[i] = pending[i]
        /\ s[Len(pending) + 1] = accepted + 1
    BY <1>0, <1>1, ElemsAppend
  <2>2. accepted + 1 = Out + (Len(pending) + 1)
    BY <1>1 DEF Out
  <2> QED
    BY <2>1, <2>2, <1>1 DEF Tailed
<1>4. CASE Len(pending) < PendingCap
  <2>1. pending' = s /\ Overflow(s) = {}
    BY <1>1, <1>2, <1>3, <1>4, CappedKeepsNewest
  <2>2. /\ pending' \in Seq(Nat) /\ Len(pending') = Len(pending) + 1
        /\ \A i \in 1 .. Len(pending) + 1 : pending'[i] = Out + i
    BY <2>1, <1>3
  <2>3. Out' = Out
    BY <2>2, <1>1, <1>2 DEF Out
  <2>4. Tailed'
    BY <2>2, <2>3, <1>1, <1>2 DEF Tailed
  <2>5. evicted' = evicted
    BY <2>1, <1>2
  <2>6. pending' # <<>>
    BY <2>2, <1>1
  <2> QED
    BY <2>2, <2>3, <2>4, <2>5, <2>6, <1>1, <1>2, <1>4
<1>5. CASE Len(pending) = PendingCap
  <2>1. /\ pending' \in Seq(Nat) /\ Len(pending') = PendingCap
        /\ \A i \in 1 .. PendingCap : pending'[i] = s[i + 1]
        /\ Overflow(s) = {s[1]}
    BY <1>1, <1>2, <1>3, <1>5, CappedKeepsNewest
  <2>2. Out' = Out + 1 /\ Out \in Nat
    BY <2>1, <1>1, <1>2, <1>5 DEF Out
  <2>3. \A i \in 1 .. PendingCap : pending'[i] = Out' + i
    <3> TAKE i \in 1 .. PendingCap
    <3>1. i + 1 \in 1 .. Len(s)
      BY <1>1, <1>3, <1>5
    <3>2. s[i + 1] = Out + (i + 1)
      BY <3>1, <1>3
    <3> QED
      BY <3>2, <2>1, <2>2
  <2>4. s[1] = Out + 1
    BY <1>1, <1>3
  <2>5. Tailed'
    BY <2>1, <2>3, <1>1, <1>2, <1>5 DEF Tailed
  <2> QED
    BY <2>1, <2>2, <2>4, <2>5, <1>1, <1>2, <1>5
<1> QED
  BY <1>1, <1>4, <1>5

\* One turn of a drain loop (ipc.rs:140-142, ws.rs:75-77): the oldest goes to tx.send.
LEMMA DrainEffect ==
  ASSUME TypeOK, Tailed, pending # <<>>, accepted' = accepted,
         NEW t \in Clients \cup Handlers, DrainOne(t)
  PROVE  /\ Out \in Nat /\ Out' = Out + 1 /\ Out + 1 <= accepted
         /\ pending' \in Seq(Nat) /\ Len(pending') = Len(pending) - 1
         /\ Tailed'
         /\ TxSend(Out + 1)
         /\ IF Len(pending) = 1 THEN pending' = <<>> /\ holder' = Free
                                ELSE pending' # <<>> /\ holder' = t
<1>1. /\ pending \in Seq(Nat) /\ Len(pending) \in Nat \ {0} /\ accepted \in Nat
      /\ Len(pending) <= accepted
  BY HeadAndTail DEF TypeOK, Tailed
<1>2. /\ Head(pending) = pending[1]
      /\ pending' \in Seq(Nat) /\ Len(pending') = Len(pending) - 1
      /\ \A i \in 1 .. Len(pending) - 1 : pending'[i] = pending[i + 1]
  BY <1>1, HeadAndTail DEF DrainOne
<1>3. Out \in Nat /\ Out' = Out + 1 /\ Out + 1 <= accepted
  BY <1>1, <1>2 DEF Out
<1>4. Head(pending) = Out + 1
  BY <1>1, <1>2 DEF Tailed
<1>5. Tailed'
  <2>1. \A i \in 1 .. Len(pending') : pending'[i] = Out' + i
    <3> TAKE i \in 1 .. Len(pending')
    <3>1. i + 1 \in 1 .. Len(pending) /\ pending'[i] = pending[i + 1]
      BY <1>1, <1>2
    <3> QED
      BY <3>1, <1>3 DEF Tailed
  <2> QED
    BY <2>1, <1>1, <1>2 DEF Tailed
<1>6. TxSend(Out + 1) /\ holder' = IF Len(pending) = 1 THEN Free ELSE t
  BY <1>4 DEF DrainOne
<1>7. pending' = <<>> <=> Len(pending) = 1
  BY <1>1, <1>2
<1> QED
  BY <1>2, <1>3, <1>5, <1>6, <1>7
-----------------------------------------------------------------------------
(* Type correctness is preserved.                                          *)

\* The part of TypeOK that a push or a drain disturbs.
BufferTypeOK ==
  /\ pending \in Seq(Nat)
  /\ Len(pending) <= PendingCap
  /\ holder \in Clients \cup Handlers \cup {Free}
  /\ chan \in Seq(Nat)
  /\ accepted \in Nat
  /\ evicted \subseteq 1 .. accepted
  /\ unheard \subseteq 1 .. accepted
  /\ missed \in [Clients -> SUBSET (1 .. accepted)]

\* A push keeps the types of what it changes,
LEMMA PushType ==
  ASSUME TypeOK, Tailed, Push, unheard' = unheard, missed' = missed, chan' = chan,
         holder' \in Clients \cup Handlers \cup {Free}
  PROVE  BufferTypeOK'
<1>1. /\ accepted \in Nat /\ Out \in Nat /\ Out <= accepted
      /\ Len(pending) = PendingCap => Out + 1 <= accepted
  BY CapAssumption DEF TypeOK, Tailed, Out
<1>2. /\ accepted' = accepted + 1
      /\ pending' \in Seq(Nat) /\ Len(pending') <= PendingCap
      /\ evicted' \subseteq evicted \cup {Out + 1}
  BY PushEffect
<1>3. 1 .. accepted \subseteq 1 .. accepted' /\ Out + 1 \in 1 .. accepted'
  BY <1>1, <1>2
<1>4. evicted' \subseteq 1 .. accepted' /\ unheard' \subseteq 1 .. accepted'
  BY <1>2, <1>3 DEF TypeOK
<1>5. missed' \in [Clients -> SUBSET (1 .. accepted')]
  BY <1>3 DEF TypeOK
<1> QED
  BY <1>1, <1>2, <1>4, <1>5 DEF TypeOK, BufferTypeOK

\* and so does one turn of a drain loop.
LEMMA DrainType ==
  ASSUME TypeOK, Tailed, pending # <<>>, accepted' = accepted, evicted' = evicted,
         missed' = missed, NEW t \in Clients \cup Handlers, DrainOne(t)
  PROVE  BufferTypeOK'
<1>1. /\ Out \in Nat /\ Out + 1 <= accepted
      /\ pending' \in Seq(Nat) /\ Len(pending') = Len(pending) - 1
      /\ TxSend(Out + 1) /\ holder' \in {Free, t}
  BY DrainEffect
<1>2. Append(chan, Out + 1) \in Seq(Nat) /\ Out + 1 \in 1 .. accepted
  <2>1. Append(chan, Out + 1) \in Seq(Nat)
    BY <1>1, ElemsAppend DEF TypeOK
  <2> QED
    BY <1>1, <2>1 DEF TypeOK
<1>3. chan' \in Seq(Nat) /\ unheard' \subseteq 1 .. accepted
  BY <1>1, <1>2 DEF TxSend, TypeOK
<1>4. Len(pending') <= PendingCap
  BY <1>1, CapAssumption DEF TypeOK
<1> QED
  BY <1>1, <1>3, <1>4 DEF TypeOK, BufferTypeOK

\* Every step keeps the types.
LEMMA TypeStep ==
  ASSUME TypeOK, Tailed, LockInv, ChanInv, [Next]_vars
  PROVE  TypeOK'
<1>1. CASE ReplayFile
  BY <1>1, PushType DEF ReplayFile, TypeOK, BufferTypeOK, wsVars, ipcVars
<1>2. CASE Serve
  BY <1>2 DEF Serve, TypeOK, hubVars, wsVars, ipcVars, fateVars
<1>3. ASSUME NEW h \in Handlers, IpcPush(h)
      PROVE  TypeOK'
  <2>1. BufferTypeOK'
    BY <1>3, PushType DEF IpcPush, wsVars
  <2>2. ipc' \in [Handlers -> IpcStage] /\ mine' \in [Handlers -> Nat]
    BY <1>3 DEF IpcPush, TypeOK, IpcStage
  <2> QED
    BY <1>3, <2>1, <2>2 DEF IpcPush, TypeOK, BufferTypeOK, wsVars
<1>4. ASSUME NEW h \in Handlers, IpcCount(h)
      PROVE  TypeOK'
  BY <1>4 DEF IpcCount, TypeOK, IpcStage, wsVars, fateVars
<1>5. ASSUME NEW h \in Handlers, IpcDrain(h)
      PROVE  TypeOK'
  <2>1. BufferTypeOK'
    BY <1>5, DrainType, TaskAssumption DEF IpcDrain, DrainOne, LockInv, wsVars
  <2>2. ipc' \in [Handlers -> IpcStage]
    BY <1>5 DEF IpcDrain, TypeOK, IpcStage
  <2> QED
    BY <1>5, <2>1, <2>2 DEF IpcDrain, TypeOK, BufferTypeOK, wsVars
<1>6. ASSUME NEW h \in Handlers, IpcPing(h)
      PROVE  TypeOK'
  <2>1. seen' \in [Handlers -> BOOLEAN]
    <3>1. (Subscribers # {}) \in BOOLEAN
      OBVIOUS
    <3> QED
      BY <1>6, <3>1 DEF IpcPing, TypeOK
  <2>2. ipc' \in [Handlers -> IpcStage]
    BY <1>6 DEF IpcPing, TypeOK, IpcStage
  <2> QED
    BY <1>6, <2>1, <2>2 DEF IpcPing, TypeOK, hubVars, wsVars, fateVars
<1>16. ASSUME NEW h \in Handlers, IpcReply(h)
       PROVE  TypeOK'
  BY <1>16 DEF IpcReply, TypeOK, IpcStage, hubVars, wsVars, fateVars
<1>7. ASSUME NEW c \in Clients, WsAccept(c) \/ WsClose(c) \/ WsReturn(c)
      PROVE  TypeOK'
  BY <1>7 DEF WsAccept, WsClose, WsReturn, Goto, TypeOK, WsStage, hubVars, ipcVars,
              fateVars
<1>8. ASSUME NEW c \in Clients, WsCount(c) \/ WsUncount(c)
      PROVE  TypeOK'
  <2>1. ws' \in [Clients -> WsStage]
    BY <1>8 DEF WsCount, WsUncount, Goto, TypeOK, WsStage
  <2>2. connected' \in Nat
    BY <1>8 DEF WsCount, WsUncount, TypeOK
  <2> QED
    BY <1>8, <2>1, <2>2 DEF WsCount, WsUncount, TypeOK, ipcVars, fateVars
<1>9. ASSUME NEW c \in Clients, WsSubscribe(c)
      PROVE  TypeOK'
  <2>1. accepted - Len(pending) \in Nat /\ Len(chan) \in Nat
    BY DEF TypeOK, Tailed
  <2> QED
    BY <1>9, <2>1 DEF WsSubscribe, Goto, TypeOK, WsStage, hubVars, ipcVars, fateVars
<1>10. ASSUME NEW c \in Clients, WsReplayBegin(c)
       PROVE  TypeOK'
  BY <1>10 DEF WsReplayBegin, TypeOK, WsStage, ipcVars, fateVars
<1>11. ASSUME NEW c \in Clients, WsReplay(c)
       PROVE  TypeOK'
  <2>1. BufferTypeOK'
    BY <1>11, DrainType, TaskAssumption DEF WsReplay, DrainOne, LockInv
  <2>2. ws' \in [Clients -> WsStage]
    BY <1>11 DEF WsReplay, TypeOK, WsStage
  <2> QED
    BY <1>11, <2>1, <2>2 DEF WsReplay, TypeOK, BufferTypeOK, ipcVars
<1>12. ASSUME NEW c \in Clients, WsLagged(c)
       PROVE  TypeOK'
  <2>1. Len(chan) - BroadcastCap \in Nat
    BY <1>12, CapAssumption DEF WsLagged, TypeOK
  <2>2. \A i \in cursor[c] + 1 .. Len(chan) - BroadcastCap : chan[i] \in 1 .. accepted
    <3>1. cursor[c] \in Nat /\ Len(chan) \in Nat /\ Out \in Nat /\ Out <= accepted
      BY DEF TypeOK, Tailed, Out
    <3>2. \A i \in 1 .. Len(chan) : chan[i] \in 1 .. accepted
      BY <3>1 DEF TypeOK, ChanInv
    <3> QED
      BY <3>1, <3>2, CapAssumption
  <2>3. missed' \in [Clients -> SUBSET (1 .. accepted)]
    BY <1>12, <2>2 DEF WsLagged, TypeOK
  <2>4. cursor' \in [Clients -> Nat]
    BY <1>12, <2>1 DEF WsLagged, TypeOK
  <2> QED
    BY <1>12, <2>3, <2>4 DEF WsLagged, TypeOK, hubVars, ipcVars, fateVars
<1>13. ASSUME NEW c \in Clients, WsDeliver(c)
       PROVE  TypeOK'
  <2>1. /\ cursor[c] + 1 \in 1 .. Len(chan) /\ chan[cursor[c] + 1] \in Nat
        /\ got[c] \in Seq(Nat)
    BY <1>13, CapAssumption DEF WsDeliver, Take, TypeOK
  <2>2. Append(got[c], chan[cursor[c] + 1]) \in Seq(Nat)
    BY <2>1
  <2>3. got' \in [Clients -> Seq(Nat)]
    BY <1>13, <2>2 DEF WsDeliver, TypeOK
  <2>4. cursor' \in [Clients -> Nat]
    BY <1>13 DEF WsDeliver, Take, TypeOK
  <2> QED
    BY <1>13, <2>3, <2>4 DEF WsDeliver, TypeOK, hubVars, ipcVars, fateVars
<1>14. ASSUME NEW c \in Clients, WsWriteFails(c)
       PROVE  TypeOK'
  BY <1>14 DEF WsWriteFails, Take, TypeOK, WsStage, hubVars, ipcVars, fateVars
<1>15. CASE UNCHANGED vars
  BY <1>15 DEF TypeOK, vars, hubVars, wsVars, ipcVars, fateVars
<1> QED
  BY <1>1, <1>2, <1>3, <1>4, <1>5, <1>6, <1>7, <1>8, <1>9, <1>10, <1>11, <1>12,
     <1>13, <1>14, <1>15, <1>16
  DEF Next, IpcNext, WsNext
-----------------------------------------------------------------------------
(* Every step pushes one payload, drains one, or leaves payloads where     *)
(* they are.                                                               *)

PushStep ==
  /\ Push
  /\ holder = Free
  /\ UNCHANGED <<chan, connected, wsVars, unheard>>

DrainStep ==
  \E t \in Clients \cup Handlers :
    /\ pending # <<>>
    /\ DrainOne(t)
    /\ UNCHANGED <<accepted, evicted, connected, cursor, got, missed, floor, since>>
    /\ \/ t \in Handlers /\ ipc[t] = "draining" /\ ws' = ws
       \/ /\ t \in Clients
          /\ ws[t] = "subscribed"
          /\ ws' = IF Len(pending) = 1 THEN [ws EXCEPT ![t] = "loop"] ELSE ws

StillStep == UNCHANGED <<pending, chan, accepted, evicted, unheard>>

\* A step pushes, drains one payload or leaves the buffer and the channel alone.
LEMMA StepKinds ==
  ASSUME BootQuiet, LockInv, [Next]_vars
  PROVE  PushStep \/ DrainStep \/ StillStep
<1>1. CASE ReplayFile
  BY <1>1 DEF ReplayFile, PushStep, BootQuiet
<1>2. ASSUME NEW h \in Handlers, IpcPush(h)
      PROVE  PushStep
  BY <1>2 DEF IpcPush, PushStep
<1>3. ASSUME NEW h \in Handlers, IpcDrain(h)
      PROVE  DrainStep
  <2>1. pending # <<>>
    BY <1>3, TaskAssumption DEF IpcDrain, DrainOne, LockInv
  <2> QED
    BY <1>3, <2>1 DEF IpcDrain, DrainStep, wsVars
<1>4. ASSUME NEW c \in Clients, WsReplay(c)
      PROVE  DrainStep
  <2>1. pending # <<>> /\ ws[c] = "subscribed"
    BY <1>4, TaskAssumption DEF WsReplay, DrainOne, LockInv
  <2> QED
    BY <1>4, <2>1 DEF WsReplay, DrainStep
<1>5. CASE Serve
  BY <1>5 DEF Serve, StillStep, hubVars, fateVars
<1>6. ASSUME NEW h \in Handlers, IpcCount(h) \/ IpcPing(h) \/ IpcReply(h)
      PROVE  StillStep
  BY <1>6 DEF IpcCount, IpcPing, IpcReply, StillStep, hubVars, fateVars
<1>7. ASSUME NEW c \in Clients,
             \/ WsAccept(c) \/ WsCount(c) \/ WsSubscribe(c) \/ WsReplayBegin(c)
             \/ WsLagged(c) \/ WsDeliver(c) \/ WsWriteFails(c)
             \/ WsClose(c) \/ WsUncount(c) \/ WsReturn(c)
      PROVE  StillStep
  BY <1>7 DEF WsAccept, WsCount, WsSubscribe, WsReplayBegin, WsLagged, WsDeliver,
              WsWriteFails, WsClose, WsUncount, WsReturn, StillStep, hubVars, fateVars
<1>8. CASE UNCHANGED vars
  BY <1>8 DEF StillStep, vars, hubVars, fateVars
<1> QED
  BY <1>1, <1>2, <1>3, <1>4, <1>5, <1>6, <1>7, <1>8 DEF Next, IpcNext, WsNext

\* Every step keeps pending a run of the newest ranks.
LEMMA TailedStep ==
  ASSUME TypeOK, Tailed, BootQuiet, LockInv, [Next]_vars
  PROVE  Tailed'
<1>1. CASE PushStep
  BY <1>1, PushEffect DEF PushStep
<1>2. CASE DrainStep
  BY <1>2, DrainEffect DEF DrainStep
<1>3. CASE StillStep
  BY <1>3 DEF StillStep, Tailed, Out
<1> QED
  BY <1>1, <1>2, <1>3, StepKinds

\* No task has run as long as the queue is replayed.
LEMMA BootQuietStep ==
  ASSUME BootQuiet, [Next]_vars
  PROVE  BootQuiet'
<1> SUFFICES ASSUME phase' = "booting"
             PROVE  BootQuiet'
  BY DEF BootQuiet
<1>1. phase = "booting"
  BY DEF Next, IpcNext, WsNext, ReplayFile, Serve, IpcPush, IpcCount, IpcDrain, IpcPing,
         IpcReply, WsAccept, WsCount, WsSubscribe, WsReplayBegin, WsReplay, WsLagged,
         WsDeliver, WsWriteFails, WsClose, WsUncount, WsReturn, vars
<1>2. \A h \in Handlers : ~IpcNext(h)
  BY <1>1 DEF BootQuiet, IpcNext, IpcPush, IpcCount, IpcDrain, IpcPing, IpcReply
<1>3. \A c \in Clients : ~WsNext(c)
  BY <1>1, TaskAssumption
  DEF BootQuiet, WsNext, WsAccept, WsCount, WsSubscribe, WsReplayBegin, WsReplay,
      DrainOne, WsLagged, WsDeliver, WsWriteFails, Take, WsClose, WsUncount, WsReturn,
      Goto
<1>4. ReplayFile \/ UNCHANGED vars
  BY <1>1, <1>2, <1>3 DEF Next, Serve
<1> QED
  BY <1>1, <1>4 DEF BootQuiet, ReplayFile, vars, hubVars, wsVars, ipcVars
-----------------------------------------------------------------------------
(* The mutex and the receivers.                                            *)

\* Every step keeps the mutex with the handler whose critical section it is.
LEMMA LockStep ==
  ASSUME TypeOK, Tailed, BootQuiet, LockInv, [Next]_vars
  PROVE  LockInv'
<1> USE TaskAssumption
<1>1. CASE ReplayFile
  BY <1>1, PushEffect DEF ReplayFile, LockInv, ipcVars, wsVars
<1>2. CASE Serve
  BY <1>2 DEF Serve, LockInv, hubVars, ipcVars, wsVars
<1>3. ASSUME NEW h \in Handlers, IpcPush(h)
      PROVE  LockInv'
  <2>1. pending' # <<>> /\ holder' = h /\ ws' = ws
    BY <1>3, PushEffect DEF IpcPush, wsVars
  <2>2. \A k \in Handlers : ipc'[k] \in {"counting", "draining"} <=> k = h
    BY <1>3 DEF IpcPush, LockInv, TypeOK
  <2> QED
    BY <2>1, <2>2 DEF LockInv
<1>4. ASSUME NEW h \in Handlers, IpcCount(h)
      PROVE  LockInv'
  BY <1>4 DEF IpcCount, LockInv, TypeOK, wsVars, fateVars
<1>5. ASSUME NEW h \in Handlers, IpcDrain(h)
      PROVE  LockInv'
  <2>1. pending # <<>> /\ holder = h /\ accepted' = accepted
    BY <1>5 DEF IpcDrain, DrainOne, LockInv
  <2>2. IF Len(pending) = 1 THEN pending' = <<>> /\ holder' = Free
                            ELSE pending' # <<>> /\ holder' = h
    BY <1>5, <2>1, DrainEffect DEF IpcDrain
  <2>3. \A k \in Handlers : ipc'[k] \in {"counting", "draining"} <=> holder' = k
    BY <1>5, <2>1, <2>2 DEF IpcDrain, LockInv, TypeOK
  <2> QED
    BY <1>5, <2>1, <2>2, <2>3 DEF IpcDrain, LockInv, wsVars
<1>6. ASSUME NEW h \in Handlers, IpcPing(h) \/ IpcReply(h)
      PROVE  LockInv'
  <2>1. \A k \in Handlers :
          ipc'[k] \in {"counting", "draining"} <=> ipc[k] \in {"counting", "draining"}
    BY <1>6 DEF IpcPing, IpcReply, TypeOK
  <2>2. UNCHANGED <<holder, pending, ws>>
    BY <1>6 DEF IpcPing, IpcReply, hubVars, wsVars
  <2> QED
    BY <2>1, <2>2 DEF LockInv
<1>7. ASSUME NEW c \in Clients,
             \/ WsAccept(c) \/ WsCount(c) \/ WsSubscribe(c) \/ WsLagged(c)
             \/ WsDeliver(c) \/ WsWriteFails(c) \/ WsClose(c) \/ WsUncount(c)
             \/ WsReturn(c)
      PROVE  LockInv'
  <2>1. UNCHANGED <<holder, pending, ipc>>
    BY <1>7 DEF WsAccept, WsCount, WsSubscribe, WsLagged, WsDeliver, WsWriteFails,
                WsClose, WsUncount, WsReturn, hubVars, ipcVars
  <2>2. \A d \in Clients : ws[d] = "subscribed" => ws'[d] = "subscribed"
    BY <1>7 DEF WsAccept, WsCount, WsSubscribe, WsLagged, WsDeliver, WsWriteFails, Take,
                WsClose, WsUncount, WsReturn, Goto, TypeOK
  <2> QED
    BY <2>1, <2>2 DEF LockInv
<1>8. ASSUME NEW c \in Clients, WsReplayBegin(c)
      PROVE  LockInv'
  BY <1>8 DEF WsReplayBegin, LockInv, TypeOK, ipcVars
<1>9. ASSUME NEW c \in Clients, WsReplay(c)
      PROVE  LockInv'
  <2>1. pending # <<>> /\ holder = c /\ accepted' = accepted /\ ipc' = ipc
    BY <1>9 DEF WsReplay, DrainOne, LockInv, ipcVars
  <2>2. IF Len(pending) = 1 THEN pending' = <<>> /\ holder' = Free
                            ELSE pending' # <<>> /\ holder' = c
    BY <1>9, <2>1, DrainEffect DEF WsReplay
  <2>3. \A d \in Clients : holder' = d => ws'[d] = "subscribed"
    BY <1>9, <2>1, <2>2 DEF WsReplay, LockInv, TypeOK
  <2> QED
    BY <2>1, <2>2, <2>3 DEF LockInv
<1>10. CASE UNCHANGED vars
  BY <1>10 DEF LockInv, vars, hubVars, wsVars, ipcVars
<1> QED
  BY <1>1, <1>2, <1>3, <1>4, <1>5, <1>6, <1>7, <1>8, <1>9, <1>10
  DEF Next, IpcNext, WsNext

\* A handler never goes back: one that has had a receiver has it or is gone.
LEMMA ReceiversLast ==
  ASSUME TypeOK, LockInv, [Next]_vars, NEW c \in Clients
  PROVE  /\ ws[c] \in HasReceiver \cup {"gone"} => ws'[c] \in HasReceiver \cup {"gone"}
         /\ ws[c] = "gone" => ws'[c] = "gone"
<1> USE DEF HasReceiver
<1>1. CASE ws' = ws
  BY <1>1
<1>2. ASSUME NEW d \in Clients, WsNext(d)
      PROVE  /\ \A e \in Clients \ {d} : ws'[e] = ws[e]
             /\ ws[d] \in HasReceiver => ws'[d] \in HasReceiver \cup {"gone"}
             /\ ws[d] # "gone" \/ ws' = ws
  BY <1>2, TaskAssumption
  DEF WsNext, WsAccept, WsCount, WsSubscribe, WsReplayBegin, WsReplay, WsLagged,
      WsDeliver, WsWriteFails, Take, WsClose, WsUncount, WsReturn, Goto, TypeOK,
      DrainOne, LockInv
<1>3. ws' = ws \/ \E d \in Clients : WsNext(d)
  BY DEF Next, IpcNext, ReplayFile, Serve, IpcPush, IpcCount, IpcDrain, IpcPing,
         IpcReply, vars, wsVars
<1> QED
  BY <1>1, <1>2, <1>3

\* A handler that drains has seen a receiver, which may have left since.
LEMMA DrainInvStep ==
  ASSUME TypeOK, LockInv, DrainInv, [Next]_vars
  PROVE  DrainInv'
<1> SUFFICES ASSUME NEW h \in Handlers, ipc'[h] = "draining"
             PROVE  \E c \in Clients : ws'[c] \in HasReceiver \cup {"gone"}
  BY DEF DrainInv
<1>1. \/ ipc[h] = "draining"
      \/ IpcCount(h) /\ Subscribers # {}
  BY DEF Next, IpcNext, WsNext, ReplayFile, Serve, IpcPush, IpcCount, IpcDrain, IpcPing,
         IpcReply, WsAccept, WsCount, WsSubscribe, WsReplayBegin, WsReplay, WsLagged,
         WsDeliver, WsWriteFails, WsClose, WsUncount, WsReturn, vars, ipcVars, TypeOK
<1>2. \E c \in Clients : ws[c] \in HasReceiver \cup {"gone"}
  BY <1>1 DEF DrainInv, Subscribers
<1> QED
  BY <1>2, ReceiversLast

\* Every step keeps UnheardOnlyAfterDeparture.
LEMMA UnheardStep ==
  ASSUME TypeOK, BootQuiet, LockInv, DrainInv, UnheardOnlyAfterDeparture, [Next]_vars
  PROVE  UnheardOnlyAfterDeparture'
<1> SUFFICES ASSUME unheard' # {}
             PROVE  \E c \in Clients : ws'[c] = "gone"
  BY DEF UnheardOnlyAfterDeparture
<1>1. CASE unheard' = unheard
  BY <1>1, ReceiversLast DEF UnheardOnlyAfterDeparture
<1>2. CASE DrainStep /\ unheard' # unheard
  <2>1. Subscribers = {}
    BY <1>2 DEF DrainStep, DrainOne, TxSend
  <2>2. \E h \in Handlers : ipc[h] = "draining"
    BY <1>2, <2>1 DEF DrainStep, Subscribers, HasReceiver
  <2>3. \E c \in Clients : ws[c] = "gone"
    BY <2>1, <2>2 DEF DrainInv, Subscribers
  <2> QED
    BY <2>3, ReceiversLast
<1> QED
  BY <1>1, <1>2, StepKinds DEF PushStep, StillStep

\* Every step keeps NoStrandedBacklog.
LEMMA NoStrandedStep ==
  ASSUME TypeOK, Tailed, BootQuiet, LockInv, NoStrandedBacklog, [Next]_vars
  PROVE  NoStrandedBacklog'
<1> USE TaskAssumption
<1> DEFINE Past == HasReceiver \ {"subscribed"}
<1> SUFFICES ASSUME holder' = Free, NEW c \in Clients, ws'[c] \in Past
             PROVE  pending' = <<>>
  BY DEF NoStrandedBacklog, HasReceiver
<1>1. CASE holder = Free /\ pending' = pending /\ ws[c] \in Past
  BY <1>1 DEF NoStrandedBacklog
<1>2. CASE ReplayFile
  BY <1>2 DEF ReplayFile, BootQuiet, HasReceiver, wsVars
<1>3. ASSUME NEW h \in Handlers, IpcPush(h)
      PROVE  FALSE
  BY <1>3 DEF IpcPush
<1>4. ASSUME NEW h \in Handlers, IpcCount(h)
      PROVE  FALSE
  <2>1. Subscribers = {} /\ ws' = ws
    BY <1>4 DEF IpcCount, LockInv, wsVars
  <2> QED
    BY <2>1 DEF Subscribers
<1>5. CASE DrainStep
  BY <1>5, DrainEffect DEF DrainStep
<1>6. ASSUME NEW d \in Clients, WsReplayBegin(d)
      PROVE  pending' = <<>>
  BY <1>6 DEF WsReplayBegin
<1>7. ASSUME NEW d \in Clients,
             \/ WsAccept(d) \/ WsCount(d) \/ WsSubscribe(d) \/ WsLagged(d)
             \/ WsDeliver(d) \/ WsWriteFails(d) \/ WsClose(d) \/ WsUncount(d)
             \/ WsReturn(d)
      PROVE  holder = Free /\ pending' = pending /\ ws[c] \in Past
  <2>1. holder = Free /\ pending' = pending
    BY <1>7 DEF WsAccept, WsCount, WsSubscribe, WsLagged, WsDeliver, WsWriteFails,
                WsClose, WsUncount, WsReturn, hubVars
  <2>2. ws[c] \in Past
    BY <1>7 DEF WsAccept, WsCount, WsSubscribe, WsLagged, WsDeliver, WsWriteFails, Take,
                WsClose, WsUncount, WsReturn, Goto, TypeOK, HasReceiver
  <2> QED
    BY <2>1, <2>2
<1>8. ASSUME Serve \/ (\E h \in Handlers : IpcPing(h) \/ IpcReply(h)) \/ UNCHANGED vars
      PROVE  holder = Free /\ pending' = pending /\ ws[c] \in Past
  BY <1>8 DEF Serve, IpcPing, IpcReply, vars, hubVars, wsVars
<1>9. ASSUME NEW h \in Handlers, IpcDrain(h)
      PROVE  DrainStep
  BY <1>9 DEF IpcDrain, DrainStep, DrainOne, LockInv, wsVars
<1>10. ASSUME NEW d \in Clients, WsReplay(d)
       PROVE  DrainStep
  BY <1>10 DEF WsReplay, DrainStep, DrainOne, LockInv
<1> QED
  BY <1>1, <1>2, <1>3, <1>4, <1>5, <1>6, <1>7, <1>8, <1>9, <1>10
  DEF Next, IpcNext, WsNext

-----------------------------------------------------------------------------
(* The channel and the fate of each payload.                               *)

\* Every step keeps the channel increasing and older than the buffer.
LEMMA ChanStep ==
  ASSUME TypeOK, Tailed, BootQuiet, LockInv, ChanInv, [Next]_vars
  PROVE  ChanInv'
<1>1. Out \in Nat /\ Len(chan) \in Nat
  BY DEF TypeOK, Tailed, Out
<1>2. CASE PushStep
  <2>1. chan' = chan /\ cursor' = cursor /\ Out' \in {Out, Out + 1}
    BY <1>2, PushEffect DEF PushStep, wsVars
  <2> QED
    BY <1>1, <2>1 DEF ChanInv
<1>3. CASE DrainStep
  <2>1. Out' = Out + 1 /\ TxSend(Out + 1) /\ cursor' = cursor
    BY <1>3, DrainEffect DEF DrainStep
  <2>2. CASE chan' = chan
    BY <2>1, <2>2, <1>1 DEF ChanInv
  <2>3. CASE chan' = Append(chan, Out + 1)
    <3>1. /\ Len(chan') = Len(chan) + 1
          /\ \A i \in 1 .. Len(chan) : chan'[i] = chan[i]
          /\ chan'[Len(chan) + 1] = Out + 1
      BY <2>3, <1>1, ElemsAppend DEF TypeOK
    <3>2. \A i \in 1 .. Len(chan') : chan'[i] \in 1 .. Out'
      BY <3>1, <2>1, <1>1 DEF ChanInv
    <3>3. \A i, j \in 1 .. Len(chan') : i < j => chan'[i] < chan'[j]
      <4> TAKE i, j \in 1 .. Len(chan')
      <4> HAVE i < j
      <4>1. i \in 1 .. Len(chan) /\ chan'[i] = chan[i] /\ chan[i] \in 1 .. Out
        BY <1>1, <3>1 DEF ChanInv
      <4>2. CASE j \in 1 .. Len(chan)
        BY <4>1, <4>2, <3>1 DEF ChanInv
      <4>3. CASE j = Len(chan) + 1
        BY <4>1, <4>3, <3>1, <1>1
      <4> QED
        BY <4>2, <4>3, <3>1, <1>1
    <3>4. \A c \in Clients : cursor'[c] <= Len(chan')
      BY <3>1, <2>1, <1>1 DEF ChanInv, TypeOK
    <3> QED
      BY <3>2, <3>3, <3>4 DEF ChanInv
  <2> QED
    BY <2>1, <2>2, <2>3 DEF TxSend
<1>4. CASE StillStep
  <2>1. chan' = chan /\ Out' = Out
    BY <1>4 DEF StillStep, Out
  <2>2. \/ cursor' = cursor
        \/ \E c \in Clients : \E n \in 0 .. Len(chan) : cursor' = [cursor EXCEPT ![c] = n]
    <3>1. ASSUME NEW c \in Clients, WsSubscribe(c)
          PROVE  cursor' = [cursor EXCEPT ![c] = Len(chan)]
      BY <3>1 DEF WsSubscribe
    <3>2. ASSUME NEW c \in Clients, WsLagged(c)
          PROVE  \E n \in 0 .. Len(chan) : cursor' = [cursor EXCEPT ![c] = n]
      <4>1. Len(chan) - BroadcastCap \in 0 .. Len(chan)
        BY <3>2, <1>1, CapAssumption DEF WsLagged, TypeOK
      <4> QED
        BY <3>2, <4>1 DEF WsLagged
    <3>3. ASSUME NEW c \in Clients, Take(c)
          PROVE  \E n \in 0 .. Len(chan) : cursor' = [cursor EXCEPT ![c] = n]
      <4>1. cursor[c] + 1 \in 0 .. Len(chan)
        BY <3>3, <1>1 DEF Take, TypeOK
      <4> QED
        BY <3>3, <4>1 DEF Take
    <3> QED
      BY <3>1, <3>2, <3>3, <1>1
      DEF Next, IpcNext, WsNext, ReplayFile, Serve, IpcPush, IpcCount, IpcDrain, IpcPing,
          IpcReply, WsAccept, WsCount, WsReplayBegin, WsReplay, WsDeliver,
          WsWriteFails, WsClose, WsUncount, WsReturn, vars, wsVars
  <2>3. \A c \in Clients : cursor'[c] <= Len(chan)
    <3>1. CASE cursor' = cursor
      BY <3>1 DEF ChanInv
    <3>2. ASSUME NEW d \in Clients, NEW n \in 0 .. Len(chan), cursor' = [cursor EXCEPT ![d] = n]
          PROVE  \A c \in Clients : cursor'[c] <= Len(chan)
      <4>1. n <= Len(chan) /\ cursor \in [Clients -> Nat]
        BY <1>1 DEF TypeOK
      <4> QED
        BY <3>2, <4>1 DEF ChanInv
    <3> QED
      BY <2>2, <3>1, <3>2
  <2> QED
    BY <2>1, <2>3 DEF ChanInv
<1> QED
  BY <1>2, <1>3, <1>4, StepKinds

\* Every step keeps the three fates of what has left the buffer apart.
LEMMA FateStep ==
  ASSUME TypeOK, Tailed, BootQuiet, LockInv, FateInv, [Next]_vars
  PROVE  FateInv'
<1>1. Out \in Nat /\ 1 .. Out + 1 = (1 .. Out) \cup {Out + 1} /\ Out + 1 \notin 1 .. Out
  BY DEF TypeOK, Tailed, Out
<1>2. Out + 1 \notin Elems(chan) \cup evicted \cup unheard
  BY <1>1 DEF FateInv
<1>3. CASE PushStep
  <2>1. /\ Elems(chan') = Elems(chan) /\ unheard' = unheard
        /\ \/ Out' = Out /\ evicted' = evicted
           \/ Out' = Out + 1 /\ evicted' = evicted \cup {Out + 1}
    BY <1>3, PushEffect DEF PushStep
  <2> QED
    BY <2>1, <1>1, <1>2 DEF FateInv
<1>4. CASE DrainStep
  <2>1. Out' = Out + 1 /\ evicted' = evicted /\ TxSend(Out + 1)
    BY <1>4, DrainEffect DEF DrainStep
  <2>2. \/ Elems(chan') = Elems(chan) \cup {Out + 1} /\ unheard' = unheard
        \/ Elems(chan') = Elems(chan) /\ unheard' = unheard \cup {Out + 1}
    <3>1. Elems(Append(chan, Out + 1)) = Elems(chan) \cup {Out + 1}
      <4>1. chan \in Seq(Nat) /\ Out + 1 \in Nat
        BY <1>1 DEF TypeOK
      <4> QED
        BY <4>1, ElemsAppend
    <3>2. \/ chan' = Append(chan, Out + 1) /\ unheard' = unheard
          \/ chan' = chan /\ unheard' = unheard \cup {Out + 1}
      BY <2>1 DEF TxSend
    <3> QED
      BY <3>1, <3>2
  <2> QED
    BY <2>1, <2>2, <1>1, <1>2 DEF FateInv
<1>5. CASE StillStep
  BY <1>5 DEF StillStep, FateInv, Out
<1> QED
  BY <1>3, <1>4, <1>5, StepKinds
-----------------------------------------------------------------------------
(* What each client is owed.                                               *)

\* Client c's place and history stay as they are, and it attaches to nothing.
Untouched(c) ==
  /\ cursor'[c] = cursor[c]
  /\ got'[c] = got[c]
  /\ missed'[c] = missed[c]
  /\ floor'[c] = floor[c]
  /\ since'[c] = since[c]
  /\ ws'[c] \in {"out", "upgraded", "counted"} => ws[c] \in {"out", "upgraded", "counted"}
  /\ ws'[c] \in HasReceiver => ws[c] \in HasReceiver
  /\ ws'[c] \in IsAttached => ws[c] \in IsAttached

Receives(c) == WsSubscribe(c) \/ WsLagged(c) \/ WsDeliver(c) \/ WsWriteFails(c)

\* A step either moves c's receiver and no payload, or leaves c untouched.
LEMMA ClientKinds ==
  ASSUME TypeOK, BootQuiet, LockInv, [Next]_vars, NEW c \in Clients
  PROVE  \/ Receives(c) /\ StillStep
         \/ Untouched(c) /\ (PushStep \/ DrainStep \/ StillStep)
<1> USE DEF HasReceiver, IsAttached
<1>1. ASSUME Receives(c)
      PROVE  StillStep
  BY <1>1 DEF Receives, WsSubscribe, WsLagged, WsDeliver, WsWriteFails, StillStep,
              hubVars, fateVars
<1>2. ASSUME NEW d \in Clients, d # c, Receives(d)
      PROVE  Untouched(c)
  BY <1>2 DEF Receives, WsSubscribe, WsLagged, WsDeliver, WsWriteFails, Take, Goto,
              TypeOK, Untouched
<1>3. ASSUME NEW d \in Clients,
             WsAccept(d) \/ WsCount(d) \/ WsClose(d) \/ WsUncount(d) \/ WsReturn(d)
      PROVE  Untouched(c)
  BY <1>3 DEF WsAccept, WsCount, WsClose, WsUncount, WsReturn, Goto, TypeOK, Untouched
<1>4. ASSUME NEW d \in Clients, WsReplayBegin(d) \/ WsReplay(d)
      PROVE  Untouched(c)
  BY <1>4, TaskAssumption
  DEF WsReplayBegin, WsReplay, DrainOne, LockInv, TypeOK, Untouched
<1>5. ASSUME UNCHANGED wsVars
      PROVE  Untouched(c)
  <2>1. /\ ws' = ws /\ cursor' = cursor /\ got' = got /\ missed' = missed
        /\ floor' = floor /\ since' = since
    BY <1>5 DEF wsVars
  <2> QED
    BY <2>1 DEF Untouched
<1>6. \/ UNCHANGED wsVars
      \/ \E d \in Clients : WsNext(d)
  BY DEF Next, IpcNext, ReplayFile, Serve, IpcPush, IpcCount, IpcDrain, IpcPing,
         IpcReply, vars
<1> QED
  BY <1>1, <1>2, <1>3, <1>4, <1>5, <1>6, StepKinds DEF WsNext, Receives

\* Every step leaves a client that has not subscribed without payloads.
LEMMA FreshStep ==
  ASSUME TypeOK, BootQuiet, LockInv, FreshInv, [Next]_vars
  PROVE  FreshInv'
<1> SUFFICES ASSUME NEW c \in Clients, ws'[c] \in {"out", "upgraded", "counted"}
             PROVE  got'[c] = <<>> /\ missed'[c] = {}
  BY DEF FreshInv
<1>1. ASSUME Receives(c)
      PROVE  FALSE
  BY <1>1 DEF Receives, WsSubscribe, WsLagged, WsDeliver, WsWriteFails, Take, Goto, TypeOK
<1> QED
  BY <1>1, ClientKinds DEF Untouched, FreshInv

\* Every step keeps the bound on what a receiver has ahead of it.
LEMMA LoadStep ==
  ASSUME TypeOK, Tailed, BootQuiet, LockInv, ChanInv, LoadInv, [Next]_vars
  PROVE  LoadInv'
<1> SUFFICES ASSUME NEW c \in Clients, ws'[c] \in HasReceiver
             PROVE  /\ since'[c] <= accepted'
                    /\ Len(chan') - cursor'[c] + Len(pending')
                         <= PendingCap + accepted' - since'[c]
  BY DEF LoadInv
<1>1. /\ Len(chan) \in Nat /\ Len(pending) \in Nat /\ accepted \in Nat
      /\ Len(pending) <= PendingCap /\ Len(pending) <= accepted
      /\ cursor[c] \in Nat /\ since[c] \in Nat /\ PendingCap \in Nat
      /\ BroadcastCap \in Nat
  BY CapAssumption DEF TypeOK, Tailed
<1>2. CASE Untouched(c) /\ PushStep
  <2>1. /\ accepted' = accepted + 1 /\ Len(pending') \in {Len(pending), Len(pending) + 1}
        /\ chan' = chan
    BY <1>2, PushEffect DEF PushStep
  <2>2. /\ since[c] <= accepted /\ cursor'[c] = cursor[c] /\ since'[c] = since[c]
        /\ Len(chan) - cursor[c] + Len(pending) <= PendingCap + accepted - since[c]
    BY <1>2 DEF Untouched, LoadInv
  <2>3. /\ Len(chan') = Len(chan) /\ accepted' = accepted + 1
        /\ Len(pending') <= Len(pending) + 1 /\ Len(pending') \in Nat
    BY <2>1, <1>1
  <2> QED
    BY <2>2, <2>3, <1>1
<1>3. CASE Untouched(c) /\ DrainStep
  <2>1. /\ accepted' = accepted /\ Len(pending') = Len(pending) - 1
        /\ TxSend(Out + 1) /\ Out + 1 \in Nat
    BY <1>3, DrainEffect DEF DrainStep
  <2>2. Len(chan') \in {Len(chan), Len(chan) + 1}
    BY <2>1, ElemsAppend DEF TxSend, TypeOK
  <2> QED
    BY <2>1, <2>2, <1>1, <1>3 DEF Untouched, LoadInv
<1>4. CASE Untouched(c) /\ StillStep
  BY <1>4 DEF Untouched, StillStep, LoadInv
<1>5. CASE WsSubscribe(c) /\ StillStep
  <2>1. cursor'[c] = Len(chan) /\ since'[c] = accepted
    BY <1>5 DEF WsSubscribe, TypeOK
  <2> QED
    BY <2>1, <1>1, <1>5 DEF StillStep
<1>6. CASE (WsLagged(c) \/ Take(c)) /\ StillStep /\ since' = since
  <2>1. cursor'[c] \in Nat /\ cursor[c] <= cursor'[c] /\ ws[c] = "loop"
    BY <1>1, <1>6 DEF WsLagged, Take, TypeOK
  <2>2. /\ since[c] <= accepted
        /\ Len(chan) - cursor[c] + Len(pending) <= PendingCap + accepted - since[c]
    BY <2>1 DEF LoadInv, HasReceiver
  <2> QED
    BY <2>1, <2>2, <1>1, <1>6 DEF StillStep
<1> QED
  BY <1>2, <1>3, <1>4, <1>5, <1>6, ClientKinds
  DEF Receives, WsLagged, WsDeliver, WsWriteFails

\* Every step keeps LagOnlyUnderLoad.
LEMMA LagStep ==
  ASSUME TypeOK, Tailed, BootQuiet, LockInv, FreshInv, LoadInv, LagOnlyUnderLoad,
         [Next]_vars
  PROVE  LagOnlyUnderLoad'
<1> SUFFICES ASSUME NEW c \in Clients, missed'[c] # {}
             PROVE  accepted' - since'[c] > BroadcastCap - PendingCap
  BY DEF LagOnlyUnderLoad
<1>1. /\ Len(chan) \in Nat /\ Len(pending) \in Nat /\ accepted \in Nat
      /\ cursor[c] \in Nat /\ since[c] \in Nat /\ PendingCap \in Nat
      /\ BroadcastCap \in Nat
  BY CapAssumption DEF TypeOK
<1>2. accepted' \in {accepted, accepted + 1}
  BY StepKinds, PushEffect DEF DrainStep, StillStep, PushStep
<1>3. CASE missed'[c] = missed[c] /\ since'[c] = since[c]
  BY <1>1, <1>2, <1>3 DEF LagOnlyUnderLoad
<1>4. CASE WsSubscribe(c)
  BY <1>4 DEF WsSubscribe, Goto, FreshInv
<1>5. CASE WsLagged(c)
  <2>1. /\ ws[c] = "loop" /\ cursor[c] < Len(chan) - BroadcastCap
        /\ since' = since /\ accepted' = accepted
    BY <1>5 DEF WsLagged, fateVars
  <2>2. Len(chan) - cursor[c] + Len(pending) <= PendingCap + accepted - since[c]
    BY <2>1 DEF LoadInv, HasReceiver
  <2> QED
    BY <2>1, <2>2, <1>1
<1> QED
  BY <1>3, <1>4, <1>5, ClientKinds DEF Receives, Untouched, WsDeliver, WsWriteFails
\* Where a payload that c is owed can be.
Places(c) == Elems(got[c]) \cup Ahead(c) \cup evicted \cup missed[c] \cup Elems(pending)

\* Every step keeps every payload owed to a client in one of its places.
LEMMA OwedStep ==
  ASSUME TypeOK, Tailed, BootQuiet, LockInv, ChanInv, OwedInv, [Next]_vars
  PROVE  OwedInv'
<1> SUFFICES ASSUME NEW c \in Clients, ws'[c] \in IsAttached
             PROVE  floor'[c] <= accepted' /\ Owed(c)' \subseteq Places(c)'
  BY DEF OwedInv, Places
<1>1. /\ Len(chan) \in Nat /\ Len(pending) \in Nat /\ accepted \in Nat /\ Out \in Nat
      /\ Out <= accepted /\ cursor[c] \in Nat /\ floor[c] \in Nat
      /\ cursor[c] <= Len(chan) /\ BroadcastCap \in Nat
  BY CapAssumption DEF TypeOK, Tailed, ChanInv, Out
<1>2. Elems(pending) = Out + 1 .. accepted
  BY PendingIsInterval
<1>3. ws[c] \in IsAttached => floor[c] <= accepted /\ Owed(c) \subseteq Places(c)
  BY DEF OwedInv, Places
<1>4. CASE Untouched(c) /\ PushStep
  <2>1. /\ accepted' = accepted + 1 /\ pending' \in Seq(Nat) /\ Tailed' /\ TypeOK'
        /\ \/ Out' = Out /\ evicted' = evicted
           \/ Out' = Out + 1 /\ evicted' = evicted \cup {Out + 1}
    BY <1>4, PushEffect, TypeStep DEF PushStep
  <2>2. Elems(pending') = Out' + 1 .. accepted'
    BY <2>1, PendingIsIntervalNext
  <2>3. /\ Owed(c)' \subseteq Owed(c) \cup {accepted + 1}
        /\ Elems(pending) \cup {accepted + 1} \subseteq Elems(pending') \cup evicted'
        /\ evicted \subseteq evicted'
    <3>1. floor'[c] = floor[c]
      BY <1>4 DEF Untouched
    <3>2. Owed(c)' \subseteq Owed(c) \cup {accepted + 1}
      BY <3>1, <2>1, <1>1 DEF Owed
    <3>3. Elems(pending) \cup {accepted + 1} \subseteq Elems(pending') \cup evicted'
      BY <2>1, <2>2, <1>1, <1>2
    <3> QED
      BY <3>2, <3>3, <2>1
  <2>4. /\ Elems(got[c]') = Elems(got[c]) /\ Ahead(c)' = Ahead(c) /\ missed'[c] = missed[c]
    BY <1>4 DEF Untouched, PushStep, Ahead
  <2> QED
    BY <2>1, <2>3, <2>4, <1>1, <1>3, <1>4 DEF Places, Untouched
<1>5. CASE Untouched(c) /\ DrainStep
  <2>1. /\ accepted' = accepted /\ Tailed' /\ TypeOK' /\ evicted' = evicted
        /\ Out' = Out + 1 /\ TxSend(Out + 1)
    BY <1>5, DrainEffect, TypeStep DEF DrainStep
  <2>2. Elems(pending') = Out' + 1 .. accepted'
    BY <2>1, PendingIsIntervalNext
  <2>3. Elems(pending) \subseteq {Out + 1} \cup Elems(pending')
    BY <2>1, <2>2, <1>1, <1>2
  <2>4. Subscribers # {}
    BY <1>5 DEF Untouched, Subscribers, IsAttached, HasReceiver
  <2>5. /\ chan' = Append(chan, Out + 1) /\ Len(chan') = Len(chan) + 1
        /\ \A i \in 1 .. Len(chan) : chan'[i] = chan[i]
        /\ chan'[Len(chan) + 1] = Out + 1
    <3>1. chan' = Append(chan, Out + 1)
      BY <2>1, <2>4 DEF TxSend
    <3> QED
      BY <3>1, <1>1, ElemsAppend DEF TypeOK
  <2>6. Ahead(c) \cup {Out + 1} \subseteq Ahead(c)'
    <3>1. cursor'[c] = cursor[c]
      BY <1>5 DEF Untouched
    <3>2. ASSUME NEW i \in cursor[c] + 1 .. Len(chan)
          PROVE  i \in cursor'[c] + 1 .. Len(chan') /\ chan'[i] = chan[i]
      BY <3>1, <3>2, <2>5, <1>1
    <3>3. Len(chan) + 1 \in cursor'[c] + 1 .. Len(chan')
      BY <3>1, <2>5, <1>1
    <3> QED
      BY <3>2, <3>3, <2>5 DEF Ahead
  <2>7. /\ Owed(c)' = Owed(c) /\ Elems(got[c]') = Elems(got[c]) /\ missed'[c] = missed[c]
        /\ floor'[c] = floor[c]
    BY <1>5, <2>1 DEF Untouched, Owed
  <2> QED
    BY <2>1, <2>3, <2>6, <2>7, <1>3, <1>5 DEF Places, Untouched
<1>6. CASE Untouched(c) /\ StillStep
  <2>1. Owed(c)' = Owed(c) /\ Places(c)' = Places(c)
    BY <1>6 DEF Untouched, StillStep, Owed, Places, Ahead
  <2> QED
    BY <2>1, <1>3, <1>6 DEF Untouched, StillStep
<1>7. CASE WsSubscribe(c) /\ StillStep
  <2>1. floor'[c] = Out /\ accepted' = accepted /\ Elems(pending') = Elems(pending)
    BY <1>7 DEF WsSubscribe, TypeOK, StillStep, Out
  <2> QED
    BY <2>1, <1>1, <1>2 DEF Owed, Places
<1>8. CASE WsLagged(c) /\ StillStep
  <2> DEFINE oldest == Len(chan) - BroadcastCap
  <2>1. /\ ws[c] = "loop" /\ cursor[c] < oldest /\ cursor'[c] = oldest
        /\ missed'[c] = missed[c] \cup {chan[i] : i \in cursor[c] + 1 .. oldest}
        /\ floor' = floor /\ got' = got /\ chan' = chan
    BY <1>8 DEF WsLagged, TypeOK, hubVars
  <2>2. Ahead(c) \subseteq {chan[i] : i \in cursor[c] + 1 .. oldest} \cup Ahead(c)'
    <3>1. ASSUME NEW i \in cursor[c] + 1 .. Len(chan)
          PROVE  i \in cursor[c] + 1 .. oldest \/ i \in cursor'[c] + 1 .. Len(chan')
      BY <3>1, <2>1, <1>1
    <3> QED
      BY <3>1, <2>1 DEF Ahead
  <2>3. Owed(c)' = Owed(c) /\ accepted' = accepted /\ pending' = pending /\ evicted' = evicted
    BY <2>1, <1>8 DEF Owed, StillStep
  <2> HIDE DEF oldest
  <2> QED
    BY <2>1, <2>2, <2>3, <1>3 DEF Places, IsAttached
<1>9. CASE WsDeliver(c) /\ StillStep
  <2>1. /\ ws[c] = "loop" /\ cursor[c] < Len(chan) /\ cursor'[c] = cursor[c] + 1
        /\ got'[c] = Append(got[c], chan[cursor[c] + 1])
        /\ missed' = missed /\ floor' = floor /\ chan' = chan
    BY <1>9 DEF WsDeliver, Take, TypeOK, hubVars
  <2>2. Elems(got'[c]) = Elems(got[c]) \cup {chan[cursor[c] + 1]}
    <3>1. chan[cursor[c] + 1] \in Nat /\ got[c] \in Seq(Nat)
      BY <2>1, <1>1 DEF TypeOK
    <3> QED
      BY <3>1, <2>1, ElemsAppend
  <2>3. Ahead(c) \subseteq {chan[cursor[c] + 1]} \cup Ahead(c)'
    <3>1. ASSUME NEW i \in cursor[c] + 1 .. Len(chan)
          PROVE  i = cursor[c] + 1 \/ i \in cursor'[c] + 1 .. Len(chan')
      BY <3>1, <2>1, <1>1
    <3> QED
      BY <3>1, <2>1 DEF Ahead
  <2>4. Owed(c)' = Owed(c) /\ accepted' = accepted /\ pending' = pending /\ evicted' = evicted
    BY <2>1, <1>9 DEF Owed, StillStep
  <2> QED
    BY <2>1, <2>2, <2>3, <2>4, <1>3 DEF Places, IsAttached
<1>10. CASE WsWriteFails(c)
  BY <1>10 DEF WsWriteFails, TypeOK, IsAttached
<1> QED
  BY <1>4, <1>5, <1>6, <1>7, <1>8, <1>9, <1>10, ClientKinds DEF Receives

\* Every step keeps what a client got older than what is ahead of it.
LEMMA OrderStep ==
  ASSUME TypeOK, Tailed, BootQuiet, LockInv, ChanInv, OrderInv, [Next]_vars
  PROVE  OrderInv'
<1> SUFFICES ASSUME NEW c \in Clients, NEW i \in 1 .. Len(got'[c])
             PROVE  /\ got'[c][i] <= Out'
                    /\ \A j \in cursor'[c] + 1 .. Len(chan') : got'[c][i] < chan'[j]
  BY DEF OrderInv
<1>1. /\ Len(chan) \in Nat /\ Out \in Nat /\ cursor[c] \in Nat /\ cursor[c] <= Len(chan)
      /\ got[c] \in Seq(Nat) /\ Len(got[c]) \in Nat /\ BroadcastCap \in Nat
  BY CapAssumption DEF TypeOK, Tailed, ChanInv, Out
<1>2. CASE got'[c] = got[c] /\ chan' = chan /\ Out' \in {Out, Out + 1}
           /\ cursor'[c] \in Nat /\ cursor'[c] >= cursor[c]
  <2>1. got[c][i] \in Nat /\ got[c][i] <= Out
    BY <1>1, <1>2 DEF OrderInv
  <2>2. \A j \in cursor'[c] + 1 .. Len(chan) : j \in cursor[c] + 1 .. Len(chan)
    BY <1>1, <1>2
  <2> QED
    BY <2>1, <2>2, <1>1, <1>2 DEF OrderInv
<1>3. CASE Untouched(c) /\ DrainStep
  <2>1. Out' = Out + 1 /\ TxSend(Out + 1) /\ got'[c] = got[c] /\ cursor'[c] = cursor[c]
    BY <1>3, DrainEffect DEF DrainStep, Untouched
  <2>2. CASE chan' = chan
    BY <2>1, <2>2, <1>1, <1>2
  <2>3. CASE chan' = Append(chan, Out + 1)
    <3>1. /\ Len(chan') = Len(chan) + 1 /\ chan'[Len(chan) + 1] = Out + 1
          /\ \A j \in 1 .. Len(chan) : chan'[j] = chan[j]
      BY <2>3, <1>1, ElemsAppend DEF TypeOK
    <3>2. got[c][i] \in Nat /\ got[c][i] <= Out
      BY <1>1, <2>1 DEF OrderInv
    <3>3. ASSUME NEW j \in cursor[c] + 1 .. Len(chan')
          PROVE  got[c][i] < chan'[j]
      <4>1. CASE j = Len(chan) + 1
        BY <4>1, <3>1, <3>2, <1>1
      <4>2. CASE j \in cursor[c] + 1 .. Len(chan)
        BY <4>2, <3>1, <2>1, <1>1 DEF OrderInv
      <4> QED
        BY <4>1, <4>2, <3>1, <1>1
    <3> QED
      BY <3>2, <3>3, <2>1, <1>1
  <2> QED
    BY <2>1, <2>2, <2>3 DEF TxSend
<1>4. CASE Untouched(c) /\ (PushStep \/ StillStep)
  <2>1. chan' = chan /\ Out' \in {Out, Out + 1}
    BY <1>4, PushEffect DEF PushStep, StillStep, Out
  <2> QED
    BY <2>1, <1>1, <1>2, <1>4 DEF Untouched
<1>5. CASE StillStep /\ (WsSubscribe(c) \/ WsLagged(c) \/ WsWriteFails(c))
  <2>1. chan' = chan /\ Out' = Out /\ got' = got
    BY <1>5 DEF StillStep, Out, WsSubscribe, WsLagged, WsWriteFails
  <2>2. cursor'[c] \in Nat /\ cursor'[c] >= cursor[c]
    BY <1>1, <1>5 DEF WsSubscribe, WsLagged, WsWriteFails, Take, TypeOK
  <2> QED
    BY <2>1, <2>2, <1>2
<1>6. CASE StillStep /\ WsDeliver(c)
  <2>1. /\ chan' = chan /\ Out' = Out /\ cursor'[c] = cursor[c] + 1
        /\ cursor[c] < Len(chan) /\ got'[c] = Append(got[c], chan[cursor[c] + 1])
    BY <1>6 DEF StillStep, Out, WsDeliver, Take, TypeOK
  <2>2. chan[cursor[c] + 1] \in 1 .. Out
    BY <2>1, <1>1 DEF ChanInv
  <2>3. /\ Len(got'[c]) = Len(got[c]) + 1
        /\ got'[c][Len(got[c]) + 1] = chan[cursor[c] + 1]
        /\ \A k \in 1 .. Len(got[c]) : got'[c][k] = got[c][k]
    BY <2>1, <2>2, <1>1, ElemsAppend
  <2>4. CASE i = Len(got[c]) + 1
    <3>1. \A j \in cursor[c] + 2 .. Len(chan) : chan[cursor[c] + 1] < chan[j]
      <4> TAKE j \in cursor[c] + 2 .. Len(chan)
      <4>1. cursor[c] + 1 \in 1 .. Len(chan) /\ j \in 1 .. Len(chan) /\ cursor[c] + 1 < j
        BY <2>1, <1>1
      <4> QED
        BY <4>1 DEF ChanInv
    <3> QED
      BY <3>1, <2>1, <2>2, <2>3, <2>4, <1>1
  <2>5. CASE i \in 1 .. Len(got[c])
    BY <2>1, <2>3, <2>5, <1>1 DEF OrderInv
  <2> QED
    BY <2>3, <2>4, <2>5, <1>1
<1> QED
  BY <1>3, <1>4, <1>5, <1>6, ClientKinds DEF Receives
-----------------------------------------------------------------------------
(* Replies and the connection counter.                                     *)

\* Every step keeps the bookkeeping of replies.
LEMMA ReplyStep ==
  ASSUME TypeOK, Tailed, BootQuiet, LockInv, ReplyInv, [Next]_vars
  PROVE  ReplyInv'
<1> SUFFICES ASSUME NEW h \in Handlers
             PROVE  mine'[h] <= accepted' /\ (ipc'[h] = "reading" => mine'[h] = 0)
  BY DEF ReplyInv
<1>1. accepted' \in {accepted, accepted + 1} /\ accepted \in Nat /\ mine[h] \in Nat
  BY StepKinds, PushEffect DEF DrainStep, StillStep, PushStep, TypeOK
<1>2. CASE ipc' = ipc /\ mine' = mine
  BY <1>1, <1>2 DEF ReplyInv
<1>3. ASSUME NEW k \in Handlers, IpcPush(k)
      PROVE  mine'[h] <= accepted' /\ (ipc'[h] = "reading" => mine'[h] = 0)
  <2>1. accepted' = accepted + 1
    BY <1>3, PushEffect DEF IpcPush
  <2> QED
    BY <1>1, <1>3, <2>1 DEF IpcPush, ReplyInv, TypeOK
<1>4. ASSUME NEW k \in Handlers, IpcCount(k) \/ IpcDrain(k) \/ IpcPing(k)
      PROVE  mine'[h] <= accepted' /\ (ipc'[h] = "reading" => mine'[h] = 0)
  <2>1. mine' = mine /\ (ipc'[h] = "reading" => ipc[h] = "reading")
    BY <1>4 DEF IpcCount, IpcDrain, IpcPing, TypeOK
  <2> QED
    BY <1>1, <2>1 DEF ReplyInv
<1>5. ASSUME NEW k \in Handlers, IpcReply(k)
      PROVE  mine'[h] <= accepted' /\ (ipc'[h] = "reading" => mine'[h] = 0)
  BY <1>1, <1>5 DEF IpcReply, ReplyInv, TypeOK
<1> QED
  BY <1>2, <1>3, <1>4, <1>5
  DEF Next, IpcNext, WsNext, ReplayFile, Serve, WsAccept, WsCount, WsSubscribe,
      WsReplayBegin, WsReplay, WsLagged, WsDeliver, WsWriteFails, WsClose, WsUncount,
      WsReturn, vars, ipcVars

\* Every step keeps NoWarningMeansSent.
LEMMA NoWarningStep ==
  ASSUME TypeOK, Tailed, BootQuiet, LockInv, ChanInv, ReplyInv, NoWarningMeansSent,
         [Next]_vars
  PROVE  NoWarningMeansSent'
<1> SUFFICES ASSUME NEW h \in Handlers, ipc'[h] = "replying", seen'[h]
             PROVE  mine'[h] \notin Elems(pending')
  BY DEF NoWarningMeansSent
<1>1. /\ accepted \in Nat /\ Out \in Nat /\ mine[h] \in Nat
      /\ Elems(pending) = Out + 1 .. accepted
  BY PendingIsInterval DEF TypeOK, Tailed, Out
<1>2. TypeOK' /\ Tailed' /\ Elems(pending') = Out' + 1 .. accepted'
  BY TypeStep, TailedStep, PendingIsIntervalNext
<1>3. Out' \in Nat /\ Out' >= Out /\ accepted' \in Nat
  <2>1. CASE PushStep
    BY <2>1, <1>1, PushEffect DEF PushStep
  <2>2. CASE DrainStep
    BY <2>2, <1>1, DrainEffect DEF DrainStep
  <2>3. CASE StillStep
    <3>1. Out' = Out /\ accepted' = accepted
      BY <2>3 DEF StillStep, Out
    <3> QED
      BY <3>1, <1>1
  <2> QED
    BY <2>1, <2>2, <2>3, StepKinds
<1>4. CASE ipc' = ipc /\ mine' = mine /\ seen' = seen
  <2>1. mine[h] \notin Elems(pending) /\ mine[h] <= accepted
    BY <1>4 DEF NoWarningMeansSent, ReplyInv
  <2> QED
    BY <2>1, <1>1, <1>2, <1>3, <1>4
<1>5. ASSUME NEW k \in Handlers, k # h, IpcNext(k)
      PROVE  mine'[h] \notin Elems(pending')
  <2>1. ipc'[h] = ipc[h] /\ mine'[h] = mine[h] /\ seen'[h] = seen[h]
    BY <1>5 DEF IpcNext, IpcPush, IpcCount, IpcDrain, IpcPing, IpcReply, TypeOK
  <2>2. mine[h] \notin Elems(pending) /\ mine[h] <= accepted
    BY <2>1 DEF NoWarningMeansSent, ReplyInv
  <2> QED
    BY <2>1, <2>2, <1>1, <1>2, <1>3
<1>6. ASSUME IpcPush(h) \/ IpcCount(h) \/ IpcReply(h)
      PROVE  FALSE
  BY <1>6 DEF IpcPush, IpcCount, IpcReply, TypeOK
<1>7. CASE IpcDrain(h)
  <2>1. Len(pending) = 1
    BY <1>7 DEF IpcDrain
  <2>2. pending' = <<>>
    BY <1>7, <2>1, HeadAndTail DEF IpcDrain, DrainOne, TypeOK
  <2> QED
    BY <2>2 DEF Elems
<1>8. CASE IpcPing(h)
  <2>1. mine'[h] = 0
    <3>1. mine' = mine /\ ipc[h] = "reading"
      BY <1>8 DEF IpcPing
    <3> QED
      BY <3>1 DEF ReplyInv
  <2>2. \A o, a \in Nat : 0 \notin o + 1 .. a
    OBVIOUS
  <2> QED
    BY <2>1, <2>2, <1>2, <1>3
<1>9. (ipc' = ipc /\ mine' = mine /\ seen' = seen) \/ \E k \in Handlers : IpcNext(k)
  BY DEF Next, WsNext, ReplayFile, Serve, WsAccept, WsCount, WsSubscribe,
         WsReplayBegin, WsReplay, WsLagged, WsDeliver, WsWriteFails, WsClose, WsUncount,
         WsReturn, vars, ipcVars
<1> QED
  BY <1>4, <1>5, <1>6, <1>7, <1>8, <1>9 DEF IpcNext

CountedClients == {c \in Clients : ws[c] \in IsCounted}

\* Every step keeps ConnectedIsExact.
LEMMA ConnectedStep ==
  ASSUME TypeOK, LockInv, ConnectedIsExact, [Next]_vars
  PROVE  ConnectedIsExact'
<1> USE DEF IsCounted
<1>1. /\ IsFiniteSet(CountedClients) /\ Cardinality(CountedClients) \in Nat
      /\ connected = Cardinality(CountedClients)
  <2>1. CountedClients \in SUBSET Clients
    BY DEF CountedClients
  <2>2. IsFiniteSet(CountedClients)
    BY <2>1, TaskAssumption, FS_Subset
  <2> QED
    BY <2>2, FS_CardinalityType DEF CountedClients, ConnectedIsExact
<1>2. SUFFICES connected' = Cardinality(CountedClients')
  BY DEF CountedClients, ConnectedIsExact
<1>3. CASE connected' = connected /\ CountedClients' = CountedClients
  BY <1>1, <1>3
<1>4. ASSUME NEW c \in Clients, WsCount(c)
      PROVE  connected' = Cardinality(CountedClients')
  <2>1. /\ c \notin CountedClients /\ connected' = connected + 1
        /\ CountedClients' = CountedClients \cup {c}
    BY <1>4 DEF WsCount, Goto, CountedClients, TypeOK
  <2> QED
    BY <2>1, <1>1, FS_AddElement
<1>5. ASSUME NEW c \in Clients, WsUncount(c)
      PROVE  connected' = Cardinality(CountedClients')
  <2>1. /\ c \in CountedClients /\ CountedClients' = CountedClients \ {c}
        /\ connected' = IF connected = 0 THEN 0 ELSE connected - 1
    BY <1>5 DEF WsUncount, Goto, CountedClients, TypeOK
  <2>2. Cardinality(CountedClients) # 0
    BY <2>1, <1>1, FS_EmptySet
  <2> QED
    BY <2>1, <2>2, <1>1, FS_RemoveElement
<1>6. ASSUME NEW c \in Clients,
             \/ WsAccept(c) \/ WsSubscribe(c) \/ WsReplayBegin(c) \/ WsReplay(c)
             \/ WsLagged(c) \/ WsDeliver(c) \/ WsWriteFails(c) \/ WsClose(c)
             \/ WsReturn(c)
      PROVE  connected' = connected /\ CountedClients' = CountedClients
  <2>1. connected' = connected
    BY <1>6 DEF WsAccept, WsSubscribe, WsReplayBegin, WsReplay, WsLagged, WsDeliver,
                WsWriteFails, WsClose, WsReturn, hubVars
  <2>2. \A d \in Clients : ws'[d] \in IsCounted <=> ws[d] \in IsCounted
    BY <1>6, TaskAssumption
    DEF WsAccept, WsSubscribe, WsReplayBegin, WsReplay, WsLagged, WsDeliver,
        WsWriteFails, Take, WsClose, WsReturn, Goto, TypeOK, DrainOne, LockInv
  <2> QED
    BY <2>1, <2>2 DEF CountedClients
<1>7. ASSUME UNCHANGED <<ws, connected>>
      PROVE  connected' = connected /\ CountedClients' = CountedClients
  BY <1>7 DEF CountedClients
<1>8. UNCHANGED <<ws, connected>> \/ \E c \in Clients : WsNext(c)
  BY DEF Next, IpcNext, ReplayFile, Serve, IpcPush, IpcCount, IpcDrain, IpcPing,
         IpcReply, vars, hubVars, wsVars
<1> QED
  BY <1>3, <1>4, <1>5, <1>6, <1>7, <1>8 DEF WsNext
-----------------------------------------------------------------------------
(* The theorems.                                                           *)

\* The inductive invariant holds initially ...
LEMMA InitInv == Init => IInv
<1> SUFFICES ASSUME Init
             PROVE  IInv
  OBVIOUS
<1> USE CapAssumption, TaskAssumption DEF Init
<1>1. TypeOK
  BY DEF TypeOK, WsStage, IpcStage
<1>2. Tailed /\ Out = 0
  <2>1. Len(pending) = 0 /\ accepted = 0
    OBVIOUS
  <2>2. Out = 0
    BY ONLY <2>1 DEF Out
  <2>3. Tailed
    BY ONLY <2>1 DEF Tailed
  <2> QED
    BY <2>2, <2>3
<1>3. BootQuiet /\ LockInv /\ DrainInv /\ UnheardOnlyAfterDeparture /\ NoStrandedBacklog
  BY DEF BootQuiet, LockInv, DrainInv, UnheardOnlyAfterDeparture, NoStrandedBacklog
<1>4. ChanInv /\ FreshInv /\ LagOnlyUnderLoad
  BY DEF ChanInv, FreshInv, LagOnlyUnderLoad
<1>5. LoadInv /\ OwedInv
  BY DEF LoadInv, OwedInv, HasReceiver, IsAttached
<1>6. ReplyInv /\ NoWarningMeansSent
  BY DEF ReplyInv, NoWarningMeansSent
<1>7. FateInv
  <2>1. Elems(chan) = {}
    BY DEF Elems
  <2> QED
    BY <1>2, <2>1 DEF FateInv
<1>8. OrderInv
  BY DEF OrderInv
<1>9. ConnectedIsExact
  <2>1. {c \in Clients : ws[c] \in IsCounted} = {}
    BY DEF IsCounted
  <2> QED
    BY <2>1, FS_EmptySet DEF ConnectedIsExact
<1> QED
  BY <1>1, <1>2, <1>3, <1>4, <1>5, <1>6, <1>7, <1>8, <1>9 DEF IInv

\* ... and every step keeps it.
LEMMA NextInv == IInv /\ [Next]_vars => IInv'
<1> SUFFICES ASSUME IInv, [Next]_vars
             PROVE  IInv'
  OBVIOUS
<1> QED
  BY TypeStep, TailedStep, BootQuietStep, LockStep, DrainInvStep, UnheardStep,
     NoStrandedStep, ChanStep, FateStep, FreshStep, LoadStep, LagStep, OwedStep,
     OrderStep, ReplyStep, NoWarningStep, ConnectedStep
  DEF IInv

\* The inductive invariant holds of every reachable state of the daemon's memory.
THEOREM InductiveInvariant == Spec => []IInv
  BY InitInv, NextInv, PTL DEF Spec

\* Every variable keeps to its type and pending to its capacity (mod.rs:30).
THEOREM TypeCorrect == Spec => []TypeOK
<1>1. IInv => TypeOK
  BY DEF IInv
<1> QED
  BY <1>1, InductiveInvariant, PTL

\* With an attached client and the mutex free, nothing waits (ws.rs:73-78).
THEOREM BacklogIsNeverStranded == Spec => []NoStrandedBacklog
<1>1. IInv => NoStrandedBacklog
  BY DEF IInv
<1> QED
  BY <1>1, InductiveInvariant, PTL

\* The replay of a full buffer never makes a client lag by itself (mod.rs:27, 32).
THEOREM LagNeedsLoad == Spec => []LagOnlyUnderLoad
<1>1. IInv => LagOnlyUnderLoad
  BY DEF IInv
<1> QED
  BY <1>1, InductiveInvariant, PTL

\* The counter the idle watchdog reads counts the attached clients.
THEOREM ConnectedIsAlwaysExact == Spec => []ConnectedIsExact
<1>1. IInv => ConnectedIsExact
  BY DEF IInv
<1> QED
  BY <1>1, InductiveInvariant, PTL

\* A reply that silences the sender's warning follows the payload's departure.
THEOREM RepliesAreHonest == Spec => []NoWarningMeansSent
<1>1. IInv => NoWarningMeansSent
  BY DEF IInv
<1> QED
  BY <1>1, InductiveInvariant, PTL

\* Nothing is sent to nobody unless a client has left.
THEOREM UnheardNeedsDeparture == Spec => []UnheardOnlyAfterDeparture
<1>1. IInv => UnheardOnlyAfterDeparture
  BY DEF IInv
<1> QED
  BY <1>1, InductiveInvariant, PTL

\* A client in its loop has got, or is about to get, all it is owed.
THEOREM NothingIsForgotten == Spec => []NothingOwedIsForgotten
<1>1. IInv => NothingOwedIsForgotten
  <2> SUFFICES ASSUME IInv, NEW c \in Clients, ws[c] = "loop", holder = Free
               PROVE  floor[c] + 1 .. accepted
                        \subseteq Elems(got[c]) \cup Ahead(c) \cup evicted \cup missed[c]
    BY DEF NothingOwedIsForgotten
  <2>1. Elems(pending) = {}
    <3>1. pending = <<>>
      BY DEF IInv, NoStrandedBacklog, HasReceiver
    <3> QED
      BY <3>1 DEF Elems
  <2> QED
    BY <2>1 DEF IInv, OwedInv, Owed, IsAttached
<1> QED
  BY <1>1, InductiveInvariant, PTL

\* Every accepted payload has exactly one fate.
THEOREM EveryPayloadSettlesOnce == Spec => []SettledOnce
<1>1. IInv => SettledOnce
  <2> SUFFICES ASSUME IInv
               PROVE  SettledOnce
    OBVIOUS
  <2> DEFINE fates == <<Elems(pending), Elems(chan), evicted, unheard>>
  <2>1. /\ TypeOK /\ Tailed /\ ChanInv /\ FateInv
        /\ Elems(pending) = Out + 1 .. accepted
        /\ Out \in Nat /\ accepted \in Nat /\ Out <= accepted
    BY PendingIsInterval DEF IInv, TypeOK, Tailed, Out
  <2>2. /\ (1 .. Out) \cup Elems(pending) = 1 .. accepted
        /\ (1 .. Out) \cap Elems(pending) = {}
    BY <2>1
  <2>3. UNION {fates[i] : i \in 1 .. 4} = 1 .. accepted
    <3>1. UNION {fates[i] : i \in 1 .. 4}
            = fates[1] \cup fates[2] \cup fates[3] \cup fates[4]
      <4>1. 1 .. 4 = {1, 2, 3, 4}
        OBVIOUS
      <4> HIDE DEF fates
      <4> QED
        BY <4>1
    <3> QED
      BY <3>1, <2>1, <2>2 DEF FateInv
  <2>4. \A i, j \in 1 .. 4 : i # j => fates[i] \cap fates[j] = {}
    <3>1. /\ Elems(pending) \cap Elems(chan) = {} /\ Elems(pending) \cap evicted = {}
          /\ Elems(pending) \cap unheard = {} /\ Elems(chan) \cap evicted = {}
          /\ Elems(chan) \cap unheard = {} /\ evicted \cap unheard = {}
      BY <2>1, <2>2 DEF FateInv
    <3>2. /\ fates[1] \cap fates[2] = {} /\ fates[1] \cap fates[3] = {}
          /\ fates[1] \cap fates[4] = {} /\ fates[2] \cap fates[3] = {}
          /\ fates[2] \cap fates[4] = {} /\ fates[3] \cap fates[4] = {}
      BY <3>1
    <3>3. 1 .. 4 = {1, 2, 3, 4}
      OBVIOUS
    <3> HIDE DEF fates
    <3> QED
      BY <3>2, <3>3
  <2>5. NoRepeats(pending)
    <3> SUFFICES ASSUME NEW i \in 1 .. Len(pending), NEW j \in 1 .. Len(pending),
                        pending[i] = pending[j]
                 PROVE  i = j
      BY DEF NoRepeats
    <3> QED
      BY <2>1 DEF Tailed
  <2>6. NoRepeats(chan)
    <3> SUFFICES ASSUME NEW i \in 1 .. Len(chan), NEW j \in 1 .. Len(chan),
                        chan[i] = chan[j]
                 PROVE  i = j
      BY DEF NoRepeats
    <3>1. ~(i < j) /\ ~(j < i)
      BY <2>1 DEF ChanInv, TypeOK
    <3> QED
      BY <3>1
  <2> QED
    BY <2>3, <2>4, <2>5, <2>6 DEF SettledOnce
<1> QED
  BY <1>1, InductiveInvariant, PTL

\* Capacity costs nothing to a client that is past its replay.
THEOREM ServedClientsLoseNothingToCapacity == Spec => NoEvictionWhileServed
<1>1. IInv /\ [Next]_vars =>
        [evicted' # evicted =>
           \A c \in Clients : ws[c] \notin HasReceiver \ {"subscribed"}]_vars
  <2> SUFFICES ASSUME IInv, [Next]_vars, evicted' # evicted
               PROVE  \A c \in Clients : ws[c] \notin HasReceiver \ {"subscribed"}
    OBVIOUS
  <2>1. PushStep
    BY StepKinds DEF IInv, DrainStep, StillStep
  <2>2. Len(pending) = PendingCap
    BY <2>1, PushEffect DEF PushStep, IInv
  <2>3. pending # <<>>
    BY <2>2, CapAssumption
  <2> QED
    BY <2>1, <2>3 DEF IInv, NoStrandedBacklog, PushStep
<1> QED
  BY <1>1, InductiveInvariant, PTL DEF Spec, NoEvictionWhileServed

-----------------------------------------------------------------------------
(* The hub implements Mailbox.                                             *)

\* The set of waiting payloads, as module Mailbox sees it.
LEMMA WaitingSet ==
  ASSUME TypeOK, Tailed
  PROVE  /\ Elems(pending) = Out + 1 .. accepted
         /\ IsFiniteSet(Elems(pending))
         /\ Cardinality(Elems(pending)) = Len(pending)
         /\ Out \in Nat /\ accepted \in Nat /\ Len(pending) = accepted - Out
<1>1. /\ Elems(pending) = Out + 1 .. accepted
      /\ Out \in Nat /\ accepted \in Nat /\ Len(pending) = accepted - Out
      /\ Len(pending) \in Nat
  BY PendingIsInterval DEF TypeOK, Tailed, Out
<1>2. /\ IsFiniteSet(Out + 1 .. accepted)
      /\ Cardinality(Out + 1 .. accepted)
           = IF Out + 1 > accepted THEN 0 ELSE accepted - (Out + 1) + 1
  BY <1>1, FS_Interval
<1> QED
  BY <1>1, <1>2

\* Mailbox and Hub mean the same Cardinality.
LEMMA SameCardinality ==
  ASSUME NEW S
  PROVE  M!Cardinality(S) = Cardinality(S)
  BY DEF M!Cardinality, Cardinality

\* A push is an Accept or an AcceptEvicting of Mailbox.
LEMMA PushRefines ==
  ASSUME TypeOK, Tailed, PushStep, TypeOK', Tailed'
  PROVE  M!Accept \/ M!AcceptEvicting
<1>1. /\ Elems(pending) = Out + 1 .. accepted /\ Out \in Nat /\ accepted \in Nat
      /\ Cardinality(Elems(pending)) = Len(pending) /\ Len(pending) = accepted - Out
  BY WaitingSet
<1>2. /\ accepted' = accepted + 1 /\ Elems(pending') = Out' + 1 .. accepted'
      /\ Elems(chan') = Elems(chan) /\ got' = got
      /\ \/ Len(pending) < PendingCap /\ Out' = Out
         \/ Len(pending) = PendingCap /\ Out' = Out + 1
  BY PushEffect, PendingIsIntervalNext DEF PushStep, wsVars
<1>3. CASE Len(pending) < PendingCap /\ Out' = Out
  <2>1. Elems(pending') = Elems(pending) \cup {accepted + 1}
    BY <1>1, <1>2, <1>3
  <2>2. Cardinality(Elems(pending)) < PendingCap
    BY <1>1, <1>3
  <2>3. accepted' = accepted + 1 /\ Elems(chan') = Elems(chan) /\ got' = got
    BY <1>2
  <2> QED
    BY <2>1, <2>2, <2>3, SameCardinality DEF M!Accept
<1>4. CASE Len(pending) = PendingCap /\ Out' = Out + 1
  <2>1. Out + 1 \in Elems(pending) /\ M!IsOldest(Out + 1, Elems(pending))
    BY <1>1, <1>4, CapAssumption DEF M!IsOldest
  <2>2. Elems(pending') = (Elems(pending) \cup {accepted + 1}) \ {Out + 1}
    BY <1>1, <1>2, <1>4, CapAssumption
  <2>3. Cardinality(Elems(pending)) = PendingCap
    BY <1>1, <1>4
  <2>4. accepted' = accepted + 1 /\ Elems(chan') = Elems(chan) /\ got' = got
    BY <1>2
  <2> QED
    BY <2>1, <2>2, <2>3, <2>4, SameCardinality DEF M!AcceptEvicting
<1> QED
  BY <1>2, <1>3, <1>4

\* One turn of a drain loop is a Publish or a Discard of Mailbox.
LEMMA DrainRefines ==
  ASSUME TypeOK, Tailed, DrainStep, TypeOK', Tailed'
  PROVE  M!Publish \/ M!Discard
<1>1. /\ Elems(pending) = Out + 1 .. accepted /\ Out \in Nat /\ accepted \in Nat
  BY WaitingSet
<1>2. /\ accepted' = accepted /\ Out' = Out + 1 /\ Out + 1 <= accepted
      /\ Elems(pending') = Out' + 1 .. accepted' /\ got' = got
      /\ TxSend(Out + 1)
  BY DrainEffect, PendingIsIntervalNext DEF DrainStep
<1>3. /\ Out + 1 \in Elems(pending) /\ M!IsOldest(Out + 1, Elems(pending))
      /\ Elems(pending') = Elems(pending) \ {Out + 1}
  BY <1>1, <1>2 DEF M!IsOldest
<1>4. CASE chan' = chan
  BY <1>2, <1>3, <1>4 DEF M!Discard
<1>5. CASE chan' = Append(chan, Out + 1)
  <2>1. chan \in Seq(Nat) /\ Out + 1 \in Nat
    BY <1>1 DEF TypeOK
  <2>2. Elems(chan') = Elems(chan) \cup {Out + 1}
    BY <2>1, <1>5, ElemsAppend
  <2> QED
    BY <2>2, <1>2, <1>3 DEF M!Publish
<1> QED
  BY <1>2, <1>4, <1>5 DEF TxSend

\* The memory of the daemon implements Mailbox: acceptance order, a bounded
\* buffer that loses its oldest, delivery in order and at most once.
THEOREM HubImplementsMailbox == Spec => ImplementsMailbox
<1>1. Init => M!Init
  BY DEF Init, M!Init, Elems
<1>2. IInv /\ IInv' /\ [Next]_vars => [M!Next]_M!mvars
  <2> SUFFICES ASSUME IInv, IInv', [Next]_vars
               PROVE  M!Next \/ UNCHANGED M!mvars
    OBVIOUS
  <2> USE DEF IInv
  <2>1. CASE PushStep
    BY <2>1, PushRefines DEF M!Next
  <2>2. CASE DrainStep
    BY <2>2, DrainRefines DEF M!Next
  <2>3. CASE StillStep /\ \E c \in Clients : WsDeliver(c)
    <3>1. PICK c \in Clients : WsDeliver(c)
      BY <2>3
    <3>2. /\ cursor[c] + 1 \in 1 .. Len(chan) /\ cursor[c] + 1 \in cursor[c] + 1 .. Len(chan)
          /\ got' = [got EXCEPT ![c] = Append(@, chan[cursor[c] + 1])]
      <4>1. cursor[c] \in Nat /\ Len(chan) \in Nat /\ cursor[c] < Len(chan)
        BY <3>1 DEF WsDeliver, Take, TypeOK
      <4> QED
        BY <3>1, <4>1 DEF WsDeliver
    <3>3. /\ chan[cursor[c] + 1] \in Elems(chan)
          /\ \A i \in 1 .. Len(got[c]) : got[c][i] < chan[cursor[c] + 1]
      BY <3>2 DEF OrderInv, Elems
    <3>4. M!Deliver(c)
      BY <2>3, <3>2, <3>3 DEF StillStep, M!Deliver
    <3> QED
      BY <3>4 DEF M!Next
  <2>4. CASE StillStep /\ ~\E c \in Clients : WsDeliver(c)
    <3>1. got' = got
      BY <2>4 DEF Next, IpcNext, WsNext, ReplayFile, Serve, IpcPush, IpcCount, IpcDrain,
                  IpcPing, IpcReply, WsAccept, WsCount, WsSubscribe, WsReplayBegin,
                  WsReplay, WsLagged, WsWriteFails, WsClose, WsUncount, WsReturn, vars,
                  wsVars
    <3> QED
      BY <2>4, <3>1 DEF StillStep, M!mvars
  <2> QED
    BY <2>1, <2>2, <2>3, <2>4, StepKinds
<1> QED
  BY <1>1, <1>2, InductiveInvariant, PTL DEF Spec, ImplementsMailbox, M!Spec
==============================================================================
