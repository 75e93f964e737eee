------------------------------- MODULE Mailbox -------------------------------
(***************************************************************************)
(* What one `zcc daemon` promises about the selections it accepts, with    *)
(* no tasks, no mutex and no broadcast channel: payloads are numbered in   *)
(* the order the daemon accepts them, wait in a buffer of bounded size     *)
(* that loses its oldest member when it overflows, leave that buffer       *)
(* oldest first, and reach every Claude client in increasing order, each   *)
(* at most once, and only after they have been published.                  *)
(***************************************************************************)
EXTENDS Integers, Sequences, FiniteSets

CONSTANTS
  Clients,     \* websocket connections
  PendingCap   \* capacity of the waiting buffer

VARIABLES
  accepted,    \* how many payloads have been accepted: the last one's number
  waiting,     \* accepted payloads that nobody has been offered yet
  published,   \* payloads offered to the clients subscribed at that moment
  got          \* got[c]: what client c has been sent, in order

mvars == <<accepted, waiting, published, got>>

\* m is the oldest payload of S.
IsOldest(m, S) == m \in S /\ \A n \in S : m <= n

Init ==
  /\ accepted = 0
  /\ waiting = {}
  /\ published = {}
  /\ got = [c \in Clients |-> <<>>]

\* A payload joins a buffer that has room for it.
Accept ==
  /\ Cardinality(waiting) < PendingCap
  /\ accepted' = accepted + 1
  /\ waiting' = waiting \cup {accepted + 1}
  /\ UNCHANGED <<published, got>>

\* A payload joins a full buffer and pushes the oldest one out for good.
AcceptEvicting ==
  /\ Cardinality(waiting) = PendingCap
  /\ accepted' = accepted + 1
  /\ \E m \in waiting :
       /\ IsOldest(m, waiting)
       /\ waiting' = (waiting \cup {accepted + 1}) \ {m}
  /\ UNCHANGED <<published, got>>

\* The oldest waiting payload is offered to the clients.
Publish ==
  /\ \E m \in waiting :
       /\ IsOldest(m, waiting)
       /\ waiting' = waiting \ {m}
       /\ published' = published \cup {m}
  /\ UNCHANGED <<accepted, got>>

\* The oldest waiting payload is sent when the last client has just left.
Discard ==
  /\ \E m \in waiting :
       /\ IsOldest(m, waiting)
       /\ waiting' = waiting \ {m}
  /\ UNCHANGED <<accepted, published, got>>

\* Client c is sent a published payload newer than all it has been sent.
Deliver(c) ==
  /\ \E m \in published :
       /\ \A i \in 1 .. Len(got[c]) : got[c][i] < m
       /\ got' = [got EXCEPT ![c] = Append(@, m)]
  /\ UNCHANGED <<accepted, waiting, published>>

Next ==
  \/ Accept
  \/ AcceptEvicting
  \/ Publish
  \/ Discard
  \/ \E c \in Clients : Deliver(c)

Spec == Init /\ [][Next]_mvars
=============================================================================
