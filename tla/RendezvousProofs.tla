-------------------------- MODULE RendezvousProofs --------------------------
(* Proofs about module Rendezvous, for any number of sends and daemons and  *)
(* any choice of faults.                                                    *)
EXTENDS Rendezvous, TLAPS

-----------------------------------------------------------------------------
(* OneOwner is not inductive: it says nothing of the daemons that have      *)
(* found the path dead and are about to remove it.  Without an overlap      *)
(* there is one of them at most, and while there is one nobody is bound.    *)

PartTypeOK ==
  /\ daemon \in [Procs -> DaemonStage]
  /\ sock \in Procs \cup {None}
  /\ overlapped \in BOOLEAN

OneIntruder ==
  ~overlapped =>
    \A d, e \in Procs :
      daemon[d] \in Window =>
        /\ daemon[e] \notin Bound
        /\ daemon[e] \in Window => d = e

OwnerInv == PartTypeOK /\ OneIntruder /\ OneOwner

\* The invariant holds initially.
LEMMA OwnerInit == Init => OwnerInv
BY ProcAssumption DEF Init, OwnerInv, PartTypeOK, OneIntruder, OneOwner, DaemonStage, Bound, Window

\* A step that changes no daemon and not the socket path keeps the invariant.
LEMMA OwnerFrame ==
  OwnerInv /\ UNCHANGED <<daemon, sock, overlapped>> => OwnerInv'
BY DEF OwnerInv, PartTypeOK, OneIntruder, OneOwner

\* A step of daemon d that touches neither the socket path nor the window, from
\* outside the window, and that does not make d bound, keeps the invariant.
LEMMA OwnerMove ==
  ASSUME OwnerInv, NEW d \in Procs, NEW to \in DaemonStage,
         daemon' = [daemon EXCEPT ![d] = to],
         to \notin Window,
         to \in Bound => daemon[d] \in Bound,
         UNCHANGED <<sock, overlapped>>
  PROVE  OwnerInv'
<1>1. \A e \in Procs : daemon'[e] = IF e = d THEN to ELSE daemon[e]
  BY DEF OwnerInv, PartTypeOK
<1>2. PartTypeOK'
  BY DEF OwnerInv, PartTypeOK
<1>3. OneIntruder'
  BY <1>1 DEF OwnerInv, OneIntruder
<1>4. OneOwner'
  BY <1>1 DEF OwnerInv, OneOwner
<1>5. QED
  BY <1>2, <1>3, <1>4 DEF OwnerInv

\* A bound daemon answers at the socket path, if there is no overlap.
LEMMA BoundAnswers ==
  ASSUME OwnerInv, ~overlapped, NEW d \in Procs, daemon[d] \in Bound
  PROVE  Connectable
BY ProcAssumption DEF OwnerInv, OneOwner, Connectable, Listening

\* The steps that decide who owns the socket path.
LEMMA OwnerProbe ==
  ASSUME OwnerInv, NEW d \in Procs, Probe(d)
  PROVE  OwnerInv'
<1>1. CASE Connectable
  <2>1. daemon' = [daemon EXCEPT ![d] = "dead"] /\ UNCHANGED <<sock, overlapped>>
    BY <1>1 DEF Probe, DaemonAt, fileVars, OwnerInv, PartTypeOK
  <2>2. "dead" \in DaemonStage /\ "dead" \notin Window /\ "dead" \notin Bound
    BY DEF DaemonStage, Window, Bound
  <2>3. QED
    BY <2>1, <2>2, OwnerMove
<1>2. CASE ~Connectable
  <2>1. /\ daemon' = [daemon EXCEPT ![d] = "unlink"]
        /\ sock' = sock
        /\ overlapped' = (overlapped \/ \E e \in Procs : daemon[e] \in Window)
    BY <1>2 DEF Probe, DaemonAt, fileVars
  <2>2. \A e \in Procs : daemon'[e] = IF e = d THEN "unlink" ELSE daemon[e]
    BY <2>1 DEF OwnerInv, PartTypeOK
  <2>3. PartTypeOK'
    BY <2>1 DEF OwnerInv, PartTypeOK, DaemonStage
  <2>4. ~overlapped' => \A e \in Procs : daemon[e] \notin Bound /\ daemon[e] \notin Window
    BY <1>2, <2>1, BoundAnswers
  <2>5. "unlink" \notin Bound
    BY DEF Bound
  <2>6. OneIntruder'
    BY <2>2, <2>4, <2>5 DEF OneIntruder
  <2>7. OneOwner'
    BY <2>2, <2>4, <2>5 DEF OneOwner
  <2>8. QED
    BY <2>3, <2>6, <2>7 DEF OwnerInv
<1>3. QED
  BY <1>1, <1>2

\* remove_file of a path that was found dead hits nobody who is bound.
LEMMA OwnerUnlink ==
  ASSUME OwnerInv, NEW d \in Procs, Unlink(d)
  PROVE  OwnerInv'
<1>1. /\ daemon[d] = "unlink"
      /\ daemon' = [daemon EXCEPT ![d] = "bind"]
      /\ sock' \in {None, sock}
      /\ overlapped' = overlapped
  BY DEF Unlink, Removed, DaemonAt, pastVars
<1>2. \A e \in Procs : daemon'[e] = IF e = d THEN "bind" ELSE daemon[e]
  BY <1>1 DEF OwnerInv, PartTypeOK
<1>3. PartTypeOK'
  BY <1>1 DEF OwnerInv, PartTypeOK, DaemonStage
<1>4. daemon[d] \in Window /\ "bind" \notin Bound /\ "bind" \in Window
  BY <1>1 DEF Window, Bound
<1>5. OneIntruder'
  BY <1>1, <1>2, <1>4 DEF OwnerInv, OneIntruder
<1>6. ~overlapped => \A e \in Procs : daemon[e] \notin Bound
  BY <1>4 DEF OwnerInv, OneIntruder
<1>7. OneOwner'
  BY <1>1, <1>2, <1>4, <1>6 DEF OneOwner
<1>8. QED
  BY <1>3, <1>5, <1>7 DEF OwnerInv

\* The only daemon in the window gets the path, or fails.
LEMMA OwnerBind ==
  ASSUME OwnerInv, NEW d \in Procs, Bind(d)
  PROVE  OwnerInv'
<1>1. CASE sock = None
  <2>1. /\ daemon[d] = "bind"
        /\ daemon' = [daemon EXCEPT ![d] = "scan"]
        /\ sock' = d
        /\ overlapped' = overlapped
    BY <1>1 DEF Bind, DaemonAt, pastVars
  <2>2. \A e \in Procs : daemon'[e] = IF e = d THEN "scan" ELSE daemon[e]
    BY <2>1 DEF OwnerInv, PartTypeOK
  <2>3. PartTypeOK'
    BY <2>1 DEF OwnerInv, PartTypeOK, DaemonStage
  <2>4. daemon[d] \in Window /\ "scan" \notin Window
    BY <2>1 DEF Window
  <2>5. ~overlapped =>
          \A e \in Procs : daemon[e] \notin Bound /\ (daemon[e] \in Window => e = d)
    BY <2>4 DEF OwnerInv, OneIntruder
  <2>6. OneIntruder'
    BY <2>1, <2>2, <2>4, <2>5 DEF OneIntruder
  <2>7. OneOwner'
    BY <2>1, <2>2, <2>5 DEF OneOwner
  <2>8. QED
    BY <2>3, <2>6, <2>7 DEF OwnerInv
<1>2. CASE sock # None
  <2>1. daemon' = [daemon EXCEPT ![d] = "dead"] /\ UNCHANGED <<sock, overlapped>>
    BY <1>2 DEF Bind, DaemonAt, pastVars
  <2>2. "dead" \in DaemonStage /\ "dead" \notin Window /\ "dead" \notin Bound
    BY DEF DaemonStage, Window, Bound
  <2>3. QED
    BY <2>1, <2>2, OwnerMove
<1>3. QED
  BY <1>1, <1>2

\* Nobody else is bound when a bind fails, whether it has made the path or not.
LEMMA OwnerBindFails ==
  ASSUME OwnerInv, NEW d \in Procs, BindFails(d)
  PROVE  OwnerInv'
<1>1. /\ daemon[d] = "bind"
      /\ daemon' = [daemon EXCEPT ![d] = "dead"]
      /\ sock' \in {d, sock}
      /\ overlapped' = overlapped
  BY DEF BindFails, DaemonAt, pastVars
<1>2. \A e \in Procs : daemon'[e] = IF e = d THEN "dead" ELSE daemon[e]
  BY <1>1 DEF OwnerInv, PartTypeOK
<1>3. PartTypeOK'
  BY <1>1 DEF OwnerInv, PartTypeOK, DaemonStage
<1>4. daemon[d] \in Window /\ "dead" \notin Bound /\ "dead" \notin Window
  BY <1>1 DEF Window, Bound
<1>5. ~overlapped => \A e \in Procs : daemon[e] \notin Bound
  BY <1>4 DEF OwnerInv, OneIntruder
<1>6. OneIntruder'
  BY <1>1, <1>2, <1>4, <1>5 DEF OwnerInv, OneIntruder
<1>7. OneOwner'
  BY <1>1, <1>2, <1>4, <1>5 DEF OneOwner
<1>8. QED
  BY <1>3, <1>6, <1>7 DEF OwnerInv

\* cleanup removes the path whatever it names: without an overlap, only its own.
LEMMA OwnerUnlinkSock ==
  ASSUME OwnerInv, NEW d \in Procs, UnlinkSock(d)
  PROVE  OwnerInv'
<1>1. /\ daemon[d] = "unlinksock"
      /\ daemon' = [daemon EXCEPT ![d] = "exit"]
      /\ sock' \in {None, sock}
      /\ overlapped' = overlapped
  BY DEF UnlinkSock, Removed, DaemonAt, pastVars
<1>2. \A e \in Procs : daemon'[e] = IF e = d THEN "exit" ELSE daemon[e]
  BY <1>1 DEF OwnerInv, PartTypeOK
<1>3. PartTypeOK'
  BY <1>1 DEF OwnerInv, PartTypeOK, DaemonStage
<1>4. daemon[d] \in Bound /\ "exit" \notin Bound /\ "exit" \notin Window
  BY <1>1 DEF Window, Bound
<1>5. OneIntruder'
  BY <1>1, <1>2, <1>4 DEF OwnerInv, OneIntruder
<1>6. ~overlapped => \A e \in Procs : daemon[e] \in Bound => e = d
  BY <1>4 DEF OwnerInv, OneOwner
<1>7. OneOwner'
  BY <1>1, <1>2, <1>4, <1>6 DEF OneOwner
<1>8. QED
  BY <1>3, <1>5, <1>7 DEF OwnerInv

\* The steps of a daemon that is bound, of one that fails, and of one that dies.
LEMMA OwnerRest ==
  ASSUME OwnerInv, NEW d \in Procs,
         \/ Scan(d) \/ DrainSkip(d) \/ DrainRead(d) \/ DrainRemove(d) \/ DrainEnd(d)
         \/ Publish(d) \/ PublishFails(d) \/ Stop(d) \/ Unpublish(d)
         \/ Exit(d) \/ Kill(d)
  PROVE  OwnerInv'
<1>1. /\ UNCHANGED <<sock, overlapped>>
      /\ \/ UNCHANGED daemon
         \/ \E to \in DaemonStage :
              /\ daemon' = [daemon EXCEPT ![d] = to]
              /\ to \notin Window
              /\ to \in Bound => daemon[d] \in Bound
  BY DEF Scan, DrainSkip, DrainRead, DrainRemove, DrainEnd, Publish, PublishFails, Stop,
         Unpublish, Exit, Kill, Dies, DaemonAt, DaemonStage, Window, Bound, fileVars, pastVars
<1>2. QED
  BY <1>1, OwnerFrame, OwnerMove

\* The steps of a send, and what a daemon does with its connections.
LEMMA OwnerSend ==
  ASSUME OwnerInv, NEW p \in Procs,
         Connect(p) \/ SendRuns(p) \/ \E q \in Procs : Handle(p, q) \/ Reject(p, q)
  PROVE  OwnerInv'
<1>1. CASE Spawn(p)
  <2>1. daemon' = [daemon EXCEPT ![p] = "probe"] /\ UNCHANGED <<sock, overlapped>>
    BY <1>1 DEF Spawn, fileVars, pastVars
  <2>2. "probe" \in DaemonStage /\ "probe" \notin Window /\ "probe" \notin Bound
    BY DEF DaemonStage, Window, Bound
  <2>3. QED
    BY <2>1, <2>2, OwnerMove
<1>2. CASE ~Spawn(p)
  <2>1. UNCHANGED <<daemon, sock, overlapped>>
    BY <1>2 DEF Connect, SendRuns, WarmWrite, WarmWriteFails, WarmEnd, CreateFile,
                CreateFileFails, WriteFile, WriteFileFails, SpawnFails, Handle, Reject,
                fileVars, pastVars, procVars
  <2>2. QED
    BY <2>1, OwnerFrame
<1>3. QED
  BY <1>1, <1>2

\* The invariant is inductive.
LEMMA OwnerNext == OwnerInv /\ [Next]_vars => OwnerInv'
<1> SUFFICES ASSUME OwnerInv, [Next]_vars PROVE OwnerInv'
  OBVIOUS
<1>1. CASE UNCHANGED vars
  BY <1>1, OwnerFrame DEF vars, procVars, fileVars, pastVars
<1>2. ASSUME NEW p \in Procs, DaemonRuns(p) \/ Stop(p) \/ Kill(p) PROVE OwnerInv'
  BY <1>2, OwnerProbe, OwnerUnlink, OwnerBind, OwnerBindFails, OwnerUnlinkSock, OwnerRest DEF DaemonRuns
<1>3. QED
  BY <1>1, <1>2, OwnerSend DEF Next

\* As long as no two daemons have been between their probe and their bind at
\* once, one at most is bound and the socket path is its own, through stale
\* paths, crashes, failed binds and clean-ups (mod.rs:60-80, 167-174).
THEOREM SocketHasOneOwner == Spec => []OneOwner
<1>1. OwnerInv => OneOwner
  BY DEF OwnerInv
<1>2. QED
  BY OwnerInit, OwnerNext, <1>1, PTL DEF Spec
=============================================================================
