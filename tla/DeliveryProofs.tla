--------------------------- MODULE DeliveryProofs ---------------------------
(* Proofs about the payloads of module Rendezvous, for any number of sends  *)
(* and daemons and any choice of faults: where one can be lost, handed to   *)
(* two daemons that Claude could find, or overtaken, and nowhere else.      *)
EXTENDS RendezvousProofs, SequenceTheorems

-----------------------------------------------------------------------------
(* The invariants.                                                          *)

Mem(d) == Elems(memory[d])

\* p is on its way into a daemon or accepted by one.
Reached(p) == \E d \in Procs : p \in inbox[d] \/ p \in Mem(d)

(* The types alone are not inductive: Spawn could start a daemon that has a  *)
(* list already, and DrainRemove remove nothing.                             *)

LinkInv ==
  /\ \A d \in Procs : daemon[d] # "none" => send[d] = "done"
  /\ \A d \in Procs : daemon[d] = "remove" => todo[d] # <<>>

TypeInv == TypeOK /\ LinkInv

(* What the control of a daemon amounts to: it has taken nothing into its   *)
(* memory before it lists the directory, it lists no file twice, and it is  *)
(* not found by Claude before it serves.  Only a live one has connections.  *)

ControlInv ==
  /\ \A d \in Procs :
       daemon[d] \in {"none", "probe", "unlink", "bind", "scan"} => memory[d] = <<>>
  /\ \A d \in served : daemon[d] \in Serving \cup {"dead"}
  /\ Distinct(files)
  /\ \A d \in Procs : Distinct(todo[d])
  /\ \A d \in Procs : inbox[d] # {} => daemon[d] \in Listening

(* Where a payload can be.  A payload in an inbox is nowhere else, one whose *)
(* send has not written it is nowhere but in a torn file, and the file a     *)
(* daemon is about to remove is one it has taken or dropped.                 *)

PlaceInv ==
  /\ torn \subseteq Elems(files)
  /\ \A p \in torn : send[p] \in {"created", "failed"}
  /\ \A p \in Procs :
       /\ send[p] \in {"idle", "connected", "cold"} =>
            p \notin Elems(files) /\ \A d \in Procs : p \notin Elems(todo[d])
       /\ send[p] \in {"idle", "connected", "cold", "created"} => ~Reached(p)
       /\ send[p] = "created" => p \in torn \/ p \in discarded \ Elems(files)
  /\ \A d, e \in Procs : \A p \in inbox[d] :
       p \notin Elems(files) /\ p \notin Mem(e) /\ (p \in inbox[e] => e = d)
  /\ \A d \in Procs : daemon[d] = "remove" => Head(todo[d]) \in discarded \cup Mem(d)

\* Nothing that a send has let go of is lost, but for files read too early and
\* connections that ended too early.
KeptInv ==
  \A p \in Procs :
    send[p] \in {"awaiting", "queued", "done"} /\ p \notin discarded \cup cut =>
      p \in Elems(files) \ torn \/ Reached(p)

(* Without an overlap, a payload that is in a memory and still on disk is   *)
(* about to be removed, or its reader has failed to remove it or has died   *)
(* before Claude could find it.                                             *)

Lost(d) == daemon[d] = "dead" /\ d \notin served

OnceInv ==
  ~overlapped =>
    /\ \A d \in Procs : \A p \in Elems(files) \cap Mem(d) :
         Lost(d) \/ (daemon[d] = "remove" /\ p = Head(todo[d])) \/ p \in left[d]
    /\ \A d, e \in Procs : \A p \in Mem(d) \cap Mem(e) :
         d # e => Lost(d) \/ Lost(e) \/ p \in left[d] \cup left[e]

(* A payload sent after another one follows it on disk, in the list of each *)
(* daemon and in its memory, and once it is in the memory the other one is  *)
(* no longer to come.  A file listed too early is no matter.                *)

OrderInv ==
  /\ \A p \in Procs : \A q \in after[p] :
       send[q] = "done" /\ send[p] # "idle" /\ \A d \in Procs : q \notin inbox[d]
  /\ \A p \in Procs : \A q \in after[p] :
       /\ {p, q} \subseteq Elems(files) => Precedes(files, q, p)
       /\ \A d \in Procs : p \notin early[d] =>
            /\ {p, q} \subseteq Elems(todo[d]) => Precedes(todo[d], q, p)
            /\ p \in Mem(d) => q \notin Elems(todo[d])
  /\ SentOrderIsKept

DeliveryInv == TypeInv /\ OwnerInv /\ ControlInv /\ PlaceInv /\ KeptInv /\ OnceInv /\ OrderInv

-----------------------------------------------------------------------------
(* Sequences without repetition.                                            *)

LEMMA AppendElems ==
  ASSUME NEW S, NEW s \in Seq(S), NEW e \in S
  PROVE  /\ Append(s, e) \in Seq(S) /\ Append(s, e) # <<>>
         /\ Elems(Append(s, e)) = Elems(s) \cup {e}
         /\ Distinct(s) /\ e \notin Elems(s) => Distinct(Append(s, e))
         /\ \A a, b : Precedes(s, a, b) => Precedes(Append(s, e), a, b)
         /\ \A a \in Elems(s) : Precedes(Append(s, e), a, e)
<1>1. /\ Append(s, e) \in Seq(S) /\ Append(s, e) # <<>>
      /\ Len(Append(s, e)) = Len(s) + 1 /\ Len(s) \in Nat
      /\ \A i \in 1 .. Len(s) : Append(s, e)[i] = s[i]
      /\ Append(s, e)[Len(s) + 1] = e
  BY AppendProperties, LenProperties
<1> DEFINE t == Append(s, e)
<1> HIDE DEF t
<1>2. /\ Len(t) = Len(s) + 1 /\ t[Len(s) + 1] = e
      /\ \A i \in 1 .. Len(s) : t[i] = s[i]
  BY <1>1 DEF t
<1>3. Elems(t) = Elems(s) \cup {e}
  BY <1>1, <1>2 DEF Elems
<1>4. Distinct(s) /\ e \notin Elems(s) => Distinct(t)
  BY <1>1, <1>2 DEF Distinct, Elems
<1>5. \A a, b : Precedes(s, a, b) => Precedes(t, a, b)
  BY <1>1, <1>2 DEF Precedes
<1>6. \A a \in Elems(s) : Precedes(t, a, e)
  BY <1>1, <1>2 DEF Precedes, Elems
<1>7. QED
  BY <1>1, <1>3, <1>4, <1>5, <1>6 DEF t

LEMMA TailElems ==
  ASSUME NEW S, NEW s \in Seq(S), s # <<>>
  PROVE  /\ Tail(s) \in Seq(S) /\ Head(s) \in S
         /\ Elems(s) = Elems(Tail(s)) \cup {Head(s)}
         /\ Distinct(s) =>
              /\ Distinct(Tail(s)) /\ Head(s) \notin Elems(Tail(s))
              /\ \A a \in Elems(s) : ~Precedes(s, a, Head(s))
              /\ \A a, b \in Elems(Tail(s)) : Precedes(s, a, b) => Precedes(Tail(s), a, b)
<1>1. /\ Tail(s) \in Seq(S) /\ Head(s) \in S /\ Head(s) = s[1]
      /\ Len(s) \in Nat \ {0} /\ Len(Tail(s)) = Len(s) - 1
      /\ \A i \in 1 .. Len(Tail(s)) : Tail(s)[i] = s[i + 1]
  BY HeadTailProperties, LenProperties, EmptySeq
<1> DEFINE t == Tail(s)
<1> HIDE DEF t
<1>2. /\ Len(t) = Len(s) - 1
      /\ \A i \in 1 .. Len(t) : t[i] = s[i + 1]
      /\ \A i \in 2 .. Len(s) : t[i - 1] = s[i] /\ i - 1 \in 1 .. Len(t)
  BY <1>1 DEF t
<1>3. Elems(s) = Elems(t) \cup {Head(s)}
  BY <1>1, <1>2 DEF Elems
<1>4. ASSUME Distinct(s)
      PROVE  Distinct(t) /\ Head(s) \notin Elems(t)
  BY <1>1, <1>2, <1>4 DEF Distinct, Elems
<1>5. ASSUME Distinct(s), NEW a \in Elems(s)
      PROVE  ~Precedes(s, a, Head(s))
  BY <1>1, <1>5 DEF Distinct, Precedes
<1>6. ASSUME Distinct(s), NEW a \in Elems(t), NEW b \in Elems(t), Precedes(s, a, b)
      PROVE  Precedes(t, a, b)
  <2>1. PICK i, j \in 1 .. Len(s) : i < j /\ s[i] = a /\ s[j] = b
    BY <1>6 DEF Precedes
  <2>2. i # 1
    BY <1>1, <1>4, <1>6, <2>1
  <2>3. i - 1 \in 1 .. Len(t) /\ j - 1 \in 1 .. Len(t) /\ t[i - 1] = a /\ t[j - 1] = b
    BY <1>1, <1>2, <2>1, <2>2
  <2>4. QED
    BY <2>1, <2>3 DEF Precedes
<1>7. QED
  BY <1>1, <1>3, <1>4, <1>5, <1>6 DEF t

LEMMA WithoutType ==
  ASSUME NEW S, NEW s \in Seq(S), NEW p
  PROVE  Without(s, p) \in Seq(S)
<1>1. CASE p \notin Elems(s)
  BY <1>1 DEF Without
<1>2. CASE p \in Elems(s)
  <2>1. PICK i \in 1 .. Len(s) : i = CHOOSE j \in 1 .. Len(s) : s[j] = p
    BY <1>2 DEF Elems
  <2>2. Len(s) \in Nat /\ \A j \in 1 .. Len(s) : s[j] \in S
    BY LenProperties, ElementOfSeq
  <2>3. SubSeq(s, 1, i - 1) \in Seq(S) /\ SubSeq(s, i + 1, Len(s)) \in Seq(S)
    <3>1. /\ i - 1 \in Int /\ i + 1 \in Int /\ Len(s) \in Int
          /\ \A j \in 1 .. i - 1 : s[j] \in S
          /\ \A j \in i + 1 .. Len(s) : s[j] \in S
      BY <2>2
    <3>2. QED
      BY <3>1, SubSeqProperties
  <2>4. QED
    BY <1>2, <2>1, <2>3, ConcatProperties DEF Without
<1>3. QED
  BY <1>1, <1>2

LEMMA WithoutElems ==
  ASSUME NEW S, NEW s \in Seq(S), Distinct(s), NEW p
  PROVE  /\ Without(s, p) \in Seq(S)
         /\ Elems(Without(s, p)) = Elems(s) \ {p}
         /\ Distinct(Without(s, p))
         /\ \A a, b : a # p /\ b # p /\ Precedes(s, a, b) => Precedes(Without(s, p), a, b)
<1>1. CASE p \notin Elems(s)
  BY <1>1 DEF Without
<1>2. CASE p \in Elems(s)
  <2>1. PICK i \in 1 .. Len(s) : s[i] = p
    BY <1>2 DEF Elems
  <2>2. \A j \in 1 .. Len(s) : s[j] = p => j = i
    BY <2>1 DEF Distinct
  <2>3. i = CHOOSE j \in 1 .. Len(s) : s[j] = p
    BY <2>1, <2>2
  <2> DEFINE u == SubSeq(s, 1, i - 1)
  <2> DEFINE v == SubSeq(s, i + 1, Len(s))
  <2> DEFINE t == u \o v
  <2>4. Without(s, p) = t
    BY <1>2, <2>3 DEF Without
  <2>5. Len(s) \in Nat /\ \A j \in 1 .. Len(s) : s[j] \in S
    BY LenProperties, ElementOfSeq
  <2>6. /\ u \in Seq(S) /\ Len(u) = i - 1
        /\ \A j \in 1 .. i - 1 : u[j] = s[j]
    BY <2>1, <2>5, SubSeqProperties
  <2>7. /\ v \in Seq(S) /\ Len(v) = Len(s) - i
        /\ \A j \in 1 .. Len(s) - i : v[j] = s[i + j]
    BY <2>1, <2>5, SubSeqProperties
  <2> HIDE DEF u, v
  <2>8. /\ t \in Seq(S) /\ Len(t) = Len(s) - 1
        /\ \A j \in 1 .. Len(s) - 1 : t[j] = IF j < i THEN s[j] ELSE s[j + 1]
    <3>1. /\ t \in Seq(S) /\ Len(t) = Len(u) + Len(v)
          /\ \A j \in 1 .. Len(u) + Len(v) : t[j] = IF j <= Len(u) THEN u[j] ELSE v[j - Len(u)]
      BY <2>6, <2>7, ConcatProperties
    <3>2. Len(u) + Len(v) = Len(s) - 1
      BY <2>1, <2>5, <2>6, <2>7
    <3>3. ASSUME NEW j \in 1 .. Len(s) - 1, j < i PROVE t[j] = s[j]
      BY <2>1, <2>5, <2>6, <3>1, <3>2, <3>3
    <3>4. ASSUME NEW j \in 1 .. Len(s) - 1, ~(j < i) PROVE t[j] = s[j + 1]
      <4>1. /\ j \in 1 .. Len(u) + Len(v) /\ ~(j <= Len(u))
            /\ j - Len(u) \in 1 .. Len(s) - i /\ i + (j - Len(u)) = j + 1
        BY <2>1, <2>5, <2>6, <2>7, <3>2, <3>4
      <4>2. t[j] = v[j - Len(u)]
        BY <3>1, <4>1
      <4>3. v[j - Len(u)] = s[i + (j - Len(u))]
        BY <2>7, <4>1
      <4>4. QED
        BY <4>1, <4>2, <4>3
    <3>5. QED
      BY <3>1, <3>2, <3>3, <3>4
  <2> HIDE DEF t
  <2>9. \A j \in 1 .. Len(s) : j # i =>
          \/ j < i /\ j \in 1 .. Len(t) /\ t[j] = s[j]
          \/ j > i /\ j - 1 \in 1 .. Len(t) /\ t[j - 1] = s[j]
    BY <2>1, <2>5, <2>8
  <2>10. Elems(t) = Elems(s) \ {p}
    <3>1. ASSUME NEW a \in Elems(t) PROVE a \in Elems(s) /\ a # p
      <4>1. PICK j \in 1 .. Len(t) : t[j] = a
        BY <3>1 DEF Elems
      <4>2. PICK k \in 1 .. Len(s) : s[k] = a /\ k # i
        BY <2>1, <2>5, <2>8, <4>1
      <4>3. QED
        BY <2>2, <4>2 DEF Elems
    <3>2. ASSUME NEW a \in Elems(s), a # p PROVE a \in Elems(t)
      <4>1. PICK j \in 1 .. Len(s) : s[j] = a
        BY <3>2 DEF Elems
      <4>2. QED
        BY <2>1, <2>9, <3>2, <4>1 DEF Elems
    <3>3. QED
      BY <3>1, <3>2
  <2>11. Distinct(t)
    BY <2>1, <2>5, <2>8 DEF Distinct
  <2>12. ASSUME NEW a, NEW b, a # p, b # p, Precedes(s, a, b)
         PROVE  Precedes(t, a, b)
    <3>1. PICK j, k \in 1 .. Len(s) : j < k /\ s[j] = a /\ s[k] = b
      BY <2>12 DEF Precedes
    <3>2. j # i /\ k # i
      BY <2>1, <2>12, <3>1
    <3>3. PICK l, m \in 1 .. Len(t) : l < m /\ t[l] = a /\ t[m] = b
      <4>1. CASE j < i /\ k < i
        BY <2>9, <3>1, <4>1
      <4>2. CASE j < i /\ k > i
        <5>1. j < k - 1
          BY <4>2
        <5>2. QED
          BY <2>9, <3>1, <4>2, <5>1
      <4>3. CASE j > i
        <5>1. k > i /\ j - 1 < k - 1
          BY <3>1, <4>3
        <5>2. /\ j - 1 \in 1 .. Len(t) /\ t[j - 1] = a
              /\ k - 1 \in 1 .. Len(t) /\ t[k - 1] = b
          BY <2>9, <3>1, <4>3, <5>1
        <5>3. QED
          BY <5>1, <5>2
      <4>4. QED
        BY <3>1, <3>2, <4>1, <4>2, <4>3
    <3>4. QED
      BY <3>3 DEF Precedes
  <2>13. QED
    BY <2>4, <2>8, <2>10, <2>11, <2>12
<1>3. QED
  BY <1>1, <1>2

-----------------------------------------------------------------------------
(* Types.                                                                   *)

\* What a step of send p or of daemon d does to its own stage.
LEMMA SendGoes ==
  ASSUME TypeInv, NEW p \in Procs, NEW from, NEW to \in SendStage, SendAt(p, from, to)
  PROVE  /\ send[p] = from /\ send' \in [Procs -> SendStage]
         /\ \A q \in Procs : send'[q] = IF q = p THEN to ELSE send[q]
BY DEF SendAt, TypeInv, TypeOK

LEMMA DaemonGoes ==
  ASSUME TypeInv, NEW d \in Procs, NEW to \in DaemonStage, daemon' = [daemon EXCEPT ![d] = to]
  PROVE  /\ daemon' \in [Procs -> DaemonStage]
         /\ \A e \in Procs : daemon'[e] = IF e = d THEN to ELSE daemon[e]
BY DEF TypeInv, TypeOK

\* The stages by name.
LEMMA SendStages ==
  \A s : s \in SendStage <=> s \in {"idle", "connected", "awaiting", "cold", "created",
                                  "queued", "done", "failed"}
BY DEF SendStage

\* The types hold initially.
LEMMA TypeInit == Init => TypeInv
<1> SUFFICES ASSUME Init PROVE TypeInv
  OBVIOUS
<1>1. /\ send \in [Procs -> SendStage] /\ daemon \in [Procs -> DaemonStage]
      /\ \A p \in Procs : send[p] = "idle" /\ daemon[p] = "none"
  BY DEF Init, SendStage, DaemonStage
<1>2. /\ todo \in [Procs -> Seq(Procs)] /\ memory \in [Procs -> Seq(Procs)]
      /\ \A p \in Procs : todo[p] = <<>>
  BY EmptySeq DEF Init
<1>3. /\ conn \in [Procs -> Procs \cup {None}] /\ inbox \in [Procs -> SUBSET Procs]
      /\ after \in [Procs -> SUBSET Procs] /\ files \in Seq(Procs)
      /\ left \in [Procs -> SUBSET Procs] /\ early \in [Procs -> SUBSET Procs]
  BY EmptySeq DEF Init
<1>4. TypeOK
  BY <1>1, <1>2, <1>3 DEF Init, TypeOK
<1>5. LinkInv
  BY <1>1 DEF LinkInv
<1>6. QED
  BY <1>4, <1>5 DEF TypeInv

\* A step of send p that leaves the daemons and their lists alone.
LEMMA LinkSend ==
  ASSUME TypeInv, NEW p \in Procs, NEW from, NEW to \in SendStage, SendAt(p, from, to),
         from # "done", UNCHANGED <<daemon, todo>>
  PROVE  send' \in [Procs -> SendStage] /\ LinkInv'
BY SendGoes DEF TypeInv, LinkInv

\* The steps of a send.
LEMMA TypeSend ==
  ASSUME TypeInv, NEW p \in Procs, Connect(p) \/ SendRuns(p)
  PROVE  TypeInv'
<1>1. ASSUME Connect(p) PROVE TypeInv'
  <2>1. after' \in [Procs -> SUBSET Procs]
    BY <1>1 DEF Connect, TypeInv, TypeOK
  <2>2. conn' \in [Procs -> Procs \cup {None}]
    BY <1>1 DEF Connect, TypeInv, TypeOK
  <2>3. send' \in [Procs -> SendStage] /\ LinkInv'
    BY <1>1, LinkSend, SendStages DEF Connect
  <2>4. QED
    BY <1>1, <2>1, <2>2, <2>3 DEF Connect, TypeInv, TypeOK, fileVars, dataVars, lossVars
<1>2. ASSUME WarmWrite(p) PROVE TypeInv'
  <2>1. conn[p] \in Procs
    BY <1>2 DEF WarmWrite, ConnectionOpen, TypeInv, TypeOK
  <2>2. inbox' \in [Procs -> SUBSET Procs]
    BY <1>2, <2>1 DEF WarmWrite, TypeInv, TypeOK
  <2>3. send' \in [Procs -> SendStage] /\ LinkInv'
    BY <1>2, <2>1, LinkSend, SendStages DEF WarmWrite
  <2>4. QED
    BY <1>2, <2>2, <2>3 DEF WarmWrite, TypeInv, TypeOK, fileVars, pastVars, lossVars
<1>3. ASSUME \/ WarmWriteFails(p) \/ WarmEnd(p) \/ CreateFileFails(p)
             \/ WriteFileFails(p) \/ SpawnFails(p)
      PROVE  TypeInv'
  <2>1. conn' \in [Procs -> Procs \cup {None}]
    BY <1>3 DEF WarmWriteFails, WarmEnd, CreateFileFails, WriteFileFails, SpawnFails,
                TypeInv, TypeOK
  <2>2. UNCHANGED <<daemon, todo, fileVars, dataVars, pastVars>>
    BY <1>3 DEF WarmWriteFails, WarmEnd, CreateFileFails, WriteFileFails, SpawnFails
  <2>3. \E from \in SendStage \ {"done"}, to \in {"failed", "done"} : SendAt(p, from, to)
    BY <1>3, SendStages DEF WarmWriteFails, WarmEnd, CreateFileFails, WriteFileFails, SpawnFails
  <2>4. send' \in [Procs -> SendStage] /\ LinkInv'
    BY <2>2, <2>3, LinkSend, SendStages
  <2>5. QED
    BY <2>1, <2>2, <2>4 DEF TypeInv, TypeOK, fileVars, dataVars, pastVars, lossVars
<1>4. ASSUME CreateFile(p) \/ WriteFile(p) PROVE TypeInv'
  <2>1. files' \in Seq(Procs)
    <3>1. CASE CreateFile(p)
      BY <3>1, AppendElems DEF CreateFile, TypeInv, TypeOK
    <3>2. CASE WriteFile(p)
      BY <3>2, AppendElems, WithoutType DEF WriteFile, TypeInv, TypeOK
    <3>3. QED
      BY <1>4, <3>1, <3>2
  <2>2. torn' \subseteq Procs
    BY <1>4 DEF CreateFile, WriteFile, TypeInv, TypeOK
  <2>3. UNCHANGED <<conn, daemon, todo, sock, locks, dataVars, pastVars>>
    BY <1>4 DEF CreateFile, WriteFile
  <2>4. send' \in [Procs -> SendStage] /\ LinkInv'
    BY <1>4, <2>3, LinkSend, SendStages DEF CreateFile, WriteFile
  <2>5. QED
    BY <2>1, <2>2, <2>3, <2>4 DEF TypeInv, TypeOK, dataVars, pastVars, lossVars
<1>5. ASSUME Spawn(p) PROVE TypeInv'
  <2>1. /\ send[p] = "queued" /\ send' \in [Procs -> SendStage]
        /\ \A q \in Procs : send'[q] = IF q = p THEN "done" ELSE send[q]
    BY <1>5, SendGoes, SendStages DEF Spawn
  <2>2. /\ daemon' \in [Procs -> DaemonStage]
        /\ \A d \in Procs : daemon'[d] = IF d = p THEN "probe" ELSE daemon[d]
    BY <1>5, DaemonGoes DEF Spawn, DaemonStage
  <2>3. daemon[p] = "none" /\ todo[p] = <<>>
    BY <2>1 DEF TypeInv, TypeOK, LinkInv
  <2>4. LinkInv'
    BY <1>5, <2>1, <2>2 DEF Spawn, TypeInv, LinkInv
  <2>5. QED
    BY <1>5, <2>1, <2>2, <2>3, <2>4 DEF Spawn, TypeInv, TypeOK, fileVars, dataVars, pastVars,
                                        lossVars
<1>6. QED
  BY <1>1, <1>2, <1>3, <1>4, <1>5 DEF SendRuns

\* A step of a daemon that moves it on with an empty list, or with the one it has.
LEMMA TypeMove ==
  ASSUME TypeInv, NEW d \in Procs, NEW to \in DaemonStage, daemon[d] # "none",
         daemon' = [daemon EXCEPT ![d] = to],
         \/ todo[d] = <<>> /\ todo' = todo
         \/ todo' = [todo EXCEPT ![d] = <<>>],
         to # "remove", send' = send
  PROVE  LinkInv' /\ daemon' \in [Procs -> DaemonStage] /\ todo' \in [Procs -> Seq(Procs)]
         /\ \A e \in Procs : todo'[e] # <<>> => daemon'[e] \in {"drain", "remove"}
<1>1. /\ \A e \in Procs : daemon'[e] = IF e = d THEN to ELSE daemon[e]
      /\ daemon' \in [Procs -> DaemonStage]
      /\ \A e \in Procs : e # d => todo'[e] = todo[e]
  BY DEF TypeInv, TypeOK
<1>2. LinkInv'
  BY <1>1 DEF TypeInv, LinkInv
<1>3. todo' \in [Procs -> Seq(Procs)]
  <2>1. <<>> \in Seq(Procs)
    BY EmptySeq
  <2>2. QED
    BY <2>1 DEF TypeInv, TypeOK
<1>4. \A e \in Procs : todo'[e] # <<>> => daemon'[e] \in {"drain", "remove"}
  BY <1>1 DEF TypeInv, TypeOK
<1>5. QED
  BY <1>1, <1>2, <1>3, <1>4

\* A daemon that dies cuts its connections.
LEMMA TypeDies ==
  ASSUME TypeInv, NEW d \in Procs, Dies(d)
  PROVE  inbox' \in [Procs -> SUBSET Procs] /\ cut' \subseteq Procs
BY DEF Dies, TypeInv, TypeOK

\* The steps of a daemon.
LEMMA TypeDaemon ==
  ASSUME TypeInv, NEW d \in Procs, DaemonRuns(d) \/ Stop(d) \/ Kill(d)
  PROVE  TypeInv'
<1>1. todo[d] # <<>> => daemon[d] \in {"drain", "remove"}
  BY DEF TypeInv, TypeOK
<1>2. ASSUME \/ Probe(d) \/ Unlink(d) \/ Bind(d) \/ BindFails(d) \/ DrainEnd(d) \/ Publish(d)
             \/ Unpublish(d) \/ UnlinkSock(d) \/ Stop(d)
      PROVE  TypeInv'
  <2>1. /\ daemon[d] # "none" /\ todo[d] = <<>> /\ UNCHANGED <<send, conn, todo>>
        /\ \E to \in DaemonStage \ {"remove"} : daemon' = [daemon EXCEPT ![d] = to]
    BY <1>1, <1>2 DEF Probe, Unlink, Bind, BindFails, DrainEnd, Publish, Unpublish,
       UnlinkSock, Stop, DaemonAt, DaemonStage
  <2>2. UNCHANGED <<files, torn, inbox, memory, lossVars, after>>
    BY <1>2 DEF Probe, Unlink, Bind, BindFails, DrainEnd, Publish, Unpublish,
       UnlinkSock, Stop, fileVars, dataVars, pastVars
  <2>3. /\ sock' \in Procs \cup {None} /\ locks' \subseteq Procs /\ served' \subseteq Procs
        /\ overlapped' \in BOOLEAN
    BY <1>2 DEF Probe, Unlink, Bind, BindFails, DrainEnd, Publish, Unpublish,
       UnlinkSock, Stop, Removed, fileVars, pastVars, TypeInv, TypeOK
  <2>4. QED
    BY <2>1, <2>2, <2>3, TypeMove DEF TypeInv, TypeOK, lossVars
<1>3. ASSUME Scan(d) PROVE TypeInv'
  <2>1. /\ daemon' = [daemon EXCEPT ![d] = "drain"] /\ daemon[d] = "scan"
        /\ \E l \in Seq(Procs) : todo' = [todo EXCEPT ![d] = l]
        /\ left' \in [Procs -> SUBSET Procs] /\ early' \in [Procs -> SUBSET Procs]
    <3> DEFINE Ahead(l) ==
          {p \in Procs : \E q \in Procs : Precedes(l, p, q) /\ Precedes(files, q, p)}
    <3>0. PICK n \in 0 .. Len(files) : \E l \in [1 .. n -> Elems(files)] :
            /\ todo' = [todo EXCEPT ![d] = l]
            /\ left' = [left EXCEPT ![d] = Elems(files) \ Elems(l)]
            /\ early' = [early EXCEPT ![d] = Ahead(l)]
      BY <1>3 DEF Scan
    <3>1. PICK l \in [1 .. n -> Elems(files)] :
            /\ todo' = [todo EXCEPT ![d] = l]
            /\ left' = [left EXCEPT ![d] = Elems(files) \ Elems(l)]
            /\ early' = [early EXCEPT ![d] = Ahead(l)]
      BY <3>0
    <3>2. n \in Nat /\ Elems(files) \subseteq Procs
      BY LenProperties, ElementOfSeq DEF Elems, TypeInv, TypeOK
    <3>3. l \in Seq(Procs)
      BY <3>2, SeqDef
    <3>4. left' \in [Procs -> SUBSET Procs] /\ early' \in [Procs -> SUBSET Procs]
      BY <3>1, <3>2 DEF TypeInv, TypeOK
    <3>5. QED
      BY <1>3, <3>1, <3>3, <3>4 DEF Scan, DaemonAt
  <2>2. daemon' \in [Procs -> DaemonStage] /\ todo' \in [Procs -> Seq(Procs)]
    BY <2>1 DEF TypeInv, TypeOK, DaemonStage
  <2>3. \A e \in Procs : todo'[e] # <<>> => daemon'[e] \in {"drain", "remove"}
    BY <2>1 DEF TypeInv, TypeOK
  <2>4. LinkInv'
    <3>1. \A e \in Procs :
            /\ daemon'[e] = IF e = d THEN "drain" ELSE daemon[e]
            /\ e # d => todo'[e] = todo[e]
      BY <2>1 DEF TypeInv, TypeOK
    <3>2. QED
      BY <1>3, <2>1, <3>1 DEF Scan, TypeInv, LinkInv
  <2>5. QED
    BY <1>3, <2>1, <2>2, <2>3, <2>4 DEF Scan, TypeInv, TypeOK, fileVars, dataVars
<1>4. ASSUME DrainSkip(d) \/ DrainRead(d) \/ DrainRemove(d) PROVE TypeInv'
  <2>1. /\ todo[d] \in Seq(Procs) /\ todo[d] # <<>> => Head(todo[d]) \in Procs
        /\ todo[d] # <<>> => Tail(todo[d]) \in Seq(Procs)
    BY TailElems DEF TypeInv, TypeOK
  <2>2. /\ daemon' \in [Procs -> DaemonStage] /\ UNCHANGED <<send, conn>>
        /\ \A e \in Procs : e # d => daemon'[e] = daemon[e] /\ todo'[e] = todo[e]
        /\ daemon[d] \in {"drain", "remove"} /\ daemon'[d] \in {"drain", "remove"}
        /\ daemon'[d] = "remove" => todo'[d] = todo[d] /\ todo[d] # <<>>
    BY <1>4 DEF DrainSkip, DrainRead, DrainRemove, DaemonAt, TypeInv, TypeOK, DaemonStage
  <2>3. LinkInv' /\ \A e \in Procs : todo'[e] # <<>> => daemon'[e] \in {"drain", "remove"}
    BY <2>2 DEF TypeInv, TypeOK, LinkInv
  <2>4. CASE DrainRead(d)
    <3>1. memory' \in [Procs -> Seq(Procs)]
      <4>1. Append(memory[d], Head(todo[d])) \in Seq(Procs)
        BY <2>1, <2>4, AppendElems DEF DrainRead, TypeInv, TypeOK
      <4>2. memory' = memory \/ memory' = [memory EXCEPT ![d] = Append(@, Head(todo[d]))]
        BY <2>4 DEF DrainRead
      <4>3. QED
        BY <4>1, <4>2 DEF TypeInv, TypeOK
    <3>2. discarded' \subseteq Procs
      BY <2>1, <2>4 DEF DrainRead, TypeInv, TypeOK
    <3>3. QED
      BY <2>2, <2>3, <2>4, <3>1, <3>2 DEF DrainRead, TypeInv, TypeOK, fileVars
  <2>5. CASE DrainSkip(d) \/ DrainRemove(d)
    <3> todo[d] # <<>>
      BY <2>5 DEF DrainSkip, DrainRemove, DaemonAt, TypeInv, LinkInv
    <3>1. todo' \in [Procs -> Seq(Procs)]
      BY <2>1, <2>5 DEF DrainSkip, DrainRemove, TypeInv, TypeOK
    <3>2. left' \in [Procs -> SUBSET Procs]
      <4>1. left' = left \/ left' = [left EXCEPT ![d] = @ \cup {Head(todo[d])}]
        BY <2>5 DEF DrainSkip, DrainRemove
      <4>2. Head(todo[d]) \in Procs /\ left \in [Procs -> SUBSET Procs]
        BY <2>1 DEF TypeInv, TypeOK
      <4>3. [left EXCEPT ![d] = @ \cup {Head(todo[d])}] \in [Procs -> SUBSET Procs]
        BY <4>2
      <4>4. QED
        BY <4>1, <4>2, <4>3
    <3>3. files' \in Seq(Procs) /\ torn' \subseteq Procs
      BY <2>5, WithoutType DEF DrainSkip, DrainRemove, TypeInv, TypeOK, fileVars
    <3>4. UNCHANGED <<sock, locks, inbox, memory, overlapped, discarded, cut, early, served, after>>
      BY <2>5 DEF DrainSkip, DrainRemove, fileVars, dataVars
    <3>5. QED
      BY <2>2, <2>3, <3>1, <3>2, <3>3, <3>4 DEF TypeInv, TypeOK
  <2>6. QED
    BY <1>4, <2>4, <2>5
<1>5. ASSUME PublishFails(d) \/ Exit(d) \/ Kill(d) PROVE TypeInv'
  <2>1. /\ daemon[d] # "none" /\ daemon' = [daemon EXCEPT ![d] = "dead"]
        /\ (todo[d] = <<>> /\ todo' = todo) \/ todo' = [todo EXCEPT ![d] = <<>>]
        /\ UNCHANGED <<send, conn>> /\ "dead" \in DaemonStage
    BY <1>1, <1>5 DEF PublishFails, Exit, Kill, Dies, Alive, DaemonStage
  <2>2. /\ inbox' \in [Procs -> SUBSET Procs] /\ cut' \subseteq Procs
        /\ UNCHANGED <<sock, files, torn, locks, memory, overlapped, discarded, left, early,
                       served, after>>
    BY <1>5, TypeDies DEF PublishFails, Exit, Kill, fileVars
  <2>3. QED
    BY <2>1, <2>2, TypeMove DEF TypeInv, TypeOK
<1>6. QED
  BY <1>2, <1>3, <1>4, <1>5 DEF DaemonRuns

\* The types are inductive.
LEMMA TypeNext == TypeInv /\ [Next]_vars => TypeInv'
<1> SUFFICES ASSUME TypeInv, [Next]_vars PROVE TypeInv'
  OBVIOUS
<1>1. CASE UNCHANGED vars
  BY <1>1 DEF vars, procVars, fileVars, dataVars, pastVars, lossVars, TypeInv, TypeOK, LinkInv
<1>2. ASSUME NEW d \in Procs, NEW p \in Procs, Handle(d, p) PROVE TypeInv'
  <2>1. memory' \in [Procs -> Seq(Procs)]
    BY <1>2, AppendElems DEF Handle, TypeInv, TypeOK
  <2>2. inbox' \in [Procs -> SUBSET Procs]
    BY <1>2 DEF Handle, TypeInv, TypeOK
  <2>3. QED
    BY <1>2, <2>1, <2>2 DEF Handle, TypeInv, TypeOK, LinkInv, procVars, fileVars, pastVars,
                              lossVars
<1>3. ASSUME NEW d \in Procs, NEW p \in Procs, Reject(d, p) PROVE TypeInv'
  <2>1. /\ conn' \in [Procs -> Procs \cup {None}] /\ inbox' \in [Procs -> SUBSET Procs]
        /\ cut' \subseteq Procs
    BY <1>3 DEF Reject, TypeInv, TypeOK
  <2>2. QED
    BY <1>3, <2>1 DEF Reject, TypeInv, TypeOK, LinkInv, fileVars
<1>4. QED
  BY <1>1, <1>2, <1>3, TypeSend, TypeDaemon DEF Next

-----------------------------------------------------------------------------
(* Most steps move no payload, or drop one that has been written to a       *)
(* connection.  What they may do, as far as payloads are concerned:         *)

QuietSend(s, t) ==
  \/ s = t
  \/ s = "idle" /\ t \in {"connected", "cold"}
  \/ s \in {"connected", "cold", "created", "queued"} /\ t = "failed"
  \/ s \in {"awaiting", "queued"} /\ t = "done"

BeforeScan == {"none", "probe", "unlink", "bind", "scan"}

QuietDaemon(d) ==
  /\ todo'[d] \in {todo[d], <<>>}
  /\ daemon'[d] \in BeforeScan => daemon[d] \in BeforeScan
  /\ daemon'[d] = "remove" => daemon[d] = "remove" /\ todo'[d] = todo[d]
  /\ daemon[d] = "remove" => daemon'[d] \in {"remove", "dead"}
  /\ daemon[d] \in Serving => daemon'[d] \in Serving \cup {"dead"}
  /\ daemon[d] = "dead" => daemon'[d] = "dead"
  /\ daemon[d] \in Listening => daemon'[d] \in Listening \/ inbox'[d] = {}
  /\ inbox'[d] \subseteq inbox[d] /\ inbox[d] \subseteq inbox'[d] \cup cut'
  /\ d \in served' => d \in served \/ (daemon[d] = "publish" /\ daemon'[d] = "serving")

Quiet ==
  /\ UNCHANGED <<files, torn, memory, discarded, left, early>>
  /\ cut \subseteq cut'
  /\ overlapped => overlapped'
  /\ \A p \in Procs : QuietSend(send[p], send'[p]) /\ QuietDaemon(p)

\* A step that changes no daemon, or no send, is quiet as soon as its part is.
LEMMA QuietSends ==
  ASSUME TypeInv, NEW p \in Procs, NEW from, NEW to \in SendStage, SendAt(p, from, to),
         QuietSend(from, to),
         UNCHANGED <<daemon, todo, files, torn, inbox, memory, overlapped, lossVars, served>>
  PROVE  Quiet
<1>1. \A q \in Procs : QuietSend(send[q], send'[q])
  BY SendGoes DEF QuietSend
<1>2. \A d \in Procs : QuietDaemon(d)
  BY DEF QuietDaemon
<1>3. QED
  BY <1>1, <1>2 DEF Quiet, lossVars

LEMMA QuietDaemons ==
  ASSUME TypeInv, NEW d \in Procs, NEW to \in DaemonStage, daemon' = [daemon EXCEPT ![d] = to],
         QuietDaemon(d),
         \A e \in Procs : e # d => /\ todo'[e] = todo[e] /\ inbox'[e] = inbox[e]
                                 /\ (e \in served' => e \in served),
         UNCHANGED <<send, files, torn, memory, discarded, left, early>>,
         overlapped => overlapped', cut \subseteq cut'
  PROVE  Quiet
<1>1. \A e \in Procs : daemon'[e] = IF e = d THEN to ELSE daemon[e]
  BY DaemonGoes
<1>2. \A e \in Procs : QuietSend(send[e], send'[e])
  BY DEF QuietSend
<1>3. \A e \in Procs : QuietDaemon(e)
  BY <1>1 DEF QuietDaemon
<1>4. QED
  BY <1>2, <1>3 DEF Quiet

\* The quiet steps of a send.
LEMMA QuietSendSteps ==
  ASSUME TypeInv, NEW p \in Procs,
         \/ Connect(p) \/ WarmWriteFails(p) \/ WarmEnd(p) \/ CreateFileFails(p)
         \/ WriteFileFails(p) \/ Spawn(p) \/ SpawnFails(p)
  PROVE  Quiet
<1>1. CASE Spawn(p)
  <2>1. /\ send[p] = "queued" /\ \A q \in Procs : send'[q] = IF q = p THEN "done" ELSE send[q]
    BY <1>1, SendGoes, SendStages DEF Spawn
  <2>2. \A d \in Procs : daemon'[d] = IF d = p THEN "probe" ELSE daemon[d]
    BY <1>1, DaemonGoes DEF Spawn, DaemonStage
  <2>3. daemon[p] = "none"
    BY <2>1 DEF TypeInv, LinkInv
  <2>4. UNCHANGED <<todo, files, torn, inbox, memory, lossVars, overlapped, served>>
    BY <1>1 DEF Spawn, fileVars, dataVars, pastVars
  <2>5. \A d \in Procs : QuietDaemon(d)
    BY <2>2, <2>3, <2>4 DEF QuietDaemon, BeforeScan, Serving, Listening, Bound
  <2>6. \A q \in Procs : QuietSend(send[q], send'[q])
    BY <2>1 DEF QuietSend
  <2>7. QED
    BY <2>4, <2>5, <2>6 DEF Quiet, lossVars
<1>2. CASE ~Spawn(p)
  <2>1. \E from, to \in SendStage : SendAt(p, from, to) /\ QuietSend(from, to)
    BY <1>2, SendStages DEF Connect, WarmWriteFails, WarmEnd, CreateFileFails, WriteFileFails,
                            SpawnFails, QuietSend
  <2>2. UNCHANGED <<daemon, todo, files, torn, inbox, memory, overlapped, lossVars, served>>
    BY <1>2 DEF Connect, WarmWriteFails, WarmEnd, CreateFileFails, WriteFileFails, SpawnFails,
                fileVars, dataVars, pastVars
  <2>3. QED
    BY <2>1, <2>2, QuietSends
<1>3. QED
  BY <1>1, <1>2

\* The quiet steps of a daemon.
LEMMA QuietDaemonSteps ==
  ASSUME TypeInv, NEW d \in Procs,
         \/ Probe(d) \/ Unlink(d) \/ Bind(d) \/ BindFails(d) \/ DrainEnd(d) \/ Publish(d)
         \/ PublishFails(d) \/ Unpublish(d) \/ UnlinkSock(d) \/ Exit(d) \/ Stop(d) \/ Kill(d)
  PROVE  Quiet
<1>1. CASE PublishFails(d) \/ Exit(d) \/ Kill(d)
  <2>1. /\ daemon' = [daemon EXCEPT ![d] = "dead"]
        /\ todo'[d] \in {todo[d], <<>>}
        /\ \A e \in Procs : /\ e # d => todo'[e] = todo[e]
                            /\ inbox'[e] = IF e = d THEN {} ELSE inbox[e]
        /\ cut' = cut \cup inbox[d]
        /\ UNCHANGED <<send, files, torn, memory, discarded, left, early, overlapped, served>>
    BY <1>1 DEF PublishFails, Exit, Kill, Dies, fileVars, TypeInv, TypeOK
  <2>2. QuietDaemon(d)
    <3>1. daemon'[d] = "dead"
      BY <2>1, DaemonGoes DEF DaemonStage
    <3>2. QED
      BY <2>1, <3>1 DEF QuietDaemon, BeforeScan
  <2>3. QED
    BY <2>1, <2>2, QuietDaemons DEF DaemonStage
<1>2. CASE ~(PublishFails(d) \/ Exit(d) \/ Kill(d))
  <2>1. \E to \in DaemonStage :
          /\ daemon' = [daemon EXCEPT ![d] = to]
          /\ to \in BeforeScan => daemon[d] \in BeforeScan
          /\ to # "remove" /\ daemon[d] # "remove"
          /\ daemon[d] \in Serving => to \in Serving
          /\ daemon[d] \in Listening => to \in Listening
          /\ daemon[d] # "dead"
          /\ d \in served' => d \in served \/ (daemon[d] = "publish" /\ to = "serving")
    BY <1>2 DEF Probe, Unlink, Bind, BindFails, DrainEnd, Publish, Unpublish, UnlinkSock,
           Stop, DaemonAt, DaemonStage, BeforeScan, Serving, Listening, Bound, pastVars
  <2>2. UNCHANGED <<send, todo, files, torn, inbox, memory, lossVars>>
    BY <1>2 DEF Probe, Unlink, Bind, BindFails, DrainEnd, Publish, Unpublish, UnlinkSock,
           Stop, fileVars, dataVars, pastVars
  <2>3. /\ \A e \in Procs : e # d => (e \in served' => e \in served)
        /\ overlapped => overlapped'
    BY <1>2 DEF Probe, Unlink, Bind, BindFails, DrainEnd, Publish, Unpublish, UnlinkSock,
           Stop, pastVars, TypeInv, TypeOK
  <2>4. QuietDaemon(d)
    BY <2>1, <2>2, DaemonGoes DEF QuietDaemon
  <2>5. QED
    BY <2>1, <2>2, <2>3, <2>4, QuietDaemons DEF lossVars
<1>3. QED
  BY <1>1, <1>2

\* A dropped connection.
LEMMA QuietReject ==
  ASSUME TypeInv, NEW d \in Procs, NEW p \in Procs, Reject(d, p)
  PROVE  Quiet
<1>1. /\ \A e \in Procs : inbox'[e] = IF e = d THEN inbox[d] \ {p} ELSE inbox[e]
      /\ cut' = cut \cup (inbox[d] \cap {p})
      /\ UNCHANGED <<send, daemon, todo, files, torn, memory, discarded, left, early,
                     overlapped, served>>
  BY DEF Reject, fileVars, TypeInv, TypeOK
<1>2. \A e \in Procs : QuietDaemon(e)
  BY <1>1 DEF QuietDaemon
<1>3. \A e \in Procs : QuietSend(send[e], send'[e])
  BY <1>1 DEF QuietSend
<1>4. QED
  BY <1>1, <1>2, <1>3 DEF Quiet

-----------------------------------------------------------------------------
(* The parts of the invariant that quiet steps keep.                        *)

PayloadInv == ControlInv /\ PlaceInv /\ KeptInv /\ OnceInv

LEMMA PayloadInit == Init => PayloadInv /\ OrderInv
<1> SUFFICES ASSUME Init PROVE PayloadInv /\ OrderInv
  OBVIOUS
<1>1. /\ Elems(files) = {} /\ Distinct(files) /\ torn = {} /\ served = {}
      /\ \A p \in Procs :
           /\ send[p] = "idle" /\ daemon[p] = "none" /\ inbox[p] = {} /\ after[p] = {}
           /\ memory[p] = <<>> /\ Elems(todo[p]) = {} /\ Distinct(todo[p]) /\ Mem(p) = {}
  BY DEF Init, Elems, Distinct, Mem
<1>2. ControlInv
  BY <1>1 DEF ControlInv
<1>3. PlaceInv
  BY <1>1 DEF PlaceInv, Reached
<1>4. KeptInv
  BY <1>1 DEF KeptInv
<1>5. OnceInv
  BY <1>1 DEF OnceInv
<1>6. OrderInv
  BY <1>1 DEF OrderInv, SentOrderIsKept
<1>7. QED
  BY <1>2, <1>3, <1>4, <1>5, <1>6 DEF PayloadInv

LEMMA PayloadQuiet ==
  ASSUME TypeInv, TypeInv', PayloadInv, Quiet
  PROVE  PayloadInv'
<1>1. /\ Elems(files)' = Elems(files) /\ Distinct(files)' = Distinct(files) /\ torn' = torn
      /\ discarded' = discarded /\ memory' = memory /\ left' = left /\ cut \subseteq cut'
      /\ \A d \in Procs : Mem(d)' = Mem(d)
  BY DEF Quiet, Mem, Elems, Distinct
<1>2. \A d \in Procs : QuietDaemon(d) /\ QuietSend(send[d], send'[d])
  BY DEF Quiet
<1>9. \A d \in Procs : inbox'[d] \subseteq inbox[d] /\ inbox[d] \subseteq inbox'[d] \cup cut'
  BY <1>2 DEF QuietDaemon
<1>10. \A p \in Procs :
         (Reached(p)' => Reached(p)) /\ (Reached(p) => Reached(p)' \/ p \in cut')
  BY <1>1, <1>9 DEF Reached
<1>3. \A d \in Procs :
        /\ Elems(todo[d])' \subseteq Elems(todo[d])
        /\ Distinct(todo[d]) => Distinct(todo[d])'
  <2> SUFFICES ASSUME NEW d \in Procs
               PROVE  /\ Elems(todo[d])' \subseteq Elems(todo[d])
                      /\ Distinct(todo[d]) => Distinct(todo[d])'
    OBVIOUS
  <2>1. todo'[d] = todo[d] \/ todo'[d] = <<>>
    BY <1>2 DEF QuietDaemon
  <2>2. QED
    BY <2>1 DEF Elems, Distinct
<1>4. ControlInv'
  <2>1. \A d \in Procs : daemon'[d] \in BeforeScan => memory'[d] = <<>>
    BY <1>1, <1>2 DEF PayloadInv, ControlInv, QuietDaemon, BeforeScan
  <2>2. \A d \in served' : daemon'[d] \in Serving \cup {"dead"}
    <3>1. "serving" \in Serving /\ served' \subseteq Procs
      BY DEF Serving, TypeInv, TypeOK
    <3>2. QED
      BY <1>2, <3>1 DEF PayloadInv, ControlInv, QuietDaemon
  <2>3. \A d \in Procs : inbox'[d] # {} => daemon'[d] \in Listening
    BY <1>2 DEF PayloadInv, ControlInv, QuietDaemon
  <2>4. QED
    BY <1>1, <1>3, <2>1, <2>2, <2>3 DEF PayloadInv, ControlInv, BeforeScan
<1>5. PlaceInv'
  <2>1. \A p \in torn' : send'[p] \in {"created", "failed"}
    BY <1>1, <1>2 DEF PayloadInv, PlaceInv, TypeInv, TypeOK, QuietSend
  <2>2. \A p \in Procs :
          /\ send'[p] \in {"idle", "connected", "cold"} => send[p] \in {"idle", "connected", "cold"}
          /\ send'[p] \in {"idle", "connected", "cold", "created"} =>
               send[p] \in {"idle", "connected", "cold", "created"}
          /\ send'[p] = "created" => send[p] = "created"
    BY <1>2 DEF QuietSend
  <2>3. \A d \in Procs : daemon'[d] = "remove" => Head(todo'[d]) \in discarded' \cup Mem(d)'
    BY <1>1, <1>2 DEF PayloadInv, PlaceInv, QuietDaemon
  <2>4. \A d, e \in Procs : \A p \in inbox'[d] :
          p \notin Elems(files)' /\ p \notin Mem(e)' /\ (p \in inbox'[e] => e = d)
    BY <1>1, <1>9 DEF PayloadInv, PlaceInv
  <2>5. QED
    BY <1>1, <1>3, <1>10, <2>1, <2>2, <2>3, <2>4 DEF PayloadInv, PlaceInv
<1>6. KeptInv'
  BY <1>1, <1>2, <1>10 DEF PayloadInv, KeptInv, QuietSend
<1>7. OnceInv'
  <2>1. ASSUME ~overlapped' PROVE ~overlapped
    BY <2>1 DEF Quiet
  <2>2. ASSUME NEW d \in Procs, Lost(d) PROVE Lost(d)'
    BY <1>2, <2>2 DEF Lost, QuietDaemon
  <2>3. ASSUME NEW d \in Procs, daemon[d] = "remove"
        PROVE  Lost(d)' \/ (daemon'[d] = "remove" /\ todo'[d] = todo[d])
    <3>1. d \notin served
      BY <2>3 DEF PayloadInv, ControlInv, Serving
    <3>2. QED
      BY <1>2, <2>3, <3>1 DEF QuietDaemon, Lost
  <2>4. QED
    BY <1>1, <2>1, <2>2, <2>3 DEF PayloadInv, OnceInv
<1>8. QED
  BY <1>4, <1>5, <1>6, <1>7 DEF PayloadInv

LEMMA OrderQuiet ==
  ASSUME TypeInv, OrderInv, Quiet, UNCHANGED after
  PROVE  OrderInv'
<1>1. /\ files' = files /\ memory' = memory /\ early' = early
      /\ \A d \in Procs : Mem(d)' = Mem(d)
      /\ Elems(files)' = Elems(files)
      /\ \A p, q : Precedes(files, q, p)' <=> Precedes(files, q, p)
      /\ \A p, q : \A d \in Procs : Precedes(memory[d], q, p)' <=> Precedes(memory[d], q, p)
  BY DEF Quiet, Mem, Precedes, Elems
<1>2. \A d \in Procs : QuietDaemon(d) /\ QuietSend(send[d], send'[d])
  BY DEF Quiet
<1>3. \A d \in Procs : todo'[d] = todo[d] \/ Elems(todo[d])' = {}
  BY <1>2 DEF QuietDaemon, Elems
<1>4. \A p \in Procs : \A q \in after'[p] :
        send'[q] = "done" /\ send'[p] # "idle" /\ \A d \in Procs : q \notin inbox'[d]
  BY <1>1, <1>2 DEF OrderInv, QuietSend, QuietDaemon, TypeInv, TypeOK
<1>5. \A d \in Procs : Elems(todo[d])' = {} \/ (Elems(todo[d])' = Elems(todo[d])
        /\ \A p, q : Precedes(todo[d], q, p)' <=> Precedes(todo[d], q, p))
  BY <1>3 DEF Elems, Precedes
<1>6. SentOrderIsKept'
  BY <1>1 DEF OrderInv, SentOrderIsKept, Mem
<1>7. QED
  BY <1>1, <1>4, <1>5, <1>6 DEF OrderInv

-----------------------------------------------------------------------------
(* The steps that move payloads.                                            *)

\* Everything that a step says of the memories and inboxes of others than d.
LEMMA Others ==
  ASSUME NEW d \in Procs, \A e \in Procs : e # d => memory'[e] = memory[e]
  PROVE  \A e \in Procs : e # d => Mem(e)' = Mem(e)
BY DEF Mem, Elems

\* A payload that goes into the memory of d, and after which nothing there was sent,
\* leaves all memories in order.
LEMMA OrderGrows ==
  ASSUME TypeInv, SentOrderIsKept, NEW d \in Procs, NEW p \in Procs,
         memory' = [memory EXCEPT ![d] = Append(@, p)], UNCHANGED <<after, early>>,
         \A x \in Procs : p \in after[x] => x # p /\ (x \in Mem(d) => x \in early[d])
  PROVE  SentOrderIsKept'
<1> SUFFICES ASSUME NEW e \in Procs, NEW x \in Procs, NEW q \in Procs,
                    q \in after[x], {x, q} \subseteq Elems(memory'[e]), x \notin early[e]
             PROVE  Precedes(memory'[e], q, x)
  BY DEF SentOrderIsKept
<1>1. CASE e # d
  <2>1. memory'[e] = memory[e]
    BY <1>1 DEF TypeInv, TypeOK
  <2>2. QED
    BY <2>1 DEF SentOrderIsKept
<1>2. CASE e = d
  <2>1. memory'[d] = Append(memory[d], p) /\ memory[d] \in Seq(Procs)
    BY DEF TypeInv, TypeOK
  <2>2. Elems(memory'[d]) = Mem(d) \cup {p}
    BY <2>1, AppendElems DEF Mem
  <2>3. q \in Mem(d)
    BY <1>2, <2>2
  <2>4. CASE x = p
    BY <1>2, <2>1, <2>3, <2>4, AppendElems DEF Mem
  <2>5. CASE x \in Mem(d)
    <3>1. Precedes(memory[d], q, x)
      BY <1>2, <2>3, <2>5 DEF SentOrderIsKept, Mem
    <3>2. QED
      BY <1>2, <2>1, <3>1, AppendElems
  <2>6. QED
    BY <1>2, <2>2, <2>4, <2>5
<1>3. QED
  BY <1>1, <1>2

\* A payload goes from its send, where alone it was, to the inbox of a daemon.
LEMMA WarmWriteKeeps ==
  ASSUME TypeInv, PayloadInv, OrderInv, NEW p \in Procs, WarmWrite(p)
  PROVE  PayloadInv' /\ OrderInv'
<1>1. /\ send[p] = "connected" /\ conn[p] \in Procs
      /\ \A q \in Procs : send'[q] = IF q = p THEN "awaiting" ELSE send[q]
  BY SendGoes, SendStages DEF WarmWrite, ConnectionOpen, SendAt, TypeInv, TypeOK
<1>2. PICK d \in Procs : d = conn[p]
  BY <1>1
<1>3. \A e \in Procs : inbox'[e] = IF e = d THEN inbox[e] \cup {p} ELSE inbox[e]
  BY <1>2 DEF WarmWrite, TypeInv, TypeOK
<1>4. UNCHANGED <<daemon, todo, files, torn, memory, overlapped, discarded, cut, left, early,
                  served, after>>
  BY DEF WarmWrite, fileVars, pastVars, lossVars
<1>5. /\ Elems(files)' = Elems(files) /\ Distinct(files)' = Distinct(files)
      /\ \A e \in Procs :
           /\ Mem(e)' = Mem(e) /\ Elems(todo[e])' = Elems(todo[e])
           /\ Distinct(todo[e])' = Distinct(todo[e])
  BY <1>4 DEF Mem, Elems, Distinct
<1>6. /\ p \notin Elems(files) /\ p \notin torn
      /\ \A e \in Procs : p \notin inbox[e] /\ p \notin Mem(e)
  BY <1>1 DEF PayloadInv, PlaceInv, Reached
<1>7. ControlInv'
  <2>1. \A e \in Procs : inbox'[e] # {} => daemon'[e] \in Listening
    BY <1>2, <1>3, <1>4 DEF WarmWrite, ConnectionOpen, PayloadInv, ControlInv
  <2>2. QED
    BY <1>4, <1>5, <2>1 DEF PayloadInv, ControlInv
<1>8. \A q \in Procs : Reached(q)' <=> q = p \/ Reached(q)
  BY <1>3, <1>5 DEF Reached
<1>9. PlaceInv'
  <2>1. \A q \in torn' : send'[q] \in {"created", "failed"}
    BY <1>1, <1>4, <1>6 DEF PayloadInv, PlaceInv, TypeInv, TypeOK
  <2>2. ASSUME NEW e \in Procs, NEW f \in Procs, NEW q \in inbox'[e]
        PROVE  q \notin Elems(files)' /\ q \notin Mem(f)' /\ (q \in inbox'[f] => f = e)
    <3>1. CASE q = p
      <4>1. e = d /\ (q \in inbox'[f] => f = d)
        BY <1>3, <1>6, <3>1
      <4>2. QED
        BY <1>5, <1>6, <3>1, <4>1
    <3>2. CASE q # p
      <4>1. q \in inbox[e] /\ (q \in inbox'[f] => q \in inbox[f])
        BY <1>3, <3>2
      <4>2. q \notin Elems(files) /\ q \notin Mem(f) /\ (q \in inbox[f] => f = e)
        BY <4>1 DEF PayloadInv, PlaceInv
      <4>3. QED
        BY <1>5, <4>1, <4>2
    <3>3. QED
      BY <3>1, <3>2
  <2>3. QED
    BY <1>1, <1>4, <1>5, <1>8, <2>1, <2>2 DEF PayloadInv, PlaceInv
<1>10. KeptInv'
  BY <1>1, <1>4, <1>5, <1>8 DEF PayloadInv, KeptInv
<1>11. OnceInv'
  BY <1>4, <1>5 DEF PayloadInv, OnceInv, Lost
<1>12. OrderInv'
  <2>1. \A x \in Procs : \A q \in after'[x] :
          send'[q] = "done" /\ send'[x] # "idle" /\ \A e \in Procs : q \notin inbox'[e]
    <3>1. ASSUME NEW x \in Procs, NEW q \in after[x]
          PROVE  send'[q] = "done" /\ send'[x] # "idle" /\ \A e \in Procs : q \notin inbox'[e]
      <4>1. /\ q \in Procs /\ send[q] = "done" /\ send[x] # "idle"
            /\ \A e \in Procs : q \notin inbox[e]
        BY <3>1 DEF OrderInv, TypeInv, TypeOK
      <4>2. q # p
        BY <1>1, <4>1
      <4>3. QED
        BY <1>1, <1>3, <4>1, <4>2
    <3>2. QED
      BY <1>4, <3>1
  <2>2. /\ \A x, y : Precedes(files, x, y)' <=> Precedes(files, x, y)
        /\ \A e \in Procs : \A x, y :
             /\ Precedes(todo[e], x, y)' <=> Precedes(todo[e], x, y)
             /\ Precedes(memory[e], x, y)' <=> Precedes(memory[e], x, y)
    BY <1>4 DEF Precedes
  <2>3. SentOrderIsKept'
    BY <1>4, <1>5, <2>2 DEF OrderInv, SentOrderIsKept, Mem
  <2>4. QED
    BY <1>4, <1>5, <2>1, <2>2, <2>3 DEF OrderInv
<1>13. QED
  BY <1>7, <1>9, <1>10, <1>11, <1>12 DEF PayloadInv

\* From the inbox, where alone it was, it goes to the memory of that daemon.
LEMMA HandleKeeps ==
  ASSUME TypeInv, PayloadInv, OrderInv, NEW d \in Procs, NEW p \in Procs, Handle(d, p)
  PROVE  PayloadInv' /\ OrderInv'
<1>1. daemon[d] \in Serving /\ p \in inbox[d] /\ todo[d] = <<>>
  BY DEF Handle, TypeInv, TypeOK, Serving
<1>2. UNCHANGED <<send, daemon, todo, files, torn, overlapped, discarded, cut, left, early,
                  served, after>>
  BY DEF Handle, procVars, fileVars, pastVars, lossVars
<1>3. \A e \in Procs :
        /\ inbox'[e] = IF e = d THEN inbox[e] \ {p} ELSE inbox[e]
        /\ memory'[e] = IF e = d THEN Append(memory[e], p) ELSE memory[e]
        /\ memory[e] \in Seq(Procs)
  BY DEF Handle, TypeInv, TypeOK
<1>4. \A e \in Procs : Mem(e)' = IF e = d THEN Mem(e) \cup {p} ELSE Mem(e)
  <2>1. memory'[d] = Append(memory[d], p) /\ memory[d] \in Seq(Procs)
    BY <1>3
  <2>2. Elems(memory'[d]) = Elems(memory[d]) \cup {p}
    BY <2>1, AppendElems
  <2>3. \A e \in Procs : e # d => Elems(memory'[e]) = Elems(memory[e])
    BY <1>3
  <2>4. QED
    BY <2>2, <2>3 DEF Mem
<1>5. /\ Elems(files)' = Elems(files) /\ Distinct(files)' = Distinct(files)
      /\ \A e \in Procs :
           Elems(todo[e])' = Elems(todo[e]) /\ Distinct(todo[e])' = Distinct(todo[e])
  BY <1>2 DEF Elems, Distinct
<1>6. p \notin Elems(files) /\ \A e \in Procs : p \notin Mem(e) /\ (p \in inbox[e] => e = d)
  BY <1>1 DEF PayloadInv, PlaceInv
<1>7. ControlInv'
  BY <1>1, <1>2, <1>3, <1>5 DEF PayloadInv, ControlInv, Serving, Listening
<1>8. \A q \in Procs : Reached(q)' <=> Reached(q)
  BY <1>1, <1>3, <1>4 DEF Reached
<1>9. PlaceInv'
  <2>1. ASSUME NEW e \in Procs, NEW f \in Procs, NEW q \in inbox'[e]
        PROVE  q \notin Elems(files)' /\ q \notin Mem(f)' /\ (q \in inbox'[f] => f = e)
    <3>1. q \in inbox[e] /\ q # p /\ (q \in inbox'[f] => q \in inbox[f])
      BY <1>3, <1>6
    <3>2. q \notin Elems(files) /\ q \notin Mem(f) /\ (q \in inbox[f] => f = e)
      BY <3>1 DEF PayloadInv, PlaceInv
    <3>3. QED
      BY <1>4, <1>5, <3>1, <3>2
  <2>2. QED
    BY <1>2, <1>4, <1>5, <1>8, <2>1 DEF PayloadInv, PlaceInv
<1>10. KeptInv'
  BY <1>2, <1>5, <1>8 DEF PayloadInv, KeptInv
<1>11. OnceInv'
  BY <1>2, <1>4, <1>5, <1>6 DEF PayloadInv, OnceInv, Lost
<1>12. OrderInv'
  <2>1. \A x \in Procs : \A q \in after'[x] :
          send'[q] = "done" /\ send'[x] # "idle" /\ \A e \in Procs : q \notin inbox'[e]
    BY <1>2, <1>3 DEF OrderInv, TypeInv, TypeOK
  <2>2. /\ \A x, y : Precedes(files, x, y)' <=> Precedes(files, x, y)
        /\ \A e \in Procs : \A x, y : Precedes(todo[e], x, y)' <=> Precedes(todo[e], x, y)
    BY <1>2 DEF Precedes
  <2>3. Elems(todo'[d]) = {}
    <3>1. todo'[d] = <<>>
      BY <1>1, <1>2
    <3>2. QED
      BY <3>1 DEF Elems
  <2>4. \A x \in Procs : \A q \in after'[x] : \A e \in Procs :
          x \in Mem(e)' /\ x \notin early[e] => q \notin Elems(todo[e])'
    BY <1>2, <1>4, <1>5, <2>3 DEF OrderInv
  <2>5. \A x \in Procs : p \notin after[x]
    BY <1>1 DEF OrderInv
  <2>6. SentOrderIsKept'
    BY <1>2, <2>5, OrderGrows DEF OrderInv, Handle
  <2>7. QED
    BY <1>2, <1>5, <2>1, <2>2, <2>4, <2>6 DEF OrderInv
<1>13. QED
  BY <1>7, <1>9, <1>10, <1>11, <1>12 DEF PayloadInv

\* A step that changes the queue directory and no list, and keeps it in order.
LEMMA OrderFiles ==
  ASSUME OrderInv, UNCHANGED <<todo, memory, after, early>>,
         \A x \in Procs : \A q \in after[x] :
           send'[q] = "done" /\ send'[x] # "idle" /\ \A d \in Procs : q \notin inbox'[d],
         \A x \in Procs : \A q \in after[x] :
           {x, q} \subseteq Elems(files') => Precedes(files', q, x)
  PROVE  OrderInv'
<1>1. \A d \in Procs : Elems(todo'[d]) = Elems(todo[d]) /\ Mem(d)' = Mem(d)
  BY DEF Mem
<1>2. \A d \in Procs : \A x, q :
        /\ Precedes(todo'[d], q, x) <=> Precedes(todo[d], q, x)
        /\ Precedes(memory'[d], q, x) <=> Precedes(memory[d], q, x)
  BY DEF Precedes
<1>3. SentOrderIsKept'
  BY <1>1, <1>2 DEF OrderInv, SentOrderIsKept, Mem
<1>4. \A x \in Procs : \A q \in after'[x] : \A d \in Procs :
        x \notin early'[d] =>
          /\ {x, q} \subseteq Elems(todo'[d]) => Precedes(todo'[d], q, x)
          /\ x \in Mem(d)' => q \notin Elems(todo'[d])
  BY <1>1, <1>2 DEF OrderInv
<1>5. QED
  BY <1>3, <1>4 DEF OrderInv

\* A file is created: the payload, until then with its send alone, is on disk, torn.
LEMMA CreateFileKeeps ==
  ASSUME TypeInv, PayloadInv, OrderInv, NEW p \in Procs, CreateFile(p)
  PROVE  PayloadInv' /\ OrderInv'
<1>1. /\ send[p] = "cold"
      /\ \A q \in Procs : send'[q] = IF q = p THEN "created" ELSE send[q]
  BY SendGoes, SendStages DEF CreateFile
<1>2. UNCHANGED <<daemon, todo, inbox, memory, overlapped, discarded, cut, left, early,
                  served, after>>
  BY DEF CreateFile, dataVars, pastVars, lossVars
<1>3. /\ p \notin Elems(files) /\ Distinct(files) /\ files \in Seq(Procs)
      /\ \A e \in Procs : p \notin Elems(todo[e]) /\ p \notin inbox[e] /\ p \notin Mem(e)
  BY <1>1 DEF PayloadInv, ControlInv, PlaceInv, Reached, TypeInv, TypeOK
<1>4. /\ torn' = torn \cup {p} /\ Elems(files') = Elems(files) \cup {p} /\ Distinct(files')
      /\ \A x, y : Precedes(files, x, y) => Precedes(files', x, y)
      /\ \A x \in Elems(files) : Precedes(files', x, p)
  BY <1>3, AppendElems DEF CreateFile
<1>5. \A e \in Procs : Mem(e)' = Mem(e) /\ Elems(todo'[e]) = Elems(todo[e])
  BY <1>2 DEF Mem
<1>6. \A q \in Procs : Reached(q)' <=> Reached(q)
  BY <1>2, <1>5 DEF Reached
<1>7. ControlInv'
  BY <1>2, <1>4 DEF PayloadInv, ControlInv, Distinct
<1>8. PlaceInv'
  <2>1. torn' \subseteq Elems(files)' /\ \A q \in torn' : send'[q] \in {"created", "failed"}
    BY <1>1, <1>4 DEF PayloadInv, PlaceInv, TypeInv, TypeOK
  <2>2. \A e, f \in Procs : \A q \in inbox'[e] :
          q \notin Elems(files)' /\ q \notin Mem(f)' /\ (q \in inbox'[f] => f = e)
    BY <1>2, <1>3, <1>4, <1>5 DEF PayloadInv, PlaceInv
  <2>3. \A q \in Procs :
          /\ send'[q] \in {"idle", "connected", "cold"} =>
               q \notin Elems(files)' /\ \A d \in Procs : q \notin Elems(todo'[d])
          /\ send'[q] \in {"idle", "connected", "cold", "created"} => ~Reached(q)'
          /\ send'[q] = "created" => q \in torn' \/ q \in discarded' \ Elems(files')
    BY <1>1, <1>2, <1>4, <1>5, <1>6 DEF PayloadInv, PlaceInv
  <2>4. QED
    BY <1>2, <1>5, <2>1, <2>2, <2>3 DEF PayloadInv, PlaceInv
<1>9. KeptInv'
  BY <1>1, <1>2, <1>4, <1>6 DEF PayloadInv, KeptInv
<1>10. OnceInv'
  BY <1>2, <1>3, <1>4, <1>5 DEF PayloadInv, OnceInv, Lost
<1>11. OrderInv'
  <2>1. ASSUME NEW x \in Procs, NEW q \in after[x]
        PROVE  /\ send'[q] = "done" /\ send'[x] # "idle" /\ \A d \in Procs : q \notin inbox'[d]
               /\ q # p /\ q \in Procs
    BY <1>1, <1>2, <2>1 DEF OrderInv, TypeInv, TypeOK
  <2>2. ASSUME NEW x \in Procs, NEW q \in after[x], {x, q} \subseteq Elems(files')
        PROVE  Precedes(files', q, x)
    BY <1>4, <2>1, <2>2 DEF OrderInv
  <2>3. QED
    BY <1>2, <2>1, <2>2, OrderFiles
<1>12. QED
  BY <1>7, <1>8, <1>9, <1>10, <1>11 DEF PayloadInv

\* A file is written: its payload is whole and the youngest, if the file is still there.
LEMMA WriteFileKeeps ==
  ASSUME TypeInv, PayloadInv, OrderInv, NEW p \in Procs, WriteFile(p)
  PROVE  PayloadInv' /\ OrderInv'
<1>1. /\ send[p] = "created"
      /\ \A q \in Procs : send'[q] = IF q = p THEN "queued" ELSE send[q]
  BY SendGoes, SendStages DEF WriteFile
<1>2. UNCHANGED <<daemon, todo, inbox, memory, overlapped, discarded, cut, left, early,
                  served, after>>
  BY DEF WriteFile, dataVars, pastVars, lossVars
<1>3. /\ Distinct(files) /\ files \in Seq(Procs) /\ p \in torn \cup discarded
      /\ torn \subseteq Elems(files) /\ \A e \in Procs : p \notin inbox[e] /\ p \notin Mem(e)
  BY <1>1 DEF PayloadInv, ControlInv, PlaceInv, Reached, TypeInv, TypeOK
<1>4. torn' = torn \ {p}
  BY DEF WriteFile
<1>5. /\ Elems(files') = Elems(files) /\ Distinct(files')
      /\ \A x, y : x # p /\ y # p /\ Precedes(files, x, y) => Precedes(files', x, y)
      /\ p \in Elems(files) => \A x \in Elems(files) \ {p} : Precedes(files', x, p)
  <2>1. CASE p \notin Elems(files)
    BY <1>3, <2>1 DEF WriteFile
  <2>2. CASE p \in Elems(files)
    <3>1. PICK w : w = Without(files, p)
      OBVIOUS
    <3>2. /\ w \in Seq(Procs) /\ Elems(w) = Elems(files) \ {p} /\ Distinct(w)
          /\ \A x, y : x # p /\ y # p /\ Precedes(files, x, y) => Precedes(w, x, y)
      BY <1>3, <3>1, WithoutElems
    <3>3. files' = Append(w, p)
      BY <2>2, <3>1 DEF WriteFile
    <3>4. /\ Elems(files') = Elems(w) \cup {p} /\ Distinct(files')
          /\ \A x, y : Precedes(w, x, y) => Precedes(files', x, y)
          /\ \A x \in Elems(w) : Precedes(files', x, p)
      BY <3>2, <3>3, AppendElems
    <3>5. QED
      BY <2>2, <3>2, <3>4
  <2>3. QED
    BY <2>1, <2>2
<1>6. \A e \in Procs : Mem(e)' = Mem(e) /\ Elems(todo'[e]) = Elems(todo[e])
  BY <1>2 DEF Mem
<1>7. \A q \in Procs : Reached(q)' <=> Reached(q)
  BY <1>2, <1>6 DEF Reached
<1>8. ControlInv'
  BY <1>2, <1>5 DEF PayloadInv, ControlInv, Distinct
<1>9. PlaceInv'
  <2>1. torn' \subseteq Elems(files)' /\ \A q \in torn' : send'[q] \in {"created", "failed"}
    BY <1>1, <1>4, <1>5 DEF PayloadInv, PlaceInv, TypeInv, TypeOK
  <2>2. \A e, f \in Procs : \A q \in inbox'[e] :
          q \notin Elems(files)' /\ q \notin Mem(f)' /\ (q \in inbox'[f] => f = e)
    BY <1>2, <1>5, <1>6 DEF PayloadInv, PlaceInv
  <2>3. \A q \in Procs :
          /\ send'[q] \in {"idle", "connected", "cold"} =>
               q \notin Elems(files)' /\ \A d \in Procs : q \notin Elems(todo'[d])
          /\ send'[q] \in {"idle", "connected", "cold", "created"} => ~Reached(q)'
          /\ send'[q] = "created" => q \in torn' \/ q \in discarded' \ Elems(files')
    BY <1>1, <1>2, <1>4, <1>5, <1>6, <1>7 DEF PayloadInv, PlaceInv
  <2>4. QED
    BY <1>2, <1>6, <2>1, <2>2, <2>3 DEF PayloadInv, PlaceInv
<1>10. KeptInv'
  BY <1>1, <1>2, <1>3, <1>4, <1>5, <1>7 DEF PayloadInv, KeptInv
<1>11. OnceInv'
  BY <1>2, <1>5, <1>6 DEF PayloadInv, OnceInv, Lost
<1>12. OrderInv'
  <2>1. ASSUME NEW x \in Procs, NEW q \in after[x]
        PROVE  /\ send'[q] = "done" /\ send'[x] # "idle" /\ \A d \in Procs : q \notin inbox'[d]
               /\ q # p /\ q \in Procs
    <3>1. q \in Procs /\ send[q] = "done" /\ send[x] # "idle"
      BY <2>1 DEF OrderInv, TypeInv, TypeOK
    <3>2. \A d \in Procs : q \notin inbox'[d]
      BY <1>2, <2>1 DEF OrderInv
    <3>3. QED
      BY <1>1, <3>1, <3>2
  <2>2. ASSUME NEW x \in Procs, NEW q \in after[x], {x, q} \subseteq Elems(files')
        PROVE  Precedes(files', q, x)
    <3>1. CASE x = p
      BY <1>5, <2>1, <2>2, <3>1
    <3>2. CASE x # p
      BY <1>5, <2>1, <2>2, <3>2 DEF OrderInv
    <3>3. QED
      BY <3>1, <3>2
  <2>3. QED
    BY <1>2, <2>1, <2>2, OrderFiles
<1>13. QED
  BY <1>8, <1>9, <1>10, <1>11, <1>12 DEF PayloadInv

\* A step that leaves the queue directory and all memories alone and gives d another list.
LEMMA OrderList ==
  ASSUME TypeInv, OrderInv, NEW d \in Procs, UNCHANGED <<send, files, inbox, memory, after>>,
         \A e \in Procs : e # d => todo'[e] = todo[e] /\ early'[e] = early[e],
         early'[d] = early[d] \/ Mem(d) = {},
         \A x \in Procs : \A q \in after[x] : x \notin early'[d] =>
           /\ {x, q} \subseteq Elems(todo'[d]) => Precedes(todo'[d], q, x)
           /\ x \in Mem(d) => q \notin Elems(todo'[d])
  PROVE  OrderInv'
<1>1. /\ Elems(files') = Elems(files)
      /\ \A e \in Procs : Mem(e)' = Mem(e) /\ (e # d => Elems(todo'[e]) = Elems(todo[e]))
  BY DEF Mem
<1>2. /\ \A x, q : Precedes(files', q, x) <=> Precedes(files, q, x)
      /\ \A e \in Procs : \A x, q :
           /\ Precedes(memory'[e], q, x) <=> Precedes(memory[e], q, x)
           /\ e # d => (Precedes(todo'[e], q, x) <=> Precedes(todo[e], q, x))
  BY DEF Precedes
<1>3. SentOrderIsKept'
  <2>1. \A e \in Procs : early'[e] = early[e] \/ Mem(e)' = {}
    BY <1>1
  <2>2. QED
    BY <1>1, <1>2, <2>1 DEF OrderInv, SentOrderIsKept, Mem
<1>4. ASSUME NEW x \in Procs, NEW q \in after[x], NEW e \in Procs, x \notin early'[e]
      PROVE  /\ {x, q} \subseteq Elems(todo'[e]) => Precedes(todo'[e], q, x)
             /\ x \in Mem(e)' => q \notin Elems(todo'[e])
  <2>1. CASE e = d
    BY <1>1, <1>4, <2>1
  <2>2. CASE e # d
    BY <1>1, <1>2, <1>4, <2>2 DEF OrderInv
  <2>3. QED
    BY <2>1, <2>2
<1>5. ASSUME NEW x \in Procs, NEW q \in after[x]
      PROVE  /\ send'[q] = "done" /\ send'[x] # "idle" /\ \A e \in Procs : q \notin inbox'[e]
             /\ {x, q} \subseteq Elems(files') => Precedes(files', q, x)
  BY <1>1, <1>2 DEF OrderInv
<1>6. QED
  BY <1>3, <1>4, <1>5 DEF OrderInv

\* The directory is listed, by a daemon that has nothing in its memory.
LEMMA ScanKeeps ==
  ASSUME TypeInv, PayloadInv, OrderInv, NEW d \in Procs, Scan(d)
  PROVE  PayloadInv' /\ OrderInv'
<1> DEFINE Ahead(l) ==
      {p \in Procs : \E q \in Procs : Precedes(l, p, q) /\ Precedes(files, q, p)}
<1>1. /\ daemon[d] = "scan" /\ memory[d] = <<>> /\ d \notin served
      /\ \A e \in Procs : daemon'[e] = IF e = d THEN "drain" ELSE daemon[e]
  BY DEF Scan, DaemonAt, PayloadInv, ControlInv, Serving, TypeInv, TypeOK
<1>11. PICK n \in 0 .. Len(files) : \E l \in [1 .. n -> Elems(files)] :
         /\ l = files \/ Distinct(l)
         /\ todo' = [todo EXCEPT ![d] = l]
         /\ left' = [left EXCEPT ![d] = Elems(files) \ Elems(l)]
         /\ early' = [early EXCEPT ![d] = Ahead(l)]
  BY DEF Scan
<1>12. PICK l \in [1 .. n -> Elems(files)] :
         /\ l = files \/ Distinct(l)
         /\ todo' = [todo EXCEPT ![d] = l]
         /\ left' = [left EXCEPT ![d] = Elems(files) \ Elems(l)]
         /\ early' = [early EXCEPT ![d] = Ahead(l)]
  BY <1>11
<1>13. /\ Distinct(l) /\ Elems(l) \subseteq Elems(files) /\ Len(l) \in Nat /\ Distinct(files)
  <2>1. n \in Nat /\ l \in Seq(Elems(files)) /\ Len(l) = n
    <3>1. n \in Nat
      BY LenProperties DEF TypeInv, TypeOK
    <3>2. QED
      BY <3>1, SeqDef, LenProperties
  <2>2. Elems(l) \subseteq Elems(files)
    BY <2>1, ElementOfSeq DEF Elems
  <2>3. QED
    BY <1>12, <2>1, <2>2 DEF PayloadInv, ControlInv
<1>2. /\ UNCHANGED <<send, files, torn, inbox, memory, overlapped, discarded, cut, served, after>>
      /\ \A e \in Procs :
           /\ todo'[e] = IF e = d THEN l ELSE todo[e]
           /\ left'[e] = IF e = d THEN Elems(files) \ Elems(l) ELSE left[e]
           /\ early'[e] = IF e = d THEN Ahead(l) ELSE early[e]
  BY <1>12 DEF Scan, fileVars, dataVars, TypeInv, TypeOK
<1>3. /\ Elems(files') = Elems(files) /\ Mem(d) = {}
      /\ \A e \in Procs :
           /\ Mem(e)' = Mem(e)
           /\ Elems(todo'[e]) = IF e = d THEN Elems(l) ELSE Elems(todo[e])
  <2>1. Elems(<<>>) = {}
    BY DEF Elems
  <2>2. QED
    BY <1>1, <1>2, <2>1 DEF Mem
<1>4. \A q \in Procs : Reached(q)' <=> Reached(q)
  BY <1>2, <1>3 DEF Reached
<1>5. ControlInv'
  <2>1. Distinct(files') /\ \A e \in Procs : Distinct(todo'[e])
    BY <1>2, <1>13 DEF PayloadInv, ControlInv
  <2>2. /\ \A e \in Procs :
             daemon'[e] \in {"none", "probe", "unlink", "bind", "scan"} => memory'[e] = <<>>
        /\ \A e \in served' : daemon'[e] \in Serving \cup {"dead"}
        /\ \A e \in Procs : inbox'[e] # {} => daemon'[e] \in Listening
    BY <1>1, <1>2 DEF PayloadInv, ControlInv, TypeInv, TypeOK, Listening, Bound
  <2>3. QED
    BY <2>1, <2>2 DEF ControlInv, Distinct
<1>6. PlaceInv'
  <2>1. /\ torn' \subseteq Elems(files') /\ \A q \in torn' : send'[q] \in {"created", "failed"}
        /\ \A e, f \in Procs : \A q \in inbox'[e] :
             q \notin Elems(files') /\ q \notin Mem(f)' /\ (q \in inbox'[f] => f = e)
    BY <1>2, <1>3 DEF PayloadInv, PlaceInv
  <2>2. \A q \in Procs :
          /\ send'[q] \in {"idle", "connected", "cold"} =>
               q \notin Elems(files') /\ \A e \in Procs : q \notin Elems(todo'[e])
          /\ send'[q] \in {"idle", "connected", "cold", "created"} => ~Reached(q)'
          /\ send'[q] = "created" => q \in torn' \/ q \in discarded' \ Elems(files')
    BY <1>2, <1>3, <1>4, <1>13 DEF PayloadInv, PlaceInv
  <2>3. \A e \in Procs : daemon'[e] = "remove" => Head(todo'[e]) \in discarded' \cup Mem(e)'
    <3>1. \A e \in Procs : daemon'[e] = "remove" => e # d /\ daemon[e] = "remove"
      BY <1>1
    <3>2. \A e \in Procs : e # d => todo'[e] = todo[e]
      BY <1>2
    <3>3. QED
      BY <1>2, <1>3, <3>1, <3>2 DEF PayloadInv, PlaceInv
  <2>4. QED
    BY <2>1, <2>2, <2>3 DEF PlaceInv
<1>7. KeptInv'
  BY <1>2, <1>3, <1>4 DEF PayloadInv, KeptInv
<1>8. OnceInv'
  <2>1. \A e \in Procs : e # d =>
          daemon'[e] = daemon[e] /\ todo'[e] = todo[e] /\ left'[e] = left[e]
    BY <1>1, <1>2
  <2>2. Mem(d)' = {} /\ \A e \in Procs : Mem(e)' = Mem(e)
    BY <1>3
  <2>3. \A e \in Procs : e # d => (Lost(e)' <=> Lost(e))
    BY <1>2, <2>1 DEF Lost
  <2>4. QED
    BY <1>2, <1>3, <2>1, <2>2, <2>3 DEF PayloadInv, OnceInv
<1>9. OrderInv'
  <2>1. ASSUME NEW x \in Procs, NEW q \in after[x], x \notin Ahead(l), {x, q} \subseteq Elems(l)
        PROVE  Precedes(l, q, x)
    <3>1. Precedes(files, q, x) /\ q \in Procs
      BY <1>13, <2>1 DEF OrderInv, TypeInv, TypeOK
    <3>2. x # q
      <4>1. Len(files) \in Nat
        BY LenProperties DEF TypeInv, TypeOK
      <4>2. QED
        BY <1>13, <3>1, <4>1 DEF Distinct, Precedes
    <3>3. Precedes(l, q, x) \/ Precedes(l, x, q)
      <4>1. PICK i, j \in 1 .. Len(l) : l[i] = x /\ l[j] = q
        BY <2>1 DEF Elems
      <4>2. i < j \/ j < i
        BY <1>13, <3>2, <4>1
      <4>3. QED
        BY <4>1, <4>2 DEF Precedes
    <3>4. QED
      BY <2>1, <3>1, <3>3
  <2>2. \A x \in Procs : \A q \in after[x] : x \notin early'[d] =>
          /\ {x, q} \subseteq Elems(todo'[d]) => Precedes(todo'[d], q, x)
          /\ x \in Mem(d) => q \notin Elems(todo'[d])
    BY <1>2, <1>3, <2>1
  <2>3. QED
    BY <1>2, <1>3, <2>2, OrderList
<1>10. QED
  BY <1>5, <1>6, <1>7, <1>8, <1>9 DEF PayloadInv

\* The next listed file has gone, or cannot be read: it leaves the list.
LEMMA SkipKeeps ==
  ASSUME TypeInv, PayloadInv, OrderInv, NEW d \in Procs, DrainSkip(d)
  PROVE  PayloadInv' /\ OrderInv'
<1>1. /\ todo[d] \in Seq(Procs) /\ todo[d] # <<>> /\ Distinct(todo[d]) /\ daemon[d] = "drain"
  BY DEF DrainSkip, PayloadInv, ControlInv, TypeInv, TypeOK
<1>2. /\ UNCHANGED <<send, daemon, files, torn, inbox, memory, overlapped, discarded, cut, early,
                    served, after>>
      /\ \A e \in Procs : /\ todo'[e] = IF e = d THEN Tail(todo[d]) ELSE todo[e]
                          /\ left[e] \subseteq left'[e]
  BY DEF DrainSkip, fileVars, dataVars, TypeInv, TypeOK
<1>3. /\ Elems(todo'[d]) \subseteq Elems(todo[d]) /\ Distinct(todo'[d])
      /\ \A x, y \in Elems(todo'[d]) : Precedes(todo[d], x, y) => Precedes(todo'[d], x, y)
  BY <1>1, <1>2, TailElems
<1>4. /\ Elems(files') = Elems(files)
      /\ \A e \in Procs : Mem(e)' = Mem(e) /\ (e # d => Elems(todo'[e]) = Elems(todo[e]))
  BY <1>2 DEF Mem
<1>5. \A q \in Procs : Reached(q)' <=> Reached(q)
  BY <1>2, <1>4 DEF Reached
<1>6. ControlInv'
  BY <1>2, <1>3 DEF PayloadInv, ControlInv, Distinct
<1>7. PlaceInv'
  <2>1. /\ torn' \subseteq Elems(files') /\ \A q \in torn' : send'[q] \in {"created", "failed"}
        /\ \A e, f \in Procs : \A q \in inbox'[e] :
             q \notin Elems(files') /\ q \notin Mem(f)' /\ (q \in inbox'[f] => f = e)
    BY <1>2, <1>4 DEF PayloadInv, PlaceInv
  <2>2. \A q \in Procs :
          /\ send'[q] \in {"idle", "connected", "cold"} =>
               q \notin Elems(files') /\ \A e \in Procs : q \notin Elems(todo'[e])
          /\ send'[q] \in {"idle", "connected", "cold", "created"} => ~Reached(q)'
          /\ send'[q] = "created" => q \in torn' \/ q \in discarded' \ Elems(files')
    BY <1>2, <1>3, <1>4, <1>5 DEF PayloadInv, PlaceInv
  <2>3. \A e \in Procs : daemon'[e] = "remove" => Head(todo'[e]) \in discarded' \cup Mem(e)'
    BY <1>1, <1>2, <1>4 DEF PayloadInv, PlaceInv
  <2>4. QED
    BY <2>1, <2>2, <2>3 DEF PlaceInv
<1>8. KeptInv'
  BY <1>2, <1>4, <1>5 DEF PayloadInv, KeptInv
<1>9. OnceInv'
  BY <1>1, <1>2, <1>4 DEF PayloadInv, OnceInv, Lost
<1>10. OrderInv'
  <2>1. \A x \in Procs : \A q \in after[x] : x \notin early'[d] =>
          /\ {x, q} \subseteq Elems(todo'[d]) => Precedes(todo'[d], q, x)
          /\ x \in Mem(d) => q \notin Elems(todo'[d])
    BY <1>2, <1>3 DEF OrderInv
  <2>2. QED
    BY <1>2, <2>1, OrderList
<1>11. QED
  BY <1>6, <1>7, <1>8, <1>9, <1>10 DEF PayloadInv

\* The next listed file is read: its payload is in the memory of d as well, or dropped.
LEMMA TakeKeeps ==
  ASSUME TypeInv, OwnerInv, PayloadInv, OrderInv, NEW d \in Procs, DrainRead(d)
  PROVE  PayloadInv' /\ OrderInv'
<1>1. PICK f \in Procs : f = Head(todo[d]) /\ f \in Elems(files) /\ f \in Elems(todo[d])
  BY TailElems DEF DrainRead, TypeInv, TypeOK
<1>2. /\ daemon[d] = "drain" /\ d \notin served /\ Distinct(files) /\ Distinct(todo[d])
      /\ todo[d] \in Seq(Procs) /\ todo[d] # <<>> /\ memory[d] \in Seq(Procs)
      /\ \A e \in Procs : daemon'[e] = IF e = d THEN "remove" ELSE daemon[e]
  BY DEF DrainRead, DaemonAt, PayloadInv, ControlInv, Serving, TypeInv, TypeOK
<1>3. UNCHANGED <<send, todo, files, torn, inbox, overlapped, cut, left, early, served, after>>
  BY DEF DrainRead, fileVars
<1>4. discarded' = IF f \in torn THEN discarded \cup {f} ELSE discarded
  BY <1>1 DEF DrainRead
<1>5. memory' = IF f \in torn THEN memory ELSE [memory EXCEPT ![d] = Append(@, f)]
  BY <1>1 DEF DrainRead
<1>6. /\ \A e \in Procs : e # d => memory'[e] = memory[e] /\ Mem(e)' = Mem(e)
      /\ Mem(d)' = IF f \in torn THEN Mem(d) ELSE Mem(d) \cup {f}
  <2>1. CASE f \in torn
    BY <1>5, <2>1 DEF Mem
  <2>2. CASE f \notin torn
    <3>1. \A e \in Procs : memory'[e] = IF e = d THEN Append(memory[d], f) ELSE memory[e]
      BY <1>5, <2>2 DEF TypeInv, TypeOK
    <3>2. Elems(Append(memory[d], f)) = Elems(memory[d]) \cup {f}
      BY <1>2, AppendElems
    <3>3. QED
      BY <2>2, <3>1, <3>2 DEF Mem
  <2>3. QED
    BY <2>1, <2>2
<1>7. Elems(files') = Elems(files) /\ \A e \in Procs : Elems(todo'[e]) = Elems(todo[e])
  BY <1>3
<1>8. \A q \in Procs : Reached(q)' <=> Reached(q) \/ (q = f /\ f \notin torn)
  BY <1>3, <1>6 DEF Reached
<1>9. ControlInv'
  <2>1. Distinct(files') /\ \A e \in Procs : Distinct(todo'[e])
    BY <1>3 DEF PayloadInv, ControlInv
  <2>2. \A e \in Procs :
          daemon'[e] \in {"none", "probe", "unlink", "bind", "scan"} => memory'[e] = <<>>
    BY <1>2, <1>6 DEF PayloadInv, ControlInv
  <2>3. \A e \in served' : daemon'[e] \in Serving \cup {"dead"}
    BY <1>2, <1>3 DEF PayloadInv, ControlInv, TypeInv, TypeOK
  <2>4. \A e \in Procs : inbox'[e] # {} => daemon'[e] \in Listening
    BY <1>2, <1>3 DEF PayloadInv, ControlInv, Listening, Bound
  <2>5. QED
    BY <2>1, <2>2, <2>3, <2>4 DEF ControlInv, Distinct
<1>10. PlaceInv'
  <2>1. torn' \subseteq Elems(files') /\ \A q \in torn' : send'[q] \in {"created", "failed"}
    BY <1>3, <1>7 DEF PayloadInv, PlaceInv
  <2>2. \A e, g \in Procs : \A q \in inbox'[e] :
          q \notin Elems(files') /\ q \notin Mem(g)' /\ (q \in inbox'[g] => g = e)
    BY <1>1, <1>3, <1>6, <1>7 DEF PayloadInv, PlaceInv
  <2>3. send[f] \notin {"idle", "connected", "cold"} /\ (f \notin torn => send[f] # "created")
    BY <1>1 DEF PayloadInv, PlaceInv
  <2>4. \A q \in Procs :
          /\ send'[q] \in {"idle", "connected", "cold"} =>
               q \notin Elems(files') /\ \A e \in Procs : q \notin Elems(todo'[e])
          /\ send'[q] \in {"idle", "connected", "cold", "created"} => ~Reached(q)'
          /\ send'[q] = "created" => q \in torn' \/ q \in discarded' \ Elems(files')
    BY <1>3, <1>4, <1>7, <1>8, <2>3 DEF PayloadInv, PlaceInv
  <2>5. \A e \in Procs : daemon'[e] = "remove" => Head(todo'[e]) \in discarded' \cup Mem(e)'
    BY <1>1, <1>2, <1>3, <1>4, <1>6 DEF PayloadInv, PlaceInv
  <2>6. QED
    BY <2>1, <2>2, <2>4, <2>5 DEF PlaceInv
<1>11. KeptInv'
  BY <1>3, <1>4, <1>7, <1>8 DEF PayloadInv, KeptInv
<1>12. OnceInv'
  <2> SUFFICES ASSUME ~overlapped
               PROVE  /\ \A e \in Procs : \A q \in Elems(files') \cap Mem(e)' :
                           \/ Lost(e)' \/ (daemon'[e] = "remove" /\ q = Head(todo'[e]))
                           \/ q \in left[e]
                      /\ \A e, g \in Procs : \A q \in Mem(e)' \cap Mem(g)' :
                           e # g => Lost(e)' \/ Lost(g)' \/ q \in left[e] \cup left[g]
    BY <1>3 DEF OnceInv
  <2>1. /\ \A e \in Procs : \A q \in Elems(files) \cap Mem(e) :
             Lost(e) \/ (daemon[e] = "remove" /\ q = Head(todo[e])) \/ q \in left[e]
        /\ \A e, g \in Procs : \A q \in Mem(e) \cap Mem(g) :
             e # g => Lost(e) \/ Lost(g) \/ q \in left[e] \cup left[g]
    BY DEF PayloadInv, OnceInv
  <2>2. \A e \in Procs : Lost(e)' <=> Lost(e)
    BY <1>2, <1>3 DEF Lost
  <2>3. ASSUME NEW e \in Procs, NEW q \in Elems(files') \cap Mem(e)'
        PROVE  \/ Lost(e)' \/ (daemon'[e] = "remove" /\ q = Head(todo'[e]))
               \/ q \in left[e]
    <3>1. CASE e = d
      <4>1. q = f \/ q \in left[e]
        BY <1>2, <1>6, <1>7, <2>1, <2>3, <3>1 DEF Lost
      <4>2. QED
        BY <1>1, <1>2, <1>3, <3>1, <4>1
    <3>2. CASE e # d
      BY <1>2, <1>3, <1>6, <1>7, <2>1, <2>2, <2>3, <3>2
    <3>3. QED
      BY <3>1, <3>2
  <2>4. ASSUME NEW e \in Procs, e # d, f \in Mem(e)
        PROVE  Lost(e) \/ f \in left[e]
    <3>1. daemon[e] # "remove"
      <4>1. daemon[d] \in Bound /\ (daemon[e] = "remove" => daemon[e] \in Bound)
        BY <1>2 DEF Bound
      <4>2. QED
        BY <2>4, <4>1 DEF OwnerInv, OneOwner
    <3>2. QED
      BY <1>1, <2>1, <2>4, <3>1
  <2>5. ASSUME NEW e \in Procs, e # d, NEW q \in Mem(d)' \cap Mem(e)
        PROVE  Lost(e) \/ q \in left[d] \cup left[e]
    <3>1. ~Lost(d)
      BY <1>2 DEF Lost
    <3>2. CASE q = f
      BY <2>4, <2>5, <3>2
    <3>3. CASE q # f
      <4>1. q \in Mem(d) \cap Mem(e)
        BY <1>6, <2>5, <3>3
      <4>2. QED
        BY <2>1, <2>5, <3>1, <4>1
    <3>4. QED
      BY <3>2, <3>3
  <2>6. ASSUME NEW e \in Procs, NEW g \in Procs, e # g, NEW q \in Mem(e)' \cap Mem(g)'
        PROVE  Lost(e)' \/ Lost(g)' \/ q \in left[e] \cup left[g]
    <3>1. CASE e = d
      <4>1. g # d /\ q \in Mem(d)' \cap Mem(g)
        BY <1>6, <2>6, <3>1
      <4>2. QED
        BY <2>2, <2>5, <3>1, <4>1
    <3>2. CASE g = d
      <4>1. e # d /\ q \in Mem(d)' \cap Mem(e)
        BY <1>6, <2>6, <3>2
      <4>2. QED
        BY <2>2, <2>5, <3>2, <4>1
    <3>3. CASE e # d /\ g # d
      BY <1>6, <2>1, <2>2, <2>6, <3>3
    <3>4. QED
      BY <3>1, <3>2, <3>3
  <2>7. QED
    BY <2>3, <2>6
<1>13. OrderInv'
  <2>1. \A x, q \in Procs : x \in Mem(d) /\ x \notin early[d] /\ q \in after[x] => q # f
    BY <1>1 DEF OrderInv
  <2>2. f \notin after[f]
    <3>1. ~Precedes(files, f, f)
      <4>1. Len(files) \in Nat
        BY LenProperties DEF TypeInv, TypeOK
      <4>2. QED
        BY <1>2, <4>1 DEF Distinct, Precedes
    <3>2. QED
      BY <1>1, <3>1 DEF OrderInv
  <2>3. \A x, q \in Procs :
          x = f /\ x \notin early[d] /\ q \in after[x] => q \notin Elems(todo[d])
    <3>1. \A q \in Elems(todo[d]) : ~Precedes(todo[d], q, f)
      BY <1>1, <1>2, TailElems
    <3>2. QED
      BY <1>1, <3>1 DEF OrderInv
  <2>4. SentOrderIsKept'
    <3>1. CASE f \in torn
      <4>1. memory' = memory /\ after' = after /\ early' = early
        BY <1>3, <1>5, <3>1
      <4>2. QED
        BY <4>1 DEF OrderInv, SentOrderIsKept
    <3>2. CASE f \notin torn
      <4>1. \A x \in Procs : f \in after[x] => x # f /\ (x \in Mem(d) => x \in early[d])
        BY <2>1, <2>2
      <4>2. QED
        BY <1>3, <1>5, <3>2, <4>1, OrderGrows DEF OrderInv
    <3>3. QED
      BY <3>1, <3>2
  <2>5. ASSUME NEW x \in Procs, NEW q \in after[x], NEW e \in Procs, x \notin early[e]
        PROVE  /\ {x, q} \subseteq Elems(todo'[e]) => Precedes(todo'[e], q, x)
               /\ x \in Mem(e)' => q \notin Elems(todo'[e])
    <3>1. q \in Procs
      BY DEF TypeInv, TypeOK
    <3>2. {x, q} \subseteq Elems(todo'[e]) => Precedes(todo'[e], q, x)
      BY <1>3, <2>5 DEF OrderInv, Elems, Precedes
    <3>3. x \in Mem(e) => q \notin Elems(todo[e])
      BY <2>5 DEF OrderInv
    <3>4. QED
      BY <1>6, <1>7, <2>3, <2>5, <3>1, <3>2, <3>3
  <2>6. ASSUME NEW x \in Procs, NEW q \in after[x]
        PROVE  /\ send'[q] = "done" /\ send'[x] # "idle" /\ \A e \in Procs : q \notin inbox'[e]
               /\ {x, q} \subseteq Elems(files') => Precedes(files', q, x)
    BY <1>3 DEF OrderInv, Precedes, Elems
  <2>7. QED
    BY <1>3, <2>4, <2>5, <2>6 DEF OrderInv
<1>14. QED
  BY <1>9, <1>10, <1>11, <1>12, <1>13 DEF PayloadInv

\* The file that was read is removed, its payload being in the memory of d or dropped,
\* or the removal fails and the file stays, which left tells.
LEMMA RemoveKeeps ==
  ASSUME TypeInv, PayloadInv, OrderInv, NEW d \in Procs, DrainRemove(d)
  PROVE  PayloadInv' /\ OrderInv'
<1>1. /\ daemon[d] = "remove" /\ todo[d] # <<>> /\ todo[d] \in Seq(Procs) /\ Distinct(todo[d])
      /\ files \in Seq(Procs) /\ Distinct(files) /\ d \notin served
      /\ \A e \in Procs : daemon'[e] = IF e = d THEN "drain" ELSE daemon[e]
  BY DEF DrainRemove, DaemonAt, PayloadInv, ControlInv, Serving, TypeInv, TypeOK, LinkInv
<1>2. PICK f \in Procs : f = Head(todo[d]) /\ f \in discarded \cup Mem(d)
  BY <1>1, TailElems DEF PayloadInv, PlaceInv
<1>3. UNCHANGED <<send, inbox, memory, overlapped, discarded, cut, early, served, after>>
  BY DEF DrainRemove, dataVars
<1>4. /\ torn' \subseteq torn /\ \A q \in torn : q \in torn' \/ q = f
      /\ \A e \in Procs : /\ todo'[e] = IF e = d THEN Tail(todo[d]) ELSE todo[e]
                          /\ left[e] \subseteq left'[e]
      /\ torn' = torn \ {f} \/ (f \in left'[d] /\ UNCHANGED <<files, torn>>)
  BY <1>2 DEF DrainRemove, TypeInv, TypeOK
<1>5. /\ Elems(files') \subseteq Elems(files) /\ Distinct(files')
      /\ \A q \in Elems(files) : q \in Elems(files') \/ q = f
      /\ f \in Elems(files') => f \in left'[d]
      /\ \A x, y \in Elems(files') : Precedes(files, x, y) => Precedes(files', x, y)
      /\ torn' \subseteq Elems(files')
  <2>1. torn \subseteq Elems(files)
    BY DEF PayloadInv, PlaceInv
  <2>2. CASE files' = Without(files, f) /\ torn' = torn \ {f}
    <3>1. /\ Elems(files') = Elems(files) \ {f} /\ Distinct(files')
          /\ \A x, y : x # f /\ y # f /\ Precedes(files, x, y) => Precedes(files', x, y)
      BY <1>1, <2>2, WithoutElems
    <3>2. QED
      BY <2>1, <2>2, <3>1
  <2>3. CASE f \in left'[d] /\ UNCHANGED <<files, torn>>
    BY <1>1, <2>1, <2>3 DEF Elems, Distinct, Precedes
  <2>4. QED
    BY <1>2, <2>2, <2>3 DEF DrainRemove, TypeInv, TypeOK
<1>6. /\ Elems(todo'[d]) \subseteq Elems(todo[d]) /\ Distinct(todo'[d])
      /\ \A x, y \in Elems(todo'[d]) : Precedes(todo[d], x, y) => Precedes(todo'[d], x, y)
  BY <1>1, <1>4, TailElems
<1>7. \A e \in Procs : Mem(e)' = Mem(e) /\ (e # d => Elems(todo'[e]) = Elems(todo[e]))
  BY <1>3, <1>4 DEF Mem
<1>8. \A q \in Procs : Reached(q)' <=> Reached(q)
  BY <1>3, <1>7 DEF Reached
<1>9. ControlInv'
  <2>1. \A e \in Procs : Distinct(todo'[e])
    BY <1>4, <1>6 DEF PayloadInv, ControlInv
  <2>2. \A e \in Procs :
          daemon'[e] \in {"none", "probe", "unlink", "bind", "scan"} => memory'[e] = <<>>
    BY <1>1, <1>3 DEF PayloadInv, ControlInv
  <2>3. \A e \in served' : daemon'[e] \in Serving \cup {"dead"}
    BY <1>1, <1>3 DEF PayloadInv, ControlInv, TypeInv, TypeOK
  <2>4. \A e \in Procs : inbox'[e] # {} => daemon'[e] \in Listening
    BY <1>1, <1>3 DEF PayloadInv, ControlInv, Listening, Bound
  <2>5. QED
    BY <1>5, <2>1, <2>2, <2>3, <2>4 DEF ControlInv, Distinct
<1>10. PlaceInv'
  <2>1. torn' \subseteq Elems(files') /\ \A q \in torn' : send'[q] \in {"created", "failed"}
    BY <1>3, <1>4, <1>5 DEF PayloadInv, PlaceInv
  <2>2. \A e, g \in Procs : \A q \in inbox'[e] :
          q \notin Elems(files') /\ q \notin Mem(g)' /\ (q \in inbox'[g] => g = e)
    BY <1>3, <1>5, <1>7 DEF PayloadInv, PlaceInv
  <2>3. send[f] = "created" => f \in discarded
    BY <1>2 DEF PayloadInv, PlaceInv, Reached
  <2>4. \A q \in Procs :
          /\ send'[q] \in {"idle", "connected", "cold"} =>
               q \notin Elems(files') /\ \A e \in Procs : q \notin Elems(todo'[e])
          /\ send'[q] \in {"idle", "connected", "cold", "created"} => ~Reached(q)'
          /\ send'[q] = "created" => q \in torn' \/ q \in discarded' \ Elems(files')
    <3>1. \A e \in Procs : Elems(todo'[e]) \subseteq Elems(todo[e])
      BY <1>6, <1>7
    <3>2. ASSUME NEW q \in Procs, send[q] = "created"
          PROVE  q \in torn' \/ q \in discarded' \ Elems(files')
      <4>1. q \in torn \/ q \in discarded \ Elems(files)
        BY <3>2 DEF PayloadInv, PlaceInv
      <4>2. CASE q \in torn /\ q \notin torn'
        <5>1. q = f /\ torn' = torn \ {f}
          BY <1>4, <4>2
        <5>2. files' = Without(files, f)
          BY <1>2, <1>4, <4>2, <5>1 DEF DrainRemove
        <5>3. f \notin Elems(files')
          BY <1>1, <5>2, WithoutElems
        <5>4. QED
          BY <1>3, <2>3, <3>2, <5>1, <5>3
      <4>3. QED
        BY <1>3, <1>5, <4>1, <4>2
    <3>4. QED
      BY <1>3, <1>5, <1>8, <3>1, <3>2 DEF PayloadInv, PlaceInv
  <2>5. \A e \in Procs : daemon'[e] = "remove" => Head(todo'[e]) \in discarded' \cup Mem(e)'
    BY <1>1, <1>3, <1>4, <1>7 DEF PayloadInv, PlaceInv
  <2>6. QED
    BY <2>1, <2>2, <2>4, <2>5 DEF PlaceInv
<1>11. KeptInv'
  <2>1. f \in discarded \/ Reached(f)
    BY <1>2 DEF Reached
  <2>2. QED
    BY <1>3, <1>4, <1>5, <1>8, <2>1 DEF PayloadInv, KeptInv
<1>12. OnceInv'
  <2>1. \A e \in Procs : Lost(e)' <=> Lost(e)
    BY <1>1, <1>3 DEF Lost
  <2>2. ASSUME ~overlapped, NEW e \in Procs, NEW q \in Elems(files') \cap Mem(e)'
        PROVE  \/ Lost(e)' \/ (daemon'[e] = "remove" /\ q = Head(todo'[e]))
               \/ q \in left'[e]
    <3>1. q \in Elems(files) \cap Mem(e) /\ (q = f => q \in left'[d])
      BY <1>5, <1>7, <2>2
    <3>2. Lost(e) \/ (daemon[e] = "remove" /\ q = Head(todo[e])) \/ q \in left[e]
      BY <2>2, <3>1 DEF PayloadInv, OnceInv
    <3>3. CASE e = d
      BY <1>2, <1>4, <2>1, <3>1, <3>2, <3>3
    <3>4. CASE e # d
      BY <1>1, <1>4, <2>1, <3>2, <3>4
    <3>5. QED
      BY <3>3, <3>4
  <2>3. ASSUME ~overlapped, NEW e \in Procs, NEW g \in Procs, NEW q \in Mem(e)' \cap Mem(g)', e # g
        PROVE  Lost(e)' \/ Lost(g)' \/ q \in left'[e] \cup left'[g]
    <3>1. q \in Mem(e) \cap Mem(g)
      BY <1>7
    <3>2. Lost(e) \/ Lost(g) \/ q \in left[e] \cup left[g]
      BY <2>3, <3>1 DEF PayloadInv, OnceInv
    <3>3. QED
      BY <1>4, <2>1, <3>2
  <2>4. QED
    BY <1>3, <2>2, <2>3 DEF OnceInv
<1>13. OrderInv'
  <2>1. ASSUME NEW x \in Procs, NEW q \in after[x]
        PROVE  /\ send'[q] = "done" /\ send'[x] # "idle" /\ \A e \in Procs : q \notin inbox'[e]
               /\ {x, q} \subseteq Elems(files') => Precedes(files', q, x)
    BY <1>3, <1>5 DEF OrderInv
  <2>2. ASSUME NEW x \in Procs, NEW q \in after[x], NEW e \in Procs, x \notin early[e]
        PROVE  /\ {x, q} \subseteq Elems(todo'[e]) => Precedes(todo'[e], q, x)
               /\ x \in Mem(e)' => q \notin Elems(todo'[e])
    <3>1. CASE e = d
      BY <1>6, <1>7, <2>2, <3>1 DEF OrderInv
    <3>2. CASE e # d
      <4>1. todo'[e] = todo[e] /\ Mem(e)' = Mem(e)
        BY <1>4, <1>7, <3>2
      <4>2. QED
        BY <2>2, <4>1 DEF OrderInv
    <3>3. QED
      BY <3>1, <3>2
  <2>3. SentOrderIsKept'
    BY <1>3 DEF OrderInv, SentOrderIsKept
  <2>4. QED
    BY <1>3, <2>1, <2>2, <2>3 DEF OrderInv
<1>14. QED
  BY <1>9, <1>10, <1>11, <1>12, <1>13 DEF PayloadInv

\* A send starts: whatever is over by then is in no inbox, and it is nowhere.
LEMMA ConnectOrders ==
  ASSUME TypeInv, PayloadInv, OrderInv, NEW p \in Procs, Connect(p)
  PROVE  OrderInv'
<1>1. /\ send[p] = "idle" /\ send'[p] \in {"connected", "cold"}
      /\ \A q \in Procs : q # p => send'[q] = send[q]
  BY DEF Connect, SendAt, TypeInv, TypeOK
<1>2. /\ UNCHANGED <<todo, files, torn, inbox, memory, early>>
      /\ \A x \in Procs : after'[x] = IF x = p THEN {q \in Procs : Over(q)} ELSE after[x]
  BY DEF Connect, fileVars, dataVars, lossVars, TypeInv, TypeOK
<1>3. p \notin Elems(files) /\ \A d \in Procs : p \notin Elems(todo[d]) /\ p \notin Mem(d)
  BY <1>1 DEF PayloadInv, PlaceInv, Reached
<1>4. ASSUME NEW q \in Procs, Over(q) PROVE send[q] = "done" /\ \A d \in Procs : q \notin inbox[d]
  BY <1>4 DEF Over
<1>5. ASSUME NEW x \in Procs, NEW q \in after'[x]
      PROVE  /\ send'[q] = "done" /\ send'[x] # "idle" /\ \A d \in Procs : q \notin inbox'[d]
             /\ {x, q} \subseteq Elems(files') => Precedes(files', q, x)
             /\ \A d \in Procs : x \notin early[d] =>
                  /\ {x, q} \subseteq Elems(todo'[d]) => Precedes(todo'[d], q, x)
                  /\ x \in Elems(memory'[d]) =>
                       /\ q \notin Elems(todo'[d])
                       /\ q \in Elems(memory'[d]) => Precedes(memory'[d], q, x)
  <2>1. CASE x = p
    <3>1. q \in Procs /\ send[q] = "done" /\ \A d \in Procs : q \notin inbox[d]
      BY <1>2, <1>4, <1>5, <2>1
    <3>2. QED
      BY <1>1, <1>2, <1>3, <2>1, <3>1 DEF Mem
  <2>2. CASE x # p
    <3>1. q \in after[x] /\ q \in Procs
      BY <1>2, <1>5, <2>2 DEF TypeInv, TypeOK
    <3>2. /\ send[q] = "done" /\ send[x] # "idle" /\ \A d \in Procs : q \notin inbox[d]
          /\ {x, q} \subseteq Elems(files) => Precedes(files, q, x)
          /\ \A d \in Procs : x \notin early[d] =>
               /\ {x, q} \subseteq Elems(todo[d]) => Precedes(todo[d], q, x)
               /\ x \in Elems(memory[d]) =>
                    /\ q \notin Elems(todo[d])
                    /\ q \in Elems(memory[d]) => Precedes(memory[d], q, x)
      BY <3>1 DEF OrderInv, SentOrderIsKept, Mem
    <3>3. q # p
      BY <1>1, <3>2
    <3>4. QED
      BY <1>1, <1>2, <2>2, <3>1, <3>2, <3>3
  <2>3. QED
    BY <2>1, <2>2
<1>6. QED
  BY <1>2, <1>5 DEF OrderInv, SentOrderIsKept, Mem

-----------------------------------------------------------------------------
(* The invariant.                                                           *)

\* Every step keeps the payloads where they may be.
LEMMA PayloadNext ==
  ASSUME TypeInv, TypeInv', OwnerInv, PayloadInv, OrderInv, [Next]_vars
  PROVE  PayloadInv' /\ OrderInv'
<1>1. CASE UNCHANGED vars
  <2>1. Quiet /\ UNCHANGED after
    BY <1>1 DEF vars, procVars, fileVars, dataVars, pastVars, lossVars, Quiet, QuietSend,
                QuietDaemon
  <2>2. QED
    BY <2>1, PayloadQuiet, OrderQuiet
<1>2. ASSUME NEW p \in Procs, Connect(p) PROVE PayloadInv' /\ OrderInv'
  BY <1>2, QuietSendSteps, PayloadQuiet, ConnectOrders
<1>3. ASSUME NEW p \in Procs, SendRuns(p) PROVE PayloadInv' /\ OrderInv'
  <2>1. CASE WarmWrite(p) \/ CreateFile(p) \/ WriteFile(p)
    BY <2>1, WarmWriteKeeps, CreateFileKeeps, WriteFileKeeps
  <2>2. CASE \/ WarmWriteFails(p) \/ WarmEnd(p) \/ CreateFileFails(p)
             \/ WriteFileFails(p) \/ Spawn(p) \/ SpawnFails(p)
    <3>1. Quiet
      BY <2>2, QuietSendSteps
    <3>2. UNCHANGED after
      BY <2>2 DEF WarmWriteFails, WarmEnd, CreateFileFails, WriteFileFails, Spawn, SpawnFails,
                  pastVars
    <3>3. QED
      BY <3>1, <3>2, PayloadQuiet, OrderQuiet
  <2>3. QED
    BY <1>3, <2>1, <2>2 DEF SendRuns
<1>4. ASSUME NEW d \in Procs, DaemonRuns(d) \/ Stop(d) \/ Kill(d)
      PROVE  PayloadInv' /\ OrderInv'
  <2>1. CASE Scan(d)
    BY <2>1, ScanKeeps
  <2>2. CASE DrainSkip(d) \/ DrainRead(d)
    BY <2>2, SkipKeeps, TakeKeeps
  <2>3. CASE DrainRemove(d)
    BY <2>3, RemoveKeeps
  <2>4. CASE \/ Probe(d) \/ Unlink(d) \/ Bind(d) \/ BindFails(d) \/ DrainEnd(d) \/ Publish(d)
             \/ PublishFails(d) \/ Unpublish(d) \/ UnlinkSock(d) \/ Exit(d) \/ Stop(d) \/ Kill(d)
    <3>1. Quiet
      BY <2>4, QuietDaemonSteps
    <3>2. UNCHANGED after
      BY <2>4 DEF Probe, Unlink, Bind, BindFails, DrainEnd, Publish, PublishFails, Unpublish,
                  UnlinkSock, Exit, Stop, Kill, pastVars
    <3>3. QED
      BY <3>1, <3>2, PayloadQuiet, OrderQuiet
  <2>5. QED
    BY <1>4, <2>1, <2>2, <2>3, <2>4 DEF DaemonRuns
<1>5. ASSUME NEW d \in Procs, NEW p \in Procs, Handle(d, p) PROVE PayloadInv' /\ OrderInv'
  BY <1>5, HandleKeeps
<1>6. ASSUME NEW d \in Procs, NEW p \in Procs, Reject(d, p) PROVE PayloadInv' /\ OrderInv'
  <2>1. Quiet /\ UNCHANGED after
    BY <1>6, QuietReject DEF Reject
  <2>2. QED
    BY <2>1, PayloadQuiet, OrderQuiet
<1>7. QED
  BY <1>1, <1>2, <1>3, <1>4, <1>5, <1>6 DEF Next

LEMMA DeliveryInit == Init => DeliveryInv
BY TypeInit, OwnerInit, PayloadInit DEF DeliveryInv, PayloadInv

LEMMA DeliveryNext == DeliveryInv /\ [Next]_vars => DeliveryInv'
<1> SUFFICES ASSUME DeliveryInv, [Next]_vars PROVE DeliveryInv'
  OBVIOUS
<1>1. TypeInv /\ OwnerInv /\ PayloadInv /\ OrderInv
  BY DEF DeliveryInv, PayloadInv
<1>2. TypeInv' /\ OwnerInv'
  BY <1>1, TypeNext, OwnerNext
<1>3. PayloadInv' /\ OrderInv'
  BY <1>1, <1>2, PayloadNext
<1>4. QED
  BY <1>2, <1>3 DEF DeliveryInv, PayloadInv

LEMMA DeliveryCorrect == Spec => []DeliveryInv
BY DeliveryInit, DeliveryNext, PTL DEF Spec

\* A daemon that Claude can find, or could, has not died before it published.
LEMMA ServedIsOnce == DeliveryInv => AtMostOnce
<1> SUFFICES ASSUME DeliveryInv, ~overlapped, NEW d \in served, NEW e \in served, d # e,
                    NEW p \in Elems(memory[d]) \cap Elems(memory[e])
             PROVE  p \in left[d] \cup left[e]
  BY DEF AtMostOnce
<1>1. d \in Procs /\ e \in Procs
  BY DEF DeliveryInv, TypeInv, TypeOK
<1>2. QED
  BY <1>1 DEF DeliveryInv, OnceInv, Lost, Mem

\* What a send that said Ok has kept is whole on disk or has reached a daemon,
\* a live one if it is not in its memory yet.
LEMMA KeptIsNotLost == DeliveryInv => OnlyKnownLosses
<1> SUFFICES ASSUME DeliveryInv, NEW p \in Procs, send[p] = "done", p \notin discarded \cup cut
             PROVE  \/ p \in Elems(files) \ torn
                    \/ \E d \in Procs : p \in inbox[d] /\ daemon[d] \in Listening
                    \/ \E d \in Procs : p \in Elems(memory[d])
  BY DEF OnlyKnownLosses
<1>1. p \in Elems(files) \ torn \/ Reached(p)
  BY DEF DeliveryInv, KeptInv
<1>2. \A d \in Procs : p \in inbox[d] => daemon[d] \in Listening
  BY DEF DeliveryInv, ControlInv
<1>3. QED
  BY <1>1, <1>2 DEF Reached, Mem

(* Every variable of the rendezvous keeps to its type, and a daemon holds a *)
(* list of queue files only while it drains the directory (mod.rs:176-244). *)
THEOREM RendezvousTypeCorrect == Spec => []TypeOK
<1>1. DeliveryInv => TypeOK
  BY DEF DeliveryInv, TypeInv
<1>2. QED
  BY <1>1, DeliveryCorrect, PTL

(* Whatever the number of sends, and whichever of them race, fail or fork a *)
(* daemon that dies, the payload of a send that says Ok is whole on disk,   *)
(* in the connection of a live daemon or accepted by one, with two          *)
(* exceptions: a daemon has read its file before it was written             *)
(* (mod.rs:218-224), or its connection ended before the line was handled,   *)
(* because the daemon died or dropped it (send.rs:101-120, ipc.rs:66-86).   *)
THEOREM NothingElseIsLost == Spec => []OnlyKnownLosses
BY DeliveryCorrect, KeptIsNotLost, PTL

(* As long as no two daemons have been between probe and bind at once, a    *)
(* payload is in the memory of two daemons that have published a lockfile   *)
(* only if the first of them failed to remove its file, which the code      *)
(* ignores: otherwise the only reader of a file removes it before it        *)
(* publishes, and one that dies in between was never found (mod.rs:90-92,   *)
(* 222 and 237).                                                            *)
THEOREM NobodyElseGetsItTwice == Spec => []AtMostOnce
BY DeliveryCorrect, ServedIsOnce, PTL

(* Two payloads accepted by one daemon are there in the order in which they *)
(* were sent, whether they came through the queue directory, through its    *)
(* socket or one by each (mod.rs:176-208), with two exceptions: a send that *)
(* gave up on its answer and was still unhandled when the other one started *)
(* may be overtaken (send.rs:91-110, ipc.rs:87-92), and a file whose time   *)
(* could not be read goes first (mod.rs:201-208).                           *)
THEOREM SentOrderIsAlwaysKept == Spec => []SentOrderIsKept
<1>1. DeliveryInv => SentOrderIsKept
  BY DEF DeliveryInv, OrderInv
<1>2. QED
  BY <1>1, DeliveryCorrect, PTL
=============================================================================
