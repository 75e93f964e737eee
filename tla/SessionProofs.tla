--------------------------- MODULE SessionProofs ----------------------------
(* Proofs about module Session, for any daemons, ports and clients.         *)
EXTENDS Session, TLAPS

-----------------------------------------------------------------------------
(* LockfilesAreTrue is not inductive: it does not say whose a temporary     *)
(* file is, that two daemons never listen at one port, or that a lockfile   *)
(* has the port of its daemon.                                              *)

DaemonTypes ==
  /\ lock \in [Ports -> Daemons \cup {None, Torn}]
  /\ tmp \in [Ports -> Daemons \cup {None, Torn}]
  /\ at \in [Daemons -> DaemonStages]
  /\ port \in [Daemons -> Ports \cup {None}]
  /\ killed \cup stuck \subseteq Daemons

PortInv ==
  /\ \A d \in Daemons : Listening(d) => port[d] \in Ports
  /\ \A d, e \in Daemons : Listening(d) /\ Listening(e) /\ port[d] = port[e] => d = e
  /\ \A d \in killed : at[d] = "gone"
  /\ \A d \in stuck : at[d] \in {"leaving", "gone"}

FileInv ==
  /\ \A d \in Daemons : at[d] = "written" => tmp[port[d]] = d
  /\ \A d \in Daemons : at[d] \in {"serving", "cleanup"} => lock[port[d]] = d
  /\ \A p \in Ports : lock[p] # Torn
  /\ \A p \in Ports, d \in Daemons :
       lock[p] = d => port[d] = p /\ (at[d] \in {"serving", "cleanup"} \/ d \in killed \cup stuck)

DaemonInv == DaemonTypes /\ PortInv /\ FileInv

(* A client knows a daemon that has published, and is connected to one that *)
(* listens at the port of that daemon.                                      *)

ClientTypes ==
  /\ stage \in [Clients -> LinkStages]
  /\ token \in [Clients -> Daemons \cup {None}]
  /\ peer \in [Clients -> Daemons \cup {None}]

Published(d) == at[d] \in {"serving", "cleanup", "leaving", "gone"}

ClientInv ==
  /\ ClientTypes
  /\ \A c \in Clients : stage[c] # "idle" => token[c] \in Daemons /\ Published(token[c])
  /\ \A c \in Clients :
       IF stage[c] \in Connected
       THEN peer[c] \in Daemons /\ Listening(peer[c]) /\ port[peer[c]] = port[token[c]]
       ELSE peer[c] = None
  /\ HandshakeIsRight

USE NoneAssumption, TornAssumption

\* Both invariants hold initially.
LEMMA SessionInit == Init => DaemonInv /\ ClientInv
<1> SUFFICES ASSUME Init PROVE DaemonInv /\ ClientInv
  OBVIOUS
<1>1. DaemonInv
  BY DEF Init, DaemonInv, DaemonTypes, PortInv, FileInv, DaemonStages, Starting, Listening
<1>2. ClientInv
  BY DEF Init, ClientInv, ClientTypes, LinkStages, Connected, HandshakeIsRight
<1>3. QED
  BY <1>1, <1>2

\* A step of daemon d that leaves its port and the files alone, and neither enters a
\* stage with an obligation nor forgets the lockfile of a daemon.
LEMMA DaemonMove ==
  ASSUME DaemonInv, NEW d \in Daemons, NEW to \in {"serving", "cleanup", "leaving", "gone"},
         Listening(d),
         at' = [at EXCEPT ![d] = to],
         \/ to = "cleanup" /\ at[d] = "serving" /\ killed' = killed
         \/ to = "gone" /\ at[d] \notin {"serving", "cleanup"} /\ killed' = killed
         \/ to = "gone" /\ killed' = killed \cup {d},
         UNCHANGED <<lock, tmp, port, stuck>>
  PROVE  DaemonInv'
<1>1. \A e \in Daemons : at'[e] = IF e = d THEN to ELSE at[e]
  BY DEF DaemonInv, DaemonTypes
<1>2. DaemonTypes'
  BY DEF DaemonInv, DaemonTypes, DaemonStages
<1>3. PortInv'
  BY <1>1 DEF DaemonInv, PortInv, Listening, Starting
<1>4. FileInv'
  BY <1>1 DEF DaemonInv, FileInv, PortInv
<1>5. QED
  BY <1>2, <1>3, <1>4 DEF DaemonInv

\* A daemon binds a port nobody listens at.
LEMMA DaemonBind ==
  ASSUME DaemonInv, NEW d \in Daemons, Bind(d)
  PROVE  DaemonInv'
<1>1. PICK p \in Ports :
        /\ \A e \in Daemons : Listening(e) => port[e] # p
        /\ port' = [port EXCEPT ![d] = p]
  BY DEF Bind
<1>2. /\ at[d] = "new"
      /\ at' = [at EXCEPT ![d] = "bound"]
      /\ UNCHANGED <<lock, tmp, killed, stuck>>
  BY DEF Bind, Goto, fileVars, pastVars
<1>3. \A e \in Daemons : /\ at'[e] = IF e = d THEN "bound" ELSE at[e]
                         /\ port'[e] = IF e = d THEN p ELSE port[e]
  BY <1>1, <1>2 DEF DaemonInv, DaemonTypes
<1>4. DaemonTypes'
  BY <1>1, <1>2 DEF DaemonInv, DaemonTypes, DaemonStages, Starting
<1>5. PortInv'
  BY <1>1, <1>2, <1>3 DEF DaemonInv, PortInv, Listening, Starting
<1>6. FileInv'
  BY <1>2, <1>3 DEF DaemonInv, FileInv, PortInv
<1>7. QED
  BY <1>4, <1>5, <1>6 DEF DaemonInv

\* The temporary file is the daemon's own, and goes to the lockfile whole.
LEMMA DaemonPublish ==
  ASSUME DaemonInv, NEW d \in Daemons, Start(d)
  PROVE  DaemonInv'
<1> DEFINE to == CASE at[d] = "bound" -> "opened"
                   [] at[d] = "opened" -> "written"
                   [] OTHER -> "serving"
<1>1. /\ at[d] \in Starting
      /\ at' = [at EXCEPT ![d] = to]
      /\ UNCHANGED <<port, killed, stuck>>
  BY DEF Start, OpenTmp, WriteTmp, Rename, Goto, Starting, pastVars
<1>2. Listening(d) /\ port[d] \in Ports
  BY <1>1 DEF DaemonInv, PortInv, Listening
<1>3. \A e \in Daemons : at'[e] = IF e = d THEN to ELSE at[e]
  BY <1>1 DEF DaemonInv, DaemonTypes
<1>4. \A e \in Daemons : Listening(e) /\ port[e] = port[d] => e = d
  BY <1>2 DEF DaemonInv, PortInv
<1>5. to \in {"opened", "written", "serving"}
  OBVIOUS
<1>6. PortInv'
  BY <1>1, <1>2, <1>3, <1>5 DEF DaemonInv, PortInv, Listening, Starting
<1>7. CASE OpenTmp(d) \/ WriteTmp(d)
  <2>1. PICK v \in {d, Torn} :
          /\ tmp' = [tmp EXCEPT ![port[d]] = v]
          /\ lock' = lock
          /\ to = "written" => v = d
          /\ to # "serving"
    BY <1>7 DEF OpenTmp, WriteTmp
  <2>2. DaemonTypes'
    BY <1>1, <1>5, <2>1 DEF DaemonInv, DaemonTypes, DaemonStages, Starting
  <2>3. \A p \in Ports : tmp'[p] = IF p = port[d] THEN v ELSE tmp[p]
    BY <2>1 DEF DaemonInv, DaemonTypes
  <2>4. \A e \in Daemons : at'[e] = "written" => tmp'[port'[e]] = e
    BY <1>1, <1>2, <1>3, <1>4, <2>1, <2>3
       DEF DaemonInv, FileInv, PortInv, Listening, Starting
  <2>5. FileInv'
    BY <1>1, <1>3, <2>1, <2>4 DEF DaemonInv, FileInv, PortInv, Starting
  <2>6. QED
    BY <1>6, <2>2, <2>5 DEF DaemonInv
<1>8. CASE Rename(d)
  <2>1. /\ lock' = [lock EXCEPT ![port[d]] = d]
        /\ tmp' = [tmp EXCEPT ![port[d]] = None]
        /\ to = "serving"
    BY <1>8 DEF Rename, DaemonInv, FileInv
  <2>2. DaemonTypes'
    BY <1>1, <2>1 DEF DaemonInv, DaemonTypes, DaemonStages, Starting
  <2>3. \A p \in Ports : /\ lock'[p] = IF p = port[d] THEN d ELSE lock[p]
                         /\ tmp'[p] = IF p = port[d] THEN None ELSE tmp[p]
    BY <2>1 DEF DaemonInv, DaemonTypes
  <2>4. \A e \in Daemons : at'[e] = "written" => tmp'[port'[e]] = e
    BY <1>1, <1>2, <1>3, <1>4, <2>1, <2>3
       DEF DaemonInv, FileInv, PortInv, Listening, Starting
  <2>5. \A e \in Daemons : at'[e] \in {"serving", "cleanup"} => lock'[port'[e]] = e
    BY <1>1, <1>2, <1>3, <1>4, <2>1, <2>3
       DEF DaemonInv, FileInv, PortInv, Listening, Starting
  <2>6. FileInv'
    BY <1>1, <1>3, <2>1, <2>3, <2>4, <2>5 DEF DaemonInv, FileInv, PortInv
  <2>7. QED
    BY <1>6, <2>2, <2>6 DEF DaemonInv
<1>9. QED
  BY <1>7, <1>8 DEF Start

\* The lockfile a daemon removes is its own, for the port is still its own; if it
\* cannot, it is known for that.
LEMMA DaemonUnpublish ==
  ASSUME DaemonInv, NEW d \in Daemons, Unpublish(d)
  PROVE  DaemonInv'
<1>1. /\ at[d] = "cleanup"
      /\ at' = [at EXCEPT ![d] = "leaving"]
      /\ \/ lock' = [lock EXCEPT ![port[d]] = None] /\ stuck' = stuck
         \/ lock' = lock /\ stuck' = stuck \cup {d}
      /\ UNCHANGED <<tmp, port, killed>>
  BY DEF Unpublish, Goto
<1>2. port[d] \in Ports /\ lock[port[d]] = d
  BY <1>1 DEF DaemonInv, PortInv, FileInv, Listening
<1>3. \A e \in Daemons : at'[e] = IF e = d THEN "leaving" ELSE at[e]
  BY <1>1 DEF DaemonInv, DaemonTypes
<1>4. \A p \in Ports : lock'[p] = lock[p] \/ lock'[p] = None
  BY <1>1 DEF DaemonInv, DaemonTypes
<1>5. \A p \in Ports : p # port[d] => lock'[p] = lock[p]
  BY <1>1 DEF DaemonInv, DaemonTypes
<1>6. lock'[port[d]] = None \/ d \in stuck'
  BY <1>1, <1>2 DEF DaemonInv, DaemonTypes
<1>7. DaemonTypes'
  BY <1>1, <1>2 DEF DaemonInv, DaemonTypes, DaemonStages
<1>8. PortInv'
  BY <1>1, <1>3 DEF DaemonInv, PortInv, Listening
<1>9. \A e \in Daemons : at'[e] \in {"serving", "cleanup"} => lock'[port'[e]] = e
  BY <1>1, <1>2, <1>3, <1>5 DEF DaemonInv, FileInv, PortInv, Listening
<1>10. \A p \in Ports, e \in Daemons :
         lock'[p] = e => port'[e] = p /\ (at'[e] \in {"serving", "cleanup"} \/ e \in (killed \cup stuck)')
  BY <1>1, <1>2, <1>3, <1>4, <1>6 DEF DaemonInv, FileInv
<1>11. FileInv'
  BY <1>1, <1>2, <1>3, <1>4, <1>9, <1>10 DEF DaemonInv, FileInv
<1>12. QED
  BY <1>7, <1>8, <1>11 DEF DaemonInv

-----------------------------------------------------------------------------
\* The end of some connections, after which nothing but their tokens is left.
LEMMA EndLinks ==
  ASSUME ClientInv, NEW S \in SUBSET Clients, NEW how \in {"ended", "refused"},
         End(S, how), token' = token, UNCHANGED <<at, port>>,
         \A c \in S : /\ stage[c] # "idle"
                      /\ how = "refused" => at[token[c]] = "gone"
  PROVE  ClientInv'
<1>1. \A c \in Clients : /\ stage'[c] = IF c \in S THEN how ELSE stage[c]
                         /\ peer'[c] = IF c \in S THEN None ELSE peer[c]
  BY DEF End
<1>2. ClientTypes'
  <2>1. stage' \in [Clients -> LinkStages]
    BY <1>1 DEF End, ClientInv, ClientTypes, LinkStages
  <2>2. peer' \in [Clients -> Daemons \cup {None}]
    BY <1>1 DEF End, ClientInv, ClientTypes
  <2>3. QED
    BY <2>1, <2>2 DEF ClientInv, ClientTypes
<1>3. ~(how \in Connected) /\ how # "attached"
  BY DEF Connected
<1>4. QED
  BY <1>1, <1>2, <1>3 DEF ClientInv, HandshakeIsRight, Published, Listening

\* A step of daemon d, which cuts its connections when it stops listening, and binds
\* a port before anybody knows of it.
LEMMA ClientsOfDaemon ==
  ASSUME DaemonInv, ClientInv, NEW d \in Daemons, NEW to \in DaemonStages,
         at' = [at EXCEPT ![d] = to], token' = token,
         Published(d) => Published(d)',
         at[d] = "gone" => to = "gone",
         \/ UNCHANGED <<stage, peer, port>> /\ (Listening(d) => Listening(d)')
         \/ UNCHANGED port /\ Cut(d)
         \/ UNCHANGED <<stage, peer>> /\ at[d] = "new" /\ to = "bound"
              /\ \A e \in Daemons \ {d} : port'[e] = port[e]
  PROVE  ClientInv'
<1>1. \A e \in Daemons : at'[e] = IF e = d THEN to ELSE at[e]
  BY DEF DaemonInv, DaemonTypes
<1>2. \A e \in Daemons : /\ Published(e) => Published(e)'
                         /\ e # d /\ Listening(e) => Listening(e)'
                         /\ at[e] = "gone" => at'[e] = "gone"
  BY <1>1 DEF Published, Listening
<1>3. CASE UNCHANGED <<stage, peer, port>> /\ (Listening(d) => Listening(d)')
  BY <1>2, <1>3 DEF ClientInv, ClientTypes, HandshakeIsRight
<1>4. CASE UNCHANGED port /\ Cut(d)
  <2>1. \A c \in Clients : /\ stage'[c] = IF peer[c] = d THEN "ended" ELSE stage[c]
                           /\ peer'[c] = IF peer[c] = d THEN None ELSE peer[c]
    BY <1>4 DEF Cut, End
  <2>2. stage' \in [Clients -> LinkStages] /\ peer' \in [Clients -> Daemons \cup {None}]
    BY <1>4, <2>1 DEF Cut, End, ClientInv, ClientTypes, LinkStages
  <2>3. \A c \in Clients : peer[c] = d => stage[c] \in Connected
    BY DEF ClientInv
  <2>4. "ended" \notin Connected /\ "idle" \notin Connected
    BY DEF Connected
  <2>5. ClientTypes'
    BY <2>2 DEF ClientInv, ClientTypes
  <2>6. HandshakeIsRight'
    BY <1>2, <2>1 DEF ClientInv, ClientTypes, HandshakeIsRight
  <2>7. \A c \in Clients : stage'[c] # "idle" => token'[c] \in Daemons /\ Published(token[c])'
    BY <1>2, <2>1, <2>3, <2>4 DEF ClientInv
  <2>8. \A c \in Clients :
          IF stage'[c] \in Connected
          THEN peer'[c] \in Daemons /\ Listening(peer[c])' /\ port'[peer'[c]] = port'[token'[c]]
          ELSE peer'[c] = None
    BY <1>2, <1>4, <2>1, <2>4 DEF ClientInv, Cut
  <2>9. QED
    BY <2>1, <2>5, <2>6, <2>7, <2>8 DEF ClientInv, Published, Listening
<1>5. CASE /\ UNCHANGED <<stage, peer>> /\ at[d] = "new" /\ to = "bound"
           /\ \A e \in Daemons \ {d} : port'[e] = port[e]
  <2>1. ~Listening(d) /\ ~Published(d)
    BY <1>5 DEF Listening, Published, Starting
  <2>2. QED
    BY <1>2, <1>5, <2>1 DEF ClientInv, ClientTypes, HandshakeIsRight, Connected
<1>6. QED
  BY <1>3, <1>4, <1>5

\* The daemons' steps, for both invariants.
LEMMA SessionDaemon ==
  ASSUME DaemonInv, ClientInv, NEW d \in Daemons,
         Bind(d) \/ Bail(d) \/ Start(d) \/ Stop(d) \/ Quit(d) \/ Kill(d)
  PROVE  DaemonInv' /\ ClientInv'
<1>1. CASE Bind(d)
  <2>1. /\ at[d] = "new"
        /\ at' = [at EXCEPT ![d] = "bound"]
        /\ UNCHANGED <<stage, peer, token>>
        /\ \A e \in Daemons \ {d} : port'[e] = port[e]
    BY <1>1 DEF Bind, Goto, linkVars, DaemonInv, DaemonTypes
  <2>2. "bound" \in DaemonStages /\ ~Published(d) /\ at[d] # "gone"
    BY <2>1 DEF DaemonStages, Starting, Published
  <2>3. QED
    BY <1>1, <2>1, <2>2, DaemonBind, ClientsOfDaemon
<1>2. CASE Start(d)
  <2> DEFINE to == CASE at[d] = "bound" -> "opened"
                     [] at[d] = "opened" -> "written"
                     [] OTHER -> "serving"
  <2>1. /\ at[d] \in Starting
        /\ at' = [at EXCEPT ![d] = to]
        /\ UNCHANGED <<stage, peer, token, port>>
    BY <1>2 DEF Start, OpenTmp, WriteTmp, Rename, Goto, Starting, linkVars
  <2>2. /\ to \in DaemonStages /\ to \in Starting \cup {"serving"}
        /\ ~Published(d) /\ at[d] # "gone"
    BY <2>1 DEF DaemonStages, Starting, Published
  <2>3. Listening(d)'
    BY <2>1, <2>2 DEF Listening, DaemonInv, DaemonTypes
  <2>4. QED
    BY <1>2, <2>1, <2>2, <2>3, DaemonPublish, ClientsOfDaemon
<1>3. CASE Stop(d) \/ Unpublish(d)
  <2> DEFINE to == IF at[d] = "serving" THEN "cleanup" ELSE "leaving"
  <2>1. /\ at[d] \in {"serving", "cleanup"}
        /\ at' = [at EXCEPT ![d] = to]
        /\ UNCHANGED <<stage, peer, token, port>>
    BY <1>3 DEF Stop, Unpublish, Goto, linkVars
  <2>2. to \in DaemonStages /\ at[d] # "gone" /\ Listening(d)
    BY <2>1 DEF DaemonStages, Listening
  <2>3. Listening(d)' /\ Published(d)'
    BY <2>1 DEF Listening, Published, DaemonInv, DaemonTypes
  <2>4. ClientInv'
    BY <2>1, <2>2, <2>3, ClientsOfDaemon
  <2>5. CASE Stop(d)
    BY <2>2, <2>4, <2>5, DaemonMove DEF Stop, Goto, fileVars, pastVars
  <2>6. QED
    BY <1>3, <2>4, <2>5, DaemonUnpublish
<1>4. CASE Bail(d) \/ Exit(d) \/ Kill(d)
  <2>1. /\ Listening(d)
        /\ at' = [at EXCEPT ![d] = "gone"]
        /\ Cut(d)
        /\ UNCHANGED <<lock, tmp, port, stuck, token>>
        /\ \/ at[d] \notin {"serving", "cleanup"} /\ killed' = killed
           \/ killed' = killed \cup {d}
    BY <1>4 DEF Bail, Exit, Kill, Goto, fileVars, pastVars, Listening, Starting
  <2>2. "gone" \in DaemonStages /\ Published(d)'
    BY <2>1 DEF DaemonStages, Published, DaemonInv, DaemonTypes
  <2>3. DaemonInv'
    BY <2>1, DaemonMove
  <2>4. ClientInv'
    BY <2>1, <2>2, ClientsOfDaemon
  <2>5. QED
    BY <2>3, <2>4
<1>5. QED
  BY <1>1, <1>2, <1>3, <1>4 DEF Quit

-----------------------------------------------------------------------------
\* A connection that goes on to another stage and knows whom it has to know.
LEMMA MoveLink ==
  ASSUME ClientInv, NEW c \in Clients, NEW to \in LinkStages,
         NEW t \in Daemons, NEW q \in Daemons \cup {None},
         Move(c, to), to \notin {"idle", "refused"}, UNCHANGED <<at, port>>,
         token' \in [Clients -> Daemons \cup {None}],
         peer' \in [Clients -> Daemons \cup {None}],
         \A e \in Clients \ {c} : token'[e] = token[e] /\ peer'[e] = peer[e],
         token'[c] = t, peer'[c] = q, Published(t),
         IF to \in Connected THEN q # None /\ Listening(q) /\ port[q] = port[t] ELSE q = None,
         to = "attached" => q = t
  PROVE  ClientInv'
<1>1. \A e \in Clients : stage'[e] = IF e = c THEN to ELSE stage[e]
  BY DEF Move, ClientInv, ClientTypes
<1>2. ClientTypes'
  BY DEF Move, ClientInv, ClientTypes
<1>3. QED
  BY <1>1, <1>2 DEF ClientInv, HandshakeIsRight, Published, Listening

\* What a lockfile names has been published.
LEMMA ClientReads ==
  ASSUME DaemonInv, ClientInv, NEW c \in Clients, ReadLock(c)
  PROVE  ClientInv'
<1>1. PICK p \in Ports : lock[p] \in Daemons /\ token' = [token EXCEPT ![c] = lock[p]]
  BY DEF ReadLock
<1>2. /\ Move(c, "invited")
      /\ stage[c] = "idle"
      /\ UNCHANGED <<at, port, peer>>
  BY DEF ReadLock, daemonVars
<1>3. Published(lock[p])
  BY <1>1 DEF DaemonInv, FileInv, PortInv, Published
<1>4. /\ token' \in [Clients -> Daemons \cup {None}]
      /\ token'[c] = lock[p]
      /\ \A e \in Clients \ {c} : token'[e] = token[e]
  BY <1>1 DEF ClientInv, ClientTypes
<1>5. "invited" \in LinkStages /\ "invited" \notin Connected /\ "idle" \notin Connected
  BY DEF LinkStages, Connected
<1>6. peer' \in [Clients -> Daemons \cup {None}] /\ peer'[c] = None
  BY <1>2, <1>5 DEF ClientInv, ClientTypes
<1>7. QED
  BY <1>1, <1>2, <1>3, <1>4, <1>5, <1>6, MoveLink

\* Whoever listens at the port, a client is connected to it.
LEMMA ClientConnects ==
  ASSUME DaemonInv, ClientInv, NEW c \in Clients, Connect(c)
  PROVE  ClientInv'
<1> DEFINE there == {d \in Daemons : Listening(d) /\ port[d] = port[token[c]]}
<1>1. stage[c] = "invited" /\ UNCHANGED <<at, port, token>>
  BY DEF Connect, daemonVars
<1>2. CASE there = {}
  <2>1. End({c}, "ended")
    BY <1>2 DEF Connect
  <2>2. QED
    BY <1>1, <2>1, EndLinks
<1>3. CASE there # {}
  <2>1. PICK d \in there : peer' = [peer EXCEPT ![c] = d]
    BY <1>3 DEF Connect
  <2>2. Move(c, "queued")
    BY <1>3 DEF Connect
  <2>3. /\ peer' \in [Clients -> Daemons \cup {None}]
        /\ peer'[c] = d
        /\ \A e \in Clients \ {c} : peer'[e] = peer[e]
    BY <2>1 DEF ClientInv, ClientTypes
  <2>4. token[c] \in Daemons /\ Published(token[c]) /\ token \in [Clients -> Daemons \cup {None}]
    BY <1>1 DEF ClientInv, ClientTypes
  <2>5. "queued" \in LinkStages /\ "queued" \in Connected
    BY DEF LinkStages, Connected
  <2>6. QED
    BY <1>1, <2>1, <2>2, <2>3, <2>4, <2>5, MoveLink
<1>4. QED
  BY <1>2, <1>3

\* A client is turned away only by another daemon at the port of the one it knows.
LEMMA ClientShakes ==
  ASSUME DaemonInv, ClientInv, NEW c \in Clients, Handshake(c)
  PROVE  ClientInv'
<1>1. stage[c] = "shaking" /\ UNCHANGED <<at, port, token>>
  BY DEF Handshake, daemonVars
<1>2. /\ token \in [Clients -> Daemons \cup {None}]
      /\ peer \in [Clients -> Daemons \cup {None}]
      /\ token[c] \in Daemons /\ Published(token[c])
      /\ peer[c] \in Daemons /\ Listening(peer[c]) /\ port[peer[c]] = port[token[c]]
  BY <1>1 DEF ClientInv, ClientTypes, Connected
<1>3. CASE auth_cb(c)
  <2>1. Move(c, "attached") /\ UNCHANGED peer /\ peer[c] = token[c]
    BY <1>3 DEF Handshake, auth_cb
  <2>2. "attached" \in LinkStages /\ "attached" \in Connected
    BY DEF LinkStages, Connected
  <2>3. QED
    BY <1>1, <1>2, <2>1, <2>2, MoveLink
<1>4. CASE ~auth_cb(c)
  <2>1. End({c}, "refused") /\ peer[c] # token[c]
    BY <1>4 DEF Handshake, auth_cb
  <2>2. ~Listening(token[c])
    BY <1>2, <2>1 DEF DaemonInv, PortInv
  <2>3. at[token[c]] = "gone"
    BY <1>2, <2>2 DEF Published, Listening
  <2>4. QED
    BY <1>1, <2>1, <2>3, EndLinks
<1>5. QED
  BY <1>3, <1>4

\* Steps that change neither a daemon nor whom a client is connected to.
LEMMA ClientRests ==
  ASSUME ClientInv, UNCHANGED <<at, port, stage, token, peer>>
  PROVE  ClientInv'
BY DEF ClientInv, ClientTypes, HandshakeIsRight, Published, Listening

\* The clients' steps, and what a daemon does with their connections.
LEMMA SessionClient ==
  ASSUME DaemonInv, ClientInv, NEW c \in Clients,
         \/ ReadLock(c) \/ Connect(c) \/ Ask(c) \/ SendFrame(c) \/ Drop(c) \/ Served(c)
  PROVE  DaemonInv' /\ ClientInv'
<1>1. UNCHANGED daemonVars
  BY DEF ReadLock, Connect, Ask, SendFrame, Drop, Served, Accept, Handshake, ReadFrame
<1>2. DaemonInv'
  BY <1>1 DEF daemonVars, fileVars, pastVars, DaemonInv, DaemonTypes, PortInv, FileInv, Listening
<1>3. UNCHANGED <<at, port>>
  BY <1>1 DEF daemonVars
<1>4. CASE ReadLock(c) \/ Connect(c) \/ Handshake(c)
  BY <1>2, <1>4, ClientReads, ClientConnects, ClientShakes
<1>5. CASE Ask(c) \/ SendFrame(c)
  BY <1>2, <1>3, <1>5, ClientRests DEF Ask, SendFrame
<1>6. CASE Drop(c)
  <2>1. stage[c] # "idle"
    BY <1>6 DEF Drop, ClientInv, Connected
  <2>2. End({c}, "ended") /\ token' = token
    BY <1>6 DEF Drop
  <2>3. QED
    BY <1>2, <1>3, <2>1, <2>2, EndLinks
<1>7. CASE Accept(c)
  <2>1. stage[c] = "queued" /\ Move(c, "shaking") /\ UNCHANGED <<token, peer>>
    BY <1>7 DEF Accept
  <2>2. /\ token \in [Clients -> Daemons \cup {None}]
        /\ peer \in [Clients -> Daemons \cup {None}]
        /\ token[c] \in Daemons /\ Published(token[c])
        /\ peer[c] \in Daemons /\ Listening(peer[c]) /\ port[peer[c]] = port[token[c]]
    BY <2>1 DEF ClientInv, ClientTypes, Connected
  <2>3. "shaking" \in LinkStages /\ "shaking" \in Connected
    BY DEF LinkStages, Connected
  <2>4. ClientInv'
    BY <1>3, <2>1, <2>2, <2>3, MoveLink
  <2>5. QED
    BY <1>2, <2>4
<1>8. CASE ReadFrame(c)
  <2>1. stage[c] = "attached" /\ token' = token
    BY <1>8 DEF ReadFrame
  <2>2. End({c}, "ended") \/ UNCHANGED <<stage, peer>>
    BY <1>8 DEF ReadFrame
  <2>3. QED
    BY <1>2, <1>3, <2>1, <2>2, EndLinks, ClientRests
<1>9. QED
  BY <1>4, <1>5, <1>6, <1>7, <1>8 DEF Served

\* The inductive invariant of the sessions, on which the theorems below rest.
THEOREM SessionInvariant == Spec => [](DaemonInv /\ ClientInv)
<1>1. DaemonInv /\ ClientInv /\ [Next]_vars => (DaemonInv /\ ClientInv)'
  <2>1. DaemonInv /\ ClientInv /\ Next => (DaemonInv /\ ClientInv)'
    BY SessionDaemon, SessionClient DEF Next
  <2>2. DaemonInv /\ ClientInv /\ UNCHANGED vars => (DaemonInv /\ ClientInv)'
    <3>1. DaemonInv /\ UNCHANGED vars => DaemonInv'
      BY DEF vars, daemonVars, fileVars, pastVars, DaemonInv, DaemonTypes, PortInv, FileInv, Listening
    <3>2. ClientInv /\ UNCHANGED vars => ClientInv'
      BY ClientRests DEF vars, daemonVars, linkVars
    <3>3. QED
      BY <3>1, <3>2
  <2>3. QED
    BY <2>1, <2>2
<1>2. QED
  BY <1>1, SessionInit, PTL DEF Spec

\* No lockfile is half written, a serving daemon's is its own, and only daemons that were
\* killed or could not remove theirs leave it behind, however ports are given out and
\* whenever daemons die.
THEOREM LockfilesAreAlwaysTrue == Spec => []LockfilesAreTrue
<1>1. DaemonInv => LockfilesAreTrue
  BY DEF DaemonInv, FileInv, LockfilesAreTrue
<1>2. QED
  BY <1>1, SessionInvariant, PTL

\* No client is attached to a daemon that did not invite it, and none is turned away
\* while that daemon is there.
THEOREM HandshakeIsAlwaysRight == Spec => []HandshakeIsRight
<1>1. ClientInv => HandshakeIsRight
  BY DEF ClientInv
<1>2. QED
  BY <1>1, SessionInvariant, PTL
-----------------------------------------------------------------------------
(* Types: what is on a connection is left to prove.                         *)

TalkTypes ==
  /\ asked \in [Clients -> BOOLEAN]
  /\ inbox \in [Clients -> Seq(Frames)]
  /\ sent \in [Clients -> Seq(Replies)]
  /\ frames \in [Clients -> Seq(Frames)]
  /\ \A c \in Clients : Len(frames[c]) <= MaxFrames

\* A reply carries the id of a request.
LEMMA RepliesTyped == ASSUME NEW f \in Frames PROVE handle(f) \in Seq(Replies)
<1>1. PICK i \in 1 .. MaxFrames : f \in FramesFor(i)
  BY DEF Frames
<1>2. f.kind = "text" /\ f.id # None => f.id = i
  BY <1>1 DEF FramesFor
<1>3. Outcome(f.method) \in {"result", "error"}
  BY DEF Outcome
<1>4. CASE f.kind = "text" /\ f.id # None
  <2>1. [id |-> f.id, outcome |-> Outcome(f.method)] \in Replies
    BY <1>2, <1>3, <1>4 DEF Replies
  <2>2. QED
    BY <1>4, <2>1 DEF handle
<1>5. CASE ~(f.kind = "text" /\ f.id # None)
  BY <1>5 DEF handle
<1>6. QED
  BY <1>4, <1>5

\* Connections that end leave empty queues.
LEMMA TalkEnds ==
  ASSUME TalkTypes, NEW S, NEW how, End(S, how)
  PROVE  TalkTypes'
<1>1. /\ asked' = [c \in Clients |-> IF c \in S THEN FALSE ELSE asked[c]]
      /\ inbox' = [c \in Clients |-> IF c \in S THEN <<>> ELSE inbox[c]]
      /\ sent' = [c \in Clients |-> IF c \in S THEN <<>> ELSE sent[c]]
      /\ frames' = [c \in Clients |-> IF c \in S THEN <<>> ELSE frames[c]]
  BY DEF End
<1>2. asked' \in [Clients -> BOOLEAN]
  BY <1>1, Zenon DEF TalkTypes
<1>3. inbox' \in [Clients -> Seq(Frames)] /\ sent' \in [Clients -> Seq(Replies)]
  BY <1>1 DEF TalkTypes
<1>4. frames' \in [Clients -> Seq(Frames)] /\ \A c \in Clients : Len(frames'[c]) <= MaxFrames
  BY <1>1, BoundAssumption DEF TalkTypes
<1>5. QED
  BY <1>2, <1>3, <1>4 DEF TalkTypes

\* Every step keeps the types of what is on a connection.
LEMMA TalkStep == TalkTypes /\ [Next]_vars => TalkTypes'
<1> SUFFICES ASSUME TalkTypes, [Next]_vars PROVE TalkTypes'
  OBVIOUS
<1>1. ASSUME UNCHANGED <<asked, talkVars>> PROVE TalkTypes'
  BY <1>1 DEF talkVars, TalkTypes
<1>2. ASSUME NEW d \in Daemons,
             Bind(d) \/ Bail(d) \/ Start(d) \/ Stop(d) \/ Quit(d) \/ Kill(d)
      PROVE  TalkTypes'
  <2>1. UNCHANGED linkVars \/ Cut(d)
    BY <1>2 DEF Bind, Bail, Start, OpenTmp, WriteTmp, Rename, Stop, Quit, Unpublish, Exit, Kill
  <2>2. QED
    BY <1>1, <2>1, TalkEnds DEF linkVars, Cut
<1>3. ASSUME NEW c \in Clients, ReadLock(c) \/ Connect(c) \/ Drop(c) \/ Accept(c) \/ Handshake(c)
      PROVE  TalkTypes'
  <2>1. UNCHANGED <<asked, talkVars>> \/ \E how \in {"ended", "refused"} : End({c}, how)
    BY <1>3 DEF ReadLock, Connect, Drop, Accept, Handshake
  <2>2. QED
    BY <1>1, <2>1, TalkEnds
<1>4. ASSUME NEW c \in Clients, Ask(c) PROVE TalkTypes'
  BY <1>4 DEF Ask, talkVars, TalkTypes
<1>5. ASSUME NEW c \in Clients, SendFrame(c) PROVE TalkTypes'
  <2>1. PICK f \in FramesFor(Len(frames[c]) + 1) :
          /\ inbox' = [inbox EXCEPT ![c] = Append(@, f)]
          /\ frames' = [frames EXCEPT ![c] = Append(@, f)]
    BY <1>5 DEF SendFrame
  <2>2. Len(frames[c]) \in Nat /\ Len(frames[c]) < MaxFrames
    BY <1>5 DEF SendFrame, TalkTypes
  <2>3. f \in Frames
    BY <2>1, <2>2, BoundAssumption DEF Frames
  <2>4. Append(inbox[c], f) \in Seq(Frames) /\ Append(frames[c], f) \in Seq(Frames)
    BY <2>3 DEF TalkTypes
  <2>5. Len(Append(frames[c], f)) <= MaxFrames
    BY <2>2, BoundAssumption DEF TalkTypes
  <2>6. QED
    BY <1>5, <2>1, <2>4, <2>5 DEF SendFrame, TalkTypes
<1>6. ASSUME NEW c \in Clients, ReadFrame(c) PROVE TalkTypes'
  <2>1. CASE Head(inbox[c]).kind = "close"
    BY <1>6, <2>1, TalkEnds DEF ReadFrame
  <2>2. CASE Head(inbox[c]).kind # "close"
    <3>1. /\ inbox' = [inbox EXCEPT ![c] = Tail(@)]
          /\ sent' = [sent EXCEPT ![c] = @ \o handle(Head(inbox[c]))]
          /\ UNCHANGED <<asked, frames>>
      BY <1>6, <2>2 DEF ReadFrame
    <3>2. inbox[c] \in Seq(Frames) /\ inbox[c] # <<>>
      BY <1>6 DEF ReadFrame, TalkTypes
    <3>3. Head(inbox[c]) \in Frames /\ Tail(inbox[c]) \in Seq(Frames)
      BY <3>2
    <3>4. sent[c] \o handle(Head(inbox[c])) \in Seq(Replies)
      BY <3>3, RepliesTyped DEF TalkTypes
    <3>5. QED
      BY <3>1, <3>3, <3>4 DEF TalkTypes
  <2>3. QED
    BY <2>1, <2>2
<1>7. QED
  BY <1>1, <1>2, <1>3, <1>4, <1>5, <1>6 DEF Next, Served, vars, linkVars

\* Every variable keeps its type, and a connection its peer.
THEOREM SessionTypeCorrect == Spec => []TypeOK
<1>1. Init => TalkTypes
  BY BoundAssumption DEF Init, TalkTypes
<1>2. DaemonInv /\ ClientInv /\ TalkTypes => TypeOK
  BY DEF DaemonInv, DaemonTypes, ClientInv, ClientTypes, TalkTypes, TypeOK
<1>3. QED
  BY <1>1, <1>2, TalkStep, SessionInvariant, PTL DEF Spec

-----------------------------------------------------------------------------
(* Replies.  What is still to be read is the end of what was sent, and each *)
(* frame knows its place.                                                   *)

Unread(c) ==
  /\ Len(inbox[c]) <= Len(frames[c])
  /\ \A i \in 1 .. Len(frames[c]) : frames[c][i] \in FramesFor(i)
  /\ \A i \in 1 .. Len(inbox[c]) : inbox[c][i] = frames[c][Len(frames[c]) - Len(inbox[c]) + i]

Answered(c) == {sent[c][i].id : i \in 1 .. Len(sent[c])}
Requests(c) == {i \in 1 .. Len(frames[c]) - Len(inbox[c]) : frames[c][i].id # None}
Ascending(c) == \A i, j \in 1 .. Len(sent[c]) : i < j => sent[c][i].id < sent[c][j].id

ReplyInv == \A c \in Clients : Unread(c) /\ Answered(c) = Requests(c) /\ Ascending(c)

\* A connection on which nothing happens, or that ends, keeps the replies right.
LEMMA ReplyRests ==
  ASSUME ReplyInv, NEW c \in Clients,
         \/ inbox'[c] = inbox[c] /\ sent'[c] = sent[c] /\ frames'[c] = frames[c]
         \/ inbox'[c] = <<>> /\ sent'[c] = <<>> /\ frames'[c] = <<>>
  PROVE  (Unread(c) /\ Answered(c) = Requests(c) /\ Ascending(c))'
<1>1. CASE inbox'[c] = inbox[c] /\ sent'[c] = sent[c] /\ frames'[c] = frames[c]
  <2>1. Unread(c)'
    BY <1>1 DEF ReplyInv, Unread
  <2>2. Answered(c)' = Answered(c) /\ Requests(c)' = Requests(c)
    BY <1>1 DEF Answered, Requests
  <2>3. Ascending(c)'
    BY <1>1 DEF ReplyInv, Ascending
  <2>4. QED
    BY <2>1, <2>2, <2>3 DEF ReplyInv
<1>2. CASE inbox'[c] = <<>> /\ sent'[c] = <<>> /\ frames'[c] = <<>>
  BY <1>2 DEF Unread, Answered, Requests, Ascending
<1>3. QED
  BY <1>1, <1>2

LEMMA ReplyEnds ==
  ASSUME ReplyInv, NEW S, NEW how, End(S, how)
  PROVE  ReplyInv'
<1>1. \A c \in Clients :
        \/ inbox'[c] = inbox[c] /\ sent'[c] = sent[c] /\ frames'[c] = frames[c]
        \/ inbox'[c] = <<>> /\ sent'[c] = <<>> /\ frames'[c] = <<>>
  BY DEF End
<1>2. QED
  BY <1>1, ReplyRests DEF ReplyInv

\* A frame that arrives is the last, and not read yet.
LEMMA ReplyArrives ==
  ASSUME TalkTypes, ReplyInv, NEW c \in Clients, SendFrame(c)
  PROVE  ReplyInv'
<1>1. PICK f \in FramesFor(Len(frames[c]) + 1) :
        /\ inbox' = [inbox EXCEPT ![c] = Append(@, f)]
        /\ frames' = [frames EXCEPT ![c] = Append(@, f)]
        /\ sent' = sent
  BY DEF SendFrame
<1>2. \A e \in Clients \ {c} :
        inbox'[e] = inbox[e] /\ sent'[e] = sent[e] /\ frames'[e] = frames[e]
  BY <1>1 DEF TalkTypes
<1>3. PICK m, n \in Nat : m = Len(frames[c]) /\ n = Len(inbox[c])
  BY DEF TalkTypes
<1>4. /\ Len(frames'[c]) = m + 1 /\ frames'[c][m + 1] = f
      /\ \A i \in 1 .. m : frames'[c][i] = frames[c][i]
      /\ Len(inbox'[c]) = n + 1 /\ inbox'[c][n + 1] = f
      /\ \A i \in 1 .. n : inbox'[c][i] = inbox[c][i]
  BY <1>1, <1>3 DEF TalkTypes
<1>5. n <= m
  BY <1>3 DEF ReplyInv, Unread
<1>6. Unread(c)'
  <2>1. \A i \in 1 .. m + 1 : frames'[c][i] \in FramesFor(i)
    <3>1. \A i \in 1 .. m : frames'[c][i] \in FramesFor(i)
      BY <1>3, <1>4 DEF ReplyInv, Unread
    <3>2. frames'[c][m + 1] \in FramesFor(m + 1)
      BY <1>1, <1>3, <1>4
    <3>3. QED
      BY <3>1, <3>2
  <2>2. \A i \in 1 .. n + 1 : inbox'[c][i] = frames'[c][(m + 1) - (n + 1) + i]
    <3>1. ASSUME NEW i \in 1 .. n PROVE inbox'[c][i] = frames'[c][(m + 1) - (n + 1) + i]
      <4>1. (m + 1) - (n + 1) + i = m - n + i /\ m - n + i \in 1 .. m
        BY <1>5
      <4>2. QED
        BY <1>3, <1>4, <4>1 DEF ReplyInv, Unread
    <3>2. (m + 1) - (n + 1) + (n + 1) = m + 1
      OBVIOUS
    <3>3. QED
      BY <1>4, <3>1, <3>2
  <2>3. QED
    BY <1>4, <1>5, <2>1, <2>2 DEF Unread
<1>7. (Answered(c) = Requests(c) /\ Ascending(c))'
  <2>1. (m + 1) - (n + 1) = m - n /\ \A i \in 1 .. m - n : i \in 1 .. m
    BY <1>5
  <2>2. Requests(c)' = Requests(c)
    BY <1>3, <1>4, <2>1 DEF Requests
  <2>3. QED
    BY <1>1, <2>2 DEF ReplyInv, Answered, Ascending
<1>8. QED
  BY <1>2, <1>6, <1>7, ReplyRests DEF ReplyInv

\* The frame that is read is the next one, and its reply, if it calls for one, is the
\* youngest.
LEMMA ReplyGoes ==
  ASSUME TalkTypes, ReplyInv, NEW c \in Clients, ReadFrame(c), Head(inbox[c]).kind # "close"
  PROVE  ReplyInv'
<1>1. /\ inbox[c] # <<>>
      /\ inbox' = [inbox EXCEPT ![c] = Tail(@)]
      /\ sent' = [sent EXCEPT ![c] = @ \o handle(Head(inbox[c]))]
      /\ frames' = frames
  BY DEF ReadFrame
<1>2. \A e \in Clients \ {c} :
        inbox'[e] = inbox[e] /\ sent'[e] = sent[e] /\ frames'[e] = frames[e]
  BY <1>1 DEF TalkTypes
<1>3. PICK m, n, k \in Nat : m = Len(frames[c]) /\ n = Len(inbox[c]) /\ k = Len(sent[c])
  BY DEF TalkTypes
<1>4. n <= m /\ n > 0
  BY <1>1, <1>3 DEF ReplyInv, Unread, TalkTypes
<1>5. PICK r \in 1 .. m : r = m - n + 1
  BY <1>4
<1>6. PICK f : f = Head(inbox[c])
  OBVIOUS
<1>7. f = frames[c][r] /\ f \in FramesFor(r)
  <2>1. f = inbox[c][1] /\ 1 \in 1 .. n
    BY <1>1, <1>3, <1>4, <1>6 DEF TalkTypes
  <2>2. f = frames[c][r]
    BY <1>3, <1>5, <2>1 DEF ReplyInv, Unread
  <2>3. QED
    BY <1>3, <2>2 DEF ReplyInv, Unread
<1>8. /\ Len(inbox'[c]) = n - 1
      /\ \A i \in 1 .. n - 1 : inbox'[c][i] = inbox[c][i + 1]
  BY <1>1, <1>3 DEF TalkTypes
<1>9. Unread(c)'
  <2>1. ASSUME NEW i \in 1 .. n - 1 PROVE inbox'[c][i] = frames[c][m - (n - 1) + i]
    <3>1. i \in Nat /\ i + 1 \in 1 .. n /\ m - (n - 1) + i = m - n + (i + 1)
      OBVIOUS
    <3>2. QED
      BY <1>3, <1>8, <3>1 DEF ReplyInv, Unread
  <2>2. \A i \in 1 .. m : frames[c][i] \in FramesFor(i)
    BY <1>3 DEF ReplyInv, Unread
  <2>3. QED
    <3>1. Len(frames'[c]) = m /\ Len(inbox'[c]) = n - 1 /\ frames'[c] = frames[c] /\ n - 1 <= m
      BY <1>1, <1>3, <1>4, <1>8
    <3>2. QED
      BY <2>1, <2>2, <3>1 DEF Unread
<1>10. Requests(c)' = IF f.id # None THEN Requests(c) \cup {r} ELSE Requests(c)
  <2>1. m - (n - 1) = r /\ 1 .. r = 1 .. m - n \cup {r}
    BY <1>4, <1>5
  <2>2. Requests(c)' = {i \in 1 .. r : frames[c][i].id # None}
    BY <1>1, <1>3, <1>8, <2>1 DEF Requests
  <2>3. QED
    BY <1>3, <1>7, <2>1, <2>2 DEF Requests
<1>11. \A i \in 1 .. k : sent[c][i].id \in 1 .. m - n
  BY <1>3 DEF ReplyInv, Answered, Requests
<1>12. CASE f.id = None
  <2>1. sent' = sent
    BY <1>1, <1>6, <1>12 DEF handle, TalkTypes
  <2>2. QED
    BY <1>2, <1>9, <1>10, <1>12, <2>1, ReplyRests DEF ReplyInv, Answered, Ascending
<1>13. CASE f.id # None
  <2>1. f.id = r /\ f.kind = "text"
    BY <1>7, <1>13 DEF FramesFor
  <2>2. PICK a : a = [id |-> r, outcome |-> Outcome(f.method)]
    OBVIOUS
  <2>3. sent'[c] = sent[c] \o <<a>> /\ a.id = r
    BY <1>1, <1>6, <1>13, <2>1, <2>2 DEF handle, TalkTypes
  <2>4. /\ Len(sent'[c]) = k + 1 /\ sent'[c][k + 1] = a
        /\ \A i \in 1 .. k : sent'[c][i] = sent[c][i]
    BY <1>3, <2>3 DEF TalkTypes
  <2>5. Answered(c)' = Answered(c) \cup {r}
    BY <1>3, <2>3, <2>4 DEF Answered
  <2>6. Ascending(c)'
    <3>1. ASSUME NEW i \in 1 .. k + 1, NEW j \in 1 .. k + 1, i < j
          PROVE  sent'[c][i].id < sent'[c][j].id
      <4>1. i \in 1 .. k /\ sent'[c][i] = sent[c][i] /\ sent[c][i].id \in 1 .. m - n
        BY <1>11, <2>4, <3>1
      <4>2. CASE j = k + 1
        <5>1. sent'[c][j].id = r
          BY <2>3, <2>4, <4>2
        <5>2. sent[c][i].id < r
          BY <1>5, <4>1
        <5>3. QED
          BY <4>1, <5>1, <5>2
      <4>3. CASE j # k + 1
        <5>1. j \in 1 .. k
          BY <4>3
        <5>2. QED
          BY <1>3, <2>4, <3>1, <4>1, <5>1 DEF ReplyInv, Ascending
      <4>4. QED
        BY <4>2, <4>3
    <3>2. QED
      BY <2>4, <3>1 DEF Ascending
  <2>7. QED
    BY <1>2, <1>9, <1>10, <1>13, <2>5, <2>6, ReplyRests DEF ReplyInv
<1>14. QED
  BY <1>12, <1>13

\* Every step keeps the replies right.
LEMMA ReplyStep == TalkTypes /\ ReplyInv /\ [Next]_vars => ReplyInv'
<1> SUFFICES ASSUME TalkTypes, ReplyInv, [Next]_vars PROVE ReplyInv'
  OBVIOUS
<1>1. ASSUME UNCHANGED talkVars PROVE ReplyInv'
  BY <1>1, ReplyRests DEF talkVars, ReplyInv
<1>2. ASSUME NEW d \in Daemons,
             Bind(d) \/ Bail(d) \/ Start(d) \/ Stop(d) \/ Quit(d) \/ Kill(d)
      PROVE  ReplyInv'
  <2>1. UNCHANGED linkVars \/ Cut(d)
    BY <1>2 DEF Bind, Bail, Start, OpenTmp, WriteTmp, Rename, Stop, Quit, Unpublish, Exit, Kill
  <2>2. QED
    BY <1>1, <2>1, ReplyEnds DEF linkVars, Cut
<1>3. ASSUME NEW c \in Clients,
             ReadLock(c) \/ Connect(c) \/ Ask(c) \/ Drop(c) \/ Accept(c) \/ Handshake(c)
      PROVE  ReplyInv'
  <2>1. UNCHANGED talkVars \/ \E how \in {"ended", "refused"} : End({c}, how)
    BY <1>3 DEF ReadLock, Connect, Ask, Drop, Accept, Handshake
  <2>2. QED
    BY <1>1, <2>1, ReplyEnds
<1>4. ASSUME NEW c \in Clients, ReadFrame(c) PROVE ReplyInv'
  <2>1. Head(inbox[c]).kind = "close" => End({c}, "ended")
    BY <1>4 DEF ReadFrame
  <2>2. QED
    BY <1>4, <2>1, ReplyEnds, ReplyGoes
<1>5. QED
  BY <1>1, <1>2, <1>3, <1>4, ReplyArrives DEF Next, Served, vars, linkVars

\* Whatever a client sends and whenever its connection ends, each request the daemon
\* has read is answered once, in order and with its id, and nothing else is.
THEOREM RepliesAreInOrder == Spec => []RepliesInOrder
<1>1. Init => TalkTypes /\ ReplyInv
  BY BoundAssumption DEF Init, TalkTypes, ReplyInv, Unread, Answered, Requests, Ascending
<1>2. ReplyInv => RepliesInOrder
  BY DEF ReplyInv, RepliesInOrder, Answered, Requests, Ascending
<1>3. QED
  BY <1>1, <1>2, TalkStep, ReplyStep, PTL DEF Spec
=============================================================================
