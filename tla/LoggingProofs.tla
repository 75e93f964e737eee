--------------------------- MODULE LoggingProofs ----------------------------
(* Proofs about module Logging, for any processes, any maximum length and   *)
(* any number of records.                                                   *)
EXTENDS Logging, TLAPS, FiniteSetTheorems

USE BoundAssumption DEF None

-----------------------------------------------------------------------------
\* A writer belongs to one process.
LEMMA OneProcess ==
  /\ \A w \in Writers : Process(w) \in Processes /\ w \in Process(w)
  /\ \A p \in Processes : \A w \in p : w \in Writers /\ Process(w) = p
<1>1. ASSUME NEW w \in Writers PROVE Process(w) \in Processes /\ w \in Process(w)
  <2>1. \E p \in Processes : w \in p
    BY DEF Writers
  <2>2. QED
    BY <2>1 DEF Process
<1>2. ASSUME NEW p \in Processes, NEW w \in p PROVE w \in Writers /\ Process(w) = p
  <2>1. w \in Writers
    BY DEF Writers
  <2>2. QED
    BY <1>1, <2>1, ProcessAssumption
<1>3. QED
  BY <1>1, <1>2

-----------------------------------------------------------------------------
(* Types.  The parts of TypeOK about the names, the writers and the rest.   *)

DirTypes ==
  /\ dir \in [Names -> 0 .. Len(data)]
  /\ \A m, n \in Names : dir[m] = dir[n] => m = n \/ dir[m] = None

WriterTypes ==
  /\ at \in [Writers -> Stages]
  /\ fd \in [Writers -> 0 .. Len(data)]
  /\ \A w \in Writers : fd[w] # None <=> at[w] \in {"write", "finish"}
  /\ \A p \in Processes : \A v, w \in p : {at[v], at[w]} \cap {"idle", "dead"} = {} => v = w

DataTypes ==
  /\ data \in Seq(Seq(Pieces))
  /\ begun \in 0 .. MaxRecords
  /\ wrote \in [Processes -> Nat]
  /\ broken \subseteq Pieces
  /\ marks \subseteq {"raced", "cut"} \cup Names

LEMMA TypeParts == TypeOK <=> DirTypes /\ WriterTypes /\ DataTypes
BY DEF TypeOK, DirTypes, WriterTypes, DataTypes

\* The types hold initially.
LEMMA TypeInit == Init => DirTypes /\ WriterTypes /\ DataTypes
<1> SUFFICES ASSUME Init PROVE DirTypes /\ WriterTypes /\ DataTypes
  OBVIOUS
<1>1. DirTypes
  BY DEF Init, DirTypes
<1>2. WriterTypes
  <2>1. at \in [Writers -> Stages] /\ fd \in [Writers -> 0 .. Len(data)]
    BY DEF Init, Stages
  <2>2. \A w \in Writers : at[w] = "idle" /\ fd[w] = None
    BY DEF Init
  <2>3. QED
    BY <2>1, <2>2, OneProcess DEF WriterTypes
<1>3. DataTypes
  BY DEF Init, DataTypes
<1>4. QED
  BY <1>1, <1>2, <1>3

\* A writer that has the mutex of its process, or takes it when it is free, may move on
\* to any stage of log() that needs no file.
LEMMA MoveWithoutFile ==
  ASSUME WriterTypes, NEW w \in Writers, NEW to \in Stages \ {"write", "finish"},
         at[w] \notin {"write", "finish"},
         at[w] \notin {"idle", "dead"} \/ Unlocked(w) \/ to = "idle",
         Goto(w, to), UNCHANGED <<data, fd>>
  PROVE  WriterTypes'
<1>1. \A v \in Writers : at'[v] = IF v = w THEN to ELSE at[v]
  BY DEF WriterTypes, Goto
<1>2. at' \in [Writers -> Stages] /\ fd' \in [Writers -> 0 .. Len(data')]
  BY DEF WriterTypes, Goto
<1>3. \A v \in Writers : fd'[v] # None <=> at'[v] \in {"write", "finish"}
  BY <1>1 DEF WriterTypes
<1>4. ASSUME NEW p \in Processes, NEW u \in p, NEW v \in p,
             {at'[u], at'[v]} \cap {"idle", "dead"} = {}
      PROVE  u = v
  <2>1. u \in Writers /\ v \in Writers /\ Process(u) = p /\ Process(v) = p
    BY OneProcess
  <2>2. at'[u] \notin {"idle", "dead"} /\ at'[v] \notin {"idle", "dead"}
    BY <1>4
  <2>3. CASE u # w /\ v # w
    BY <1>1, <2>1, <2>2, <2>3 DEF WriterTypes
  <2>4. CASE u = w \/ v = w
    <3>1. Process(w) = p /\ to # "idle"
      BY <1>1, <2>1, <2>2, <2>4
    <3>2. CASE Unlocked(w)
      BY <1>1, <2>1, <2>2, <3>1, <3>2 DEF Unlocked
    <3>3. CASE at[w] \notin {"idle", "dead"}
      BY <1>1, <2>1, <2>2, <3>1, <3>3 DEF WriterTypes
    <3>4. QED
      BY <3>1, <3>2, <3>3
  <2>5. QED
    BY <2>3, <2>4
<1>5. QED
  BY <1>2, <1>3, <1>4 DEF WriterTypes

\* Moving a name to another, or removing one, leaves each file at most one name.
LEMMA NamesMove ==
  ASSUME DirTypes, NEW from \in Names, NEW to \in Names,
         \/ dir' = Renamed(from, to)
         \/ dir' = [dir EXCEPT ![to] = None]
         \/ dir' = dir,
         UNCHANGED data
  PROVE  DirTypes'
<1>1. dir' \in [Names -> 0 .. Len(data')]
  BY DEF DirTypes, Renamed
<1>2. CASE dir' = Renamed(from, to) /\ dir[from] # None
  <2>1. \A n \in Names :
          dir'[n] = IF n = from THEN None ELSE IF n = to THEN dir[from] ELSE dir[n]
    BY <1>2 DEF DirTypes, Renamed
  <2>2. QED
    BY <1>1, <2>1 DEF DirTypes
<1>3. CASE dir' = Renamed(from, to) /\ dir[from] = None
  BY <1>1, <1>3 DEF DirTypes, Renamed
<1>4. CASE dir' = [dir EXCEPT ![to] = None]
  BY <1>1, <1>4 DEF DirTypes
<1>5. CASE dir' = dir
  BY <1>1, <1>5 DEF DirTypes
<1>6. QED
  BY <1>2, <1>3, <1>4, <1>5

\* The files never shrink and are never fewer, so that what names and writers refer to
\* stays there.
LEMMA TypeNext ==
  ASSUME DirTypes, WriterTypes, DataTypes, [Next]_vars
  PROVE  DirTypes' /\ WriterTypes' /\ DataTypes'
<1>1. ASSUME NEW w \in Writers, Stat(w)
      PROVE  DirTypes' /\ WriterTypes' /\ DataTypes'
  <2>1. DirTypes'
    BY <1>1 DEF Stat, DirTypes
  <2>2. WriterTypes'
    BY <1>1, MoveWithoutFile DEF Stat, Stages
  <2>3. DataTypes'
    <3>1. marks' \subseteq {"raced", "cut"} \cup Names
      BY <1>1 DEF Stat, DataTypes, Mark, Stays, Names
    <3>2. begun' \in 0 .. MaxRecords
      BY <1>1 DEF Stat, DataTypes
    <3>3. QED
      BY <1>1, <3>1, <3>2 DEF Stat, DataTypes
  <2>4. QED
    BY <2>1, <2>2, <2>3
<1>2. ASSUME NEW w \in Writers, RemoveOldest(w)
      PROVE  DirTypes' /\ WriterTypes' /\ DataTypes'
  <2>1. DirTypes'
    BY <1>2, NamesMove DEF RemoveOldest, Names
  <2>2. WriterTypes'
    BY <1>2, MoveWithoutFile DEF RemoveOldest, Stages
  <2>3. DataTypes'
    BY <1>2 DEF RemoveOldest, DataTypes, Mark, Stays, Names
  <2>4. QED
    BY <2>1, <2>2, <2>3
<1>3. ASSUME NEW w \in Writers, Shift(w)
      PROVE  DirTypes' /\ WriterTypes' /\ DataTypes'
  <2>1. DirTypes'
    BY <1>3, NamesMove DEF Shift, Rename, Names
  <2>2. WriterTypes'
    BY <1>3, MoveWithoutFile DEF Shift, Rename, Stages
  <2>3. DataTypes'
    BY <1>3 DEF Shift, Rename, DataTypes, Mark, Stays, Names
  <2>4. QED
    BY <2>1, <2>2, <2>3
<1>4. ASSUME NEW w \in Writers, Open(w)
      PROVE  DirTypes' /\ WriterTypes' /\ DataTypes'
  <2>1. \A v \in Writers : at'[v] = IF v = w THEN "write" ELSE at[v]
    BY <1>4 DEF Open, Goto, WriterTypes
  <2>2. at' \in [Writers -> Stages]
    BY <1>4 DEF Open, Goto, WriterTypes, Stages
  <2>3. CASE dir["log"] # None
    <3>1. DirTypes' /\ DataTypes'
      BY <1>4, <2>3 DEF Open, DirTypes, DataTypes
    <3>2. fd' \in [Writers -> 0 .. Len(data')] /\ dir["log"] # 0
      BY <1>4, <2>3 DEF Open, DirTypes, WriterTypes, Names
    <3>3. \A v \in Writers : fd'[v] = IF v = w THEN dir["log"] ELSE fd[v]
      BY <1>4, <2>3 DEF Open, WriterTypes
    <3>4. WriterTypes'
      BY <1>4, <2>1, <2>2, <3>2, <3>3, OneProcess DEF WriterTypes, Open
    <3>5. QED
      BY <3>1, <3>4
  <2>4. CASE dir["log"] = None
    <3>1. /\ data' \in Seq(Seq(Pieces))
          /\ Len(data') = Len(data) + 1
          /\ Len(data) \in Nat
      <4>1. <<>> \in Seq(Pieces) /\ data \in Seq(Seq(Pieces)) /\ data' = Append(data, <<>>)
        BY <1>4, <2>4 DEF Open, DataTypes
      <4> HIDE DEF Pieces
      <4>2. QED
        BY <4>1
    <3>2. DataTypes'
      BY <1>4, <3>1 DEF Open, DataTypes
    <3>3. \A n \in Names : dir'[n] = IF n = "log" THEN Len(data) + 1 ELSE dir[n]
      BY <1>4, <2>4 DEF Open, DirTypes
    <3>4. dir' \in [Names -> 0 .. Len(data')]
      BY <1>4, <2>4, <3>1 DEF Open, DirTypes
    <3>5. DirTypes'
      <4>1. \A n \in Names : dir[n] # Len(data) + 1
        BY <3>1 DEF DirTypes
      <4>2. QED
        BY <3>3, <3>4, <4>1 DEF DirTypes
    <3>6. fd' \in [Writers -> 0 .. Len(data')]
      BY <1>4, <2>4, <3>1 DEF Open, WriterTypes
    <3>7. \A v \in Writers : fd'[v] = IF v = w THEN Len(data) + 1 ELSE fd[v]
      BY <1>4, <2>4 DEF Open, WriterTypes
    <3>8. WriterTypes'
      BY <1>4, <2>1, <2>2, <3>1, <3>6, <3>7, OneProcess DEF WriterTypes, Open
    <3>9. QED
      BY <3>2, <3>5, <3>8
  <2>5. QED
    BY <2>3, <2>4
<1>5. ASSUME NEW w \in Writers, OpenFails(w)
      PROVE  DirTypes' /\ WriterTypes' /\ DataTypes'
  BY <1>5, MoveWithoutFile DEF OpenFails, Stages, DirTypes, DataTypes
<1>6. ASSUME NEW w \in Writers, Write(w)
      PROVE  DirTypes' /\ WriterTypes' /\ DataTypes'
  <2> DEFINE piece == [by |-> w, part |-> IF at[w] = "write" THEN 1 ELSE 2,
                       no |-> wrote[Process(w)] + 1]
  <2> DEFINE to == IF at[w] = "write" THEN "finish" ELSE "idle"
  <2>1. piece \in Pieces
    <3>1. wrote[Process(w)] \in Nat
      BY OneProcess DEF DataTypes
    <3>2. QED
      BY <3>1 DEF Pieces
  <2>2. data' = [data EXCEPT ![fd[w]] = Append(@, piece)]
    BY <1>6 DEF Write
  <2>3. wrote' = [wrote EXCEPT ![Process(w)] = @ + 1]
    BY <1>6 DEF Write
  <2>4. fd[w] \in 1 .. Len(data)
    BY <1>6 DEF Write, WriterTypes, DataTypes
  <2> HIDE DEF piece
  <2>5. data' \in Seq(Seq(Pieces)) /\ Len(data') = Len(data)
    BY <2>1, <2>2, <2>4 DEF DataTypes
  <2>6. wrote' \in [Processes -> Nat]
    BY <2>3, OneProcess DEF DataTypes
  <2>7. DataTypes'
    BY <1>6, <2>5, <2>6 DEF Write, DataTypes
  <2>8. DirTypes'
    BY <1>6, <2>5 DEF Write, DirTypes
  <2>9. \A v \in Writers :
          /\ at'[v] = IF v = w THEN to ELSE at[v]
          /\ fd'[v] = IF v = w /\ at[w] = "finish" THEN None ELSE fd[v]
    BY <1>6 DEF Write, Goto, WriterTypes
  <2>10. at' \in [Writers -> Stages] /\ fd' \in [Writers -> 0 .. Len(data')]
    BY <1>6, <2>5 DEF Write, Goto, WriterTypes, Stages, DataTypes
  <2>11. WriterTypes'
    BY <1>6, <2>9, <2>10, OneProcess DEF Write, WriterTypes
  <2>12. QED
    BY <2>7, <2>8, <2>11
<1>7. ASSUME NEW p \in Processes, Kill(p)
      PROVE  DirTypes' /\ WriterTypes' /\ DataTypes'
  <2>1. DirTypes' /\ DataTypes'
    BY <1>7 DEF Kill, DirTypes, DataTypes, Mark
  <2>2. \A v \in Writers :
          /\ at'[v] = IF v \in p THEN "dead" ELSE at[v]
          /\ fd'[v] = IF v \in p THEN None ELSE fd[v]
    BY <1>7 DEF Kill
  <2>3. at' \in [Writers -> Stages] /\ fd' \in [Writers -> 0 .. Len(data')]
    BY <1>7 DEF Kill, WriterTypes, Stages, DataTypes
  <2>4. WriterTypes'
    BY <2>2, <2>3, OneProcess DEF WriterTypes
  <2>5. QED
    BY <2>1, <2>4
<1>8. ASSUME NEW w \in Writers, WriteFails(w)
      PROVE  DirTypes' /\ WriterTypes' /\ DataTypes'
  <2>1. DirTypes'
    BY <1>8 DEF WriteFails, DirTypes
  <2>2. broken' \subseteq Pieces
    <3>1. [by |-> w, part |-> 1, no |-> wrote[Process(w)]] \in Pieces
      BY OneProcess DEF DataTypes, Pieces
    <3>2. QED
      BY <1>8, <3>1 DEF WriteFails, DataTypes
  <2>3. DataTypes'
    BY <1>8, <2>2 DEF WriteFails, DataTypes
  <2>4. \A v \in Writers :
          /\ at'[v] = IF v = w THEN "idle" ELSE at[v]
          /\ fd'[v] = IF v = w THEN None ELSE fd[v]
    BY <1>8 DEF WriteFails, Goto, WriterTypes
  <2>5. at' \in [Writers -> Stages] /\ fd' \in [Writers -> 0 .. Len(data')]
    BY <1>8 DEF WriteFails, Goto, WriterTypes, Stages, DataTypes
  <2>6. WriterTypes'
    BY <2>4, <2>5, OneProcess DEF WriterTypes
  <2>7. QED
    BY <2>1, <2>3, <2>6
<1>9. CASE UNCHANGED vars
  BY <1>9 DEF vars, DirTypes, WriterTypes, DataTypes
<1>10. QED
  BY <1>1, <1>2, <1>3, <1>4, <1>5, <1>6, <1>7, <1>8, <1>9 DEF Next, Log

\* Every variable keeps its type, no file has two names, and no two threads of a
\* process are in log() at once: the mutex of logging.rs:31 holds until the record is
\* written or the process dies.
THEOREM LoggingTypeCorrect == Spec => []TypeOK
<1>1. DirTypes /\ WriterTypes /\ DataTypes /\ [Next]_vars
        => (DirTypes /\ WriterTypes /\ DataTypes)'
  BY TypeNext
<1>2. QED
  BY <1>1, TypeInit, TypeParts, PTL DEF Spec

-----------------------------------------------------------------------------
(* The bound on the files.  SizeBound is not inductive: it does not say why *)
(* no process adds a second record to a file that is already full.  Call a  *)
(* position of a file late if the file was full without it.  A process that *)
(* has found the file short has nothing at a late position, has nothing     *)
(* there until it writes the first piece of its record, and only that until *)
(* it writes the second; then it looks again.  All of that holds until a    *)
(* full log stays in place.                                                 *)

Late(i) == {j \in 1 .. Len(data[i]) : j >= MAX_LOG_BYTES}

OnceLate(i) ==
  \A j, k \in Late(i) :
    /\ data[i][j].part = data[i][k].part
    /\ Process(data[i][j].by) = Process(data[i][k].by)
    => j = k

NoneLate(i, w) == \A j \in Late(i) : Process(data[i][j].by) # Process(w)

HalfLate(i, w) ==
  \A j \in Late(i) : Process(data[i][j].by) = Process(w) => data[i][j].part = 1

SizeInv ==
  /\ \A i \in 1 .. Len(data) : OnceLate(i)
  /\ \A w \in Writers :
       /\ at[w] = "open" /\ dir["log"] # None => NoneLate(dir["log"], w)
       /\ at[w] = "write" => NoneLate(fd[w], w)
       /\ at[w] = "finish" => HalfLate(fd[w], w)

\* What the files of each writer and name are.
LEMMA FilesExist ==
  ASSUME DirTypes, WriterTypes, DataTypes
  PROVE  /\ Len(data) \in Nat
         /\ \A i \in 1 .. Len(data) : data[i] \in Seq(Pieces) /\ Len(data[i]) \in Nat
         /\ dir["log"] # None => dir["log"] \in 1 .. Len(data)
         /\ \A w \in Writers : at[w] \in {"write", "finish"} => fd[w] \in 1 .. Len(data)
<1> HIDE DEF Pieces
<1>1. Len(data) \in Nat /\ \A i \in 1 .. Len(data) : data[i] \in Seq(Pieces)
  BY DEF DataTypes
<1>2. \A i \in 1 .. Len(data) : Len(data[i]) \in Nat
  BY <1>1
<1>3. dir["log"] # None => dir["log"] \in 1 .. Len(data)
  BY <1>1 DEF DirTypes, Names
<1>4. \A w \in Writers : at[w] \in {"write", "finish"} => fd[w] \in 1 .. Len(data)
  BY <1>1 DEF WriterTypes
<1>5. QED
  BY <1>1, <1>2, <1>3, <1>4

\* The piece that a writer adds to its file.
LEMMA WriteAppends ==
  ASSUME DirTypes, WriterTypes, DataTypes, NEW w \in Writers, Write(w)
  PROVE  \E f \in 1 .. Len(data), x \in Pieces :
           /\ f = fd[w] /\ x.by = w /\ x.part = (IF at[w] = "write" THEN 1 ELSE 2)
           /\ x.no = wrote[Process(w)] + 1
           /\ Len(data') = Len(data)
           /\ \A i \in 1 .. Len(data) : i # f => data'[i] = data[i]
           /\ Len(data[f]) \in Nat /\ Len(data'[f]) = Len(data[f]) + 1
           /\ data'[f][Len(data[f]) + 1] = x
           /\ \A j \in 1 .. Len(data[f]) : data'[f][j] = data[f][j]
<1>1. PICK f \in 1 .. Len(data) : f = fd[w]
  BY FilesExist DEF Write
<1>2. wrote[Process(w)] \in Nat
  BY OneProcess DEF DataTypes
<1>3. PICK x \in Pieces : x = [by |-> w, part |-> IF at[w] = "write" THEN 1 ELSE 2,
                               no |-> wrote[Process(w)] + 1]
  <2>1. [by |-> w, part |-> IF at[w] = "write" THEN 1 ELSE 2,
         no |-> wrote[Process(w)] + 1] \in Pieces
    BY <1>2 DEF Pieces
  <2>2. QED
    BY <2>1
<1>4. data' = [data EXCEPT ![f] = Append(@, x)]
  BY <1>1, <1>3 DEF Write
<1>5. data[f] \in Seq(Pieces) /\ Len(data[f]) \in Nat
  BY FilesExist
<1>6. /\ Len(data') = Len(data) /\ data'[f] = Append(data[f], x)
      /\ \A i \in 1 .. Len(data) : i # f => data'[i] = data[i]
  <2> HIDE DEF Pieces
  <2>1. QED
    BY <1>4 DEF DataTypes
<1>7. /\ Len(Append(data[f], x)) = Len(data[f]) + 1 /\ Append(data[f], x)[Len(data[f]) + 1] = x
      /\ \A j \in 1 .. Len(data[f]) : Append(data[f], x)[j] = data[f][j]
  <2> HIDE DEF Pieces
  <2>1. QED
    BY <1>5
<1>8. /\ x.by = w /\ x.part = (IF at[w] = "write" THEN 1 ELSE 2)
      /\ x.no = wrote[Process(w)] + 1
  BY <1>3
<1>9. /\ Len(data'[f]) = Len(data[f]) + 1 /\ data'[f][Len(data[f]) + 1] = x
      /\ \A j \in 1 .. Len(data[f]) : data'[f][j] = data[f][j]
  BY <1>6, <1>7
<1> WITNESS f \in 1 .. Len(data), x \in Pieces
<1>10. QED
  BY <1>1, <1>5, <1>6, <1>8, <1>9, Zenon

\* A step that changes no file and opens none, and after which whoever is about to open
\* the current file was so before or has found it short.
LEMMA SizeKept ==
  ASSUME DirTypes, WriterTypes, DataTypes, SizeInv, UNCHANGED data,
         dir'["log"] \in {dir["log"], None},
         \A w \in Writers :
           /\ at'[w] \in {"write", "finish"} => at'[w] = at[w] /\ fd'[w] = fd[w]
           /\ at'[w] = "open" /\ dir'["log"] # None =>
                at[w] = "open" \/ Len(data[dir["log"]]) < MAX_LOG_BYTES
  PROVE  SizeInv'
<1>1. \A i \in 1 .. Len(data') : OnceLate(i)'
  BY DEF SizeInv, OnceLate, Late
<1>2. ASSUME NEW w \in Writers, at'[w] = "open", dir'["log"] # None
      PROVE  NoneLate(dir["log"], w)' /\ dir'["log"] = dir["log"]
  <2>1. CASE at[w] = "open"
    BY <1>2, <2>1 DEF SizeInv, NoneLate, Late
  <2>2. CASE Len(data[dir["log"]]) < MAX_LOG_BYTES
    <3>1. dir'["log"] = dir["log"] /\ Len(data[dir["log"]]) \in Nat
      BY <1>2, FilesExist
    <3>2. QED
      BY <2>2, <3>1 DEF NoneLate, Late
  <2>3. QED
    BY <1>2, <2>1, <2>2
<1>3. ASSUME NEW w \in Writers
      PROVE  /\ at'[w] = "write" => NoneLate(fd[w], w)'
             /\ at'[w] = "finish" => HalfLate(fd[w], w)'
  BY DEF SizeInv, NoneLate, HalfLate, Late
<1>4. QED
  BY <1>1, <1>2, <1>3 DEF SizeInv, NoneLate, Late

\* Opening the current file takes over what is known of it; a new file is empty.
LEMMA SizeOpen ==
  ASSUME DirTypes, WriterTypes, DataTypes, SizeInv, NEW w \in Writers, Open(w)
  PROVE  SizeInv'
<1>1. \A v \in Writers : at'[v] = IF v = w THEN "write" ELSE at[v]
  BY DEF Open, Goto, WriterTypes
<1>2. CASE dir["log"] # None
  <2>1. UNCHANGED <<dir, data>> /\ at[w] = "open"
    BY <1>2 DEF Open
  <2>2. \A v \in Writers : fd'[v] = IF v = w THEN dir["log"] ELSE fd[v]
    BY <1>2 DEF Open, WriterTypes
  <2>3. QED
    BY <1>1, <1>2, <2>1, <2>2 DEF SizeInv, OnceLate, NoneLate, HalfLate, Late
<1>3. CASE dir["log"] = None
  <2>0. PICK n \in Nat : n = Len(data) + 1
    BY FilesExist
  <2>1. Len(data') = n /\ data'[n] = <<>> /\ \A i \in 1 .. Len(data) : data'[i] = data[i]
    <3>1. data \in Seq(Seq(Pieces)) /\ data' = Append(data, <<>>)
      BY <1>3 DEF Open, DataTypes
    <3> HIDE DEF Pieces
    <3>2. QED
      BY <2>0, <3>1
  <2>2. dir'["log"] = n /\ \A v \in Writers : fd'[v] = IF v = w THEN n ELSE fd[v]
    BY <1>3, <2>0 DEF Open, DirTypes, WriterTypes, Names
  <2>3. OnceLate(n)' /\ \A v \in Writers : NoneLate(n, v)'
    BY <2>1 DEF OnceLate, NoneLate, Late
  <2>4. \A i \in 1 .. Len(data') : OnceLate(i)'
    <3>1. ASSUME NEW i \in 1 .. Len(data) PROVE OnceLate(i)'
      BY <2>1 DEF SizeInv, OnceLate, Late
    <3>2. \A i \in 1 .. Len(data') : i = n \/ i \in 1 .. Len(data)
      BY <2>0, <2>1, FilesExist
    <3>3. QED
      BY <2>3, <3>1, <3>2
  <2>5. ASSUME NEW v \in Writers, at'[v] \in {"write", "finish"}, v # w
        PROVE  /\ at'[v] = at[v] /\ fd'[v] = fd[v] /\ fd[v] \in 1 .. Len(data)
               /\ at[v] = "write" => NoneLate(fd[v], v)'
               /\ at[v] = "finish" => HalfLate(fd[v], v)'
    <3>1. at'[v] = at[v] /\ fd'[v] = fd[v] /\ fd[v] \in 1 .. Len(data)
      BY <1>1, <2>2, <2>5, FilesExist
    <3>2. data'[fd[v]] = data[fd[v]]
      BY <2>1, <3>1
    <3>3. QED
      BY <3>1, <3>2 DEF SizeInv, NoneLate, HalfLate, Late
  <2>6. QED
    BY <1>1, <2>2, <2>3, <2>4, <2>5 DEF SizeInv, NoneLate, HalfLate, Late
<1>4. QED
  BY <1>2, <1>3

\* A piece at a late position is the only one of its process and part there, because
\* its writer had none, or only a first piece, in the late part of the file.
LEMMA SizeWrite ==
  ASSUME DirTypes, WriterTypes, DataTypes, SizeInv, NEW w \in Writers, Write(w)
  PROVE  SizeInv'
<1> DEFINE k == IF at[w] = "write" THEN 1 ELSE 2
<1>1. PICK f \in 1 .. Len(data), x \in Pieces :
        /\ f = fd[w] /\ x.by = w /\ x.part = k
        /\ Len(data') = Len(data)
        /\ \A i \in 1 .. Len(data) : i # f => data'[i] = data[i]
        /\ Len(data[f]) \in Nat /\ Len(data'[f]) = Len(data[f]) + 1
        /\ data'[f][Len(data[f]) + 1] = x
        /\ \A j \in 1 .. Len(data[f]) : data'[f][j] = data[f][j]
  BY WriteAppends
<1> DEFINE n == Len(data[f]) + 1
<1>2. f = fd[w] /\ Len(data') = Len(data) /\ \A i \in 1 .. Len(data) : i # f => data'[i] = data[i]
  BY <1>1
<1>3. /\ Len(data'[f]) = n
      /\ \A j \in 1 .. Len(data[f]) : data'[f][j] = data[f][j]
      /\ data'[f][n].by = w /\ data'[f][n].part = k
  BY <1>1
<1>4. \A j : j \in Late(f)' => j = n \/ (j \in Late(f) /\ data'[f][j] = data[f][j])
  BY <1>1, <1>3 DEF Late
<1>5. \A v \in Writers :
        /\ at'[v] = IF v # w THEN at[v] ELSE IF at[w] = "write" THEN "finish" ELSE "idle"
        /\ at'[v] \in {"write", "finish"} => fd'[v] = fd[v]
  BY DEF Write, Goto, WriterTypes
<1>6. \A i \in 1 .. Len(data) : i # f => (OnceLate(i) => OnceLate(i)')
  BY <1>2 DEF OnceLate, Late
<1>7. OnceLate(f)'
  <2>1. \A j \in Late(f) : Process(data[f][j].by) = Process(w) => data[f][j].part # k
    BY <1>2 DEF SizeInv, NoneLate, HalfLate, Write
  <2>2. OnceLate(f)
    BY <1>1 DEF SizeInv
  <2> HIDE DEF k, n
  <2>3. QED
    BY <1>3, <1>4, <2>1, <2>2 DEF OnceLate
<1>8. ASSUME NEW v \in Writers, v # w, at[v] \in {"open", "write", "finish"},
             NEW i \in 1 .. Len(data)
      PROVE  /\ NoneLate(i, v) => NoneLate(i, v)'
             /\ HalfLate(i, v) => HalfLate(i, v)'
  <2>1. Process(v) # Process(w)
    BY <1>8, OneProcess DEF WriterTypes, Write
  <2>2. CASE i = f
    BY <1>3, <1>4, <2>1, <2>2 DEF NoneLate, HalfLate
  <2>3. CASE i # f
    BY <1>2, <2>3 DEF NoneLate, HalfLate, Late
  <2>4. QED
    BY <2>2, <2>3
<1>9. at[w] = "write" => HalfLate(f, w)'
  BY <1>2, <1>3, <1>4 DEF SizeInv, NoneLate, HalfLate
<1>10. dir'["log"] = dir["log"]
  BY DEF Write
<1>11. \A i \in 1 .. Len(data') : OnceLate(i)'
  BY <1>2, <1>6, <1>7 DEF SizeInv
<1>12. ASSUME NEW v \in Writers
       PROVE  /\ at'[v] = "open" /\ dir'["log"] # None => NoneLate(dir["log"], v)'
              /\ at'[v] = "write" => NoneLate(fd[v], v)'
              /\ at'[v] = "finish" => HalfLate(fd[v], v)'
  <2>1. CASE v = w
    BY <1>2, <1>5, <1>9, <2>1 DEF NoneLate, HalfLate, Late
  <2>2. CASE v # w
    BY <1>5, <1>8, <1>10, <2>2, FilesExist DEF SizeInv
  <2>3. QED
    BY <2>1, <2>2
<1>13. QED
  BY <1>11, <1>12 DEF SizeInv, NoneLate, HalfLate, Late

\* Marks are never taken back.
LEMMA MarksStay == [Next]_vars => marks \subseteq marks'
BY DEF Next, Log, Stat, RemoveOldest, Shift, Rename, Open, OpenFails, Write, WriteFails, Kill,
       Mark, Stays, vars

\* The strengthened invariant of the bound is inductive.
LEMMA SizeNext ==
  ASSUME DirTypes, WriterTypes, DataTypes, SizeInv, [Next]_vars, "log" \notin marks'
  PROVE  SizeInv'
<1>1. ASSUME NEW w \in Writers, Stat(w) PROVE SizeInv'
  <2>1. dir["log"] = None => Sees("log") = <<>> /\ Len(Sees("log")) < MAX_LOG_BYTES
    BY DEF Sees
  <2>2. \A v \in Writers :
          /\ v # w => at'[v] = at[v]
          /\ at'[w] = IF Len(Sees("log")) < MAX_LOG_BYTES THEN "open" ELSE "remove"
    BY <1>1, <2>1 DEF Stat, Goto, WriterTypes, Stays, Mark
  <2>3. dir["log"] # None => Sees("log") = data[dir["log"]]
    BY DEF Sees
  <2>4. QED
    BY <1>1, <2>2, <2>3, SizeKept DEF Stat
<1>2. ASSUME NEW w \in Writers, RemoveOldest(w) PROVE SizeInv'
  <2>1. dir'["log"] = dir["log"]
    BY <1>2 DEF RemoveOldest, DirTypes, Names
  <2>2. \A v \in Writers : at'[v] = IF v = w THEN "shift1" ELSE at[v]
    BY <1>2 DEF RemoveOldest, Goto, WriterTypes
  <2>3. QED
    BY <1>2, <2>1, <2>2, SizeKept DEF RemoveOldest
<1>3. ASSUME NEW w \in Writers, Shift(w) PROVE SizeInv'
  <2>1. CASE Rename(w, "shift1", "p1", "p2", "shift")
    <3>1. dir'["log"] = dir["log"]
      BY <2>1 DEF Rename, Renamed, DirTypes, Names
    <3>2. \A v \in Writers : at'[v] = IF v = w THEN "shift" ELSE at[v]
      BY <2>1 DEF Rename, Goto, WriterTypes
    <3>3. QED
      BY <2>1, <3>1, <3>2, SizeKept DEF Rename
  <2>2. CASE Rename(w, "shift", "log", "p1", "open")
    <3>1. dir'["log"] = None
      BY <2>2 DEF Rename, Renamed, DirTypes, Names, Stays, Mark
    <3>2. \A v \in Writers : at'[v] = IF v = w THEN "open" ELSE at[v]
      BY <2>2 DEF Rename, Goto, WriterTypes
    <3>3. QED
      BY <2>2, <3>1, <3>2, SizeKept DEF Rename
  <2>3. QED
    BY <1>3, <2>1, <2>2 DEF Shift
<1>4. ASSUME NEW w \in Writers, OpenFails(w) PROVE SizeInv'
  <2>1. \A v \in Writers : at'[v] = IF v = w THEN "idle" ELSE at[v]
    BY <1>4 DEF OpenFails, Goto, WriterTypes
  <2>2. QED
    BY <1>4, <2>1, SizeKept DEF OpenFails
<1>5. ASSUME NEW p \in Processes, Kill(p) PROVE SizeInv'
  <2>1. \A v \in Writers :
          /\ at'[v] = IF v \in p THEN "dead" ELSE at[v]
          /\ fd'[v] = IF v \in p THEN None ELSE fd[v]
    BY <1>5 DEF Kill
  <2>2. QED
    BY <1>5, <2>1, SizeKept DEF Kill
<1>6. ASSUME NEW w \in Writers, WriteFails(w) PROVE SizeInv'
  <2>1. \A v \in Writers :
          /\ at'[v] = IF v = w THEN "idle" ELSE at[v]
          /\ v # w => fd'[v] = fd[v]
    BY <1>6 DEF WriteFails, Goto, WriterTypes
  <2>2. QED
    BY <1>6, <2>1, SizeKept DEF WriteFails
<1>7. CASE UNCHANGED vars
  BY <1>7, SizeKept DEF vars
<1>8. QED
  BY <1>1, <1>2, <1>3, <1>4, <1>5, <1>6, <1>7, SizeOpen, SizeWrite DEF Next, Log

\* How many positions there are between two numbers.
LEMMA IntervalSize ==
  ASSUME NEW a \in Nat, NEW b \in Nat
  PROVE  IsFiniteSet(a .. b) /\ Cardinality(a .. b) = IF a > b THEN 0 ELSE b - a + 1
<1>1. a \in Int /\ b \in Int
  OBVIOUS
<1>2. QED
  BY <1>1, FS_Interval

\* Late positions are as many as processes and parts at most, and the others fewer than
\* the maximum.
LEMMA SizeCount ==
  ASSUME DirTypes, WriterTypes, DataTypes, SizeInv
  PROVE  SizeBound
<1> SUFFICES ASSUME NEW i \in 1 .. Len(data),
                    ~ (Len(data[i]) <= MAX_LOG_BYTES - 1 + 2 * Cardinality(Processes))
             PROVE  FALSE
  BY DEF SizeBound
<1> DEFINE S == MAX_LOG_BYTES .. Len(data[i])
<1> DEFINE T == Processes \X (1 .. 2)
<1> DEFINE g == [j \in S |-> <<Process(data[i][j].by), data[i][j].part>>]
<1>1. data[i] \in Seq(Pieces) /\ Len(data[i]) \in Nat
  BY FilesExist
<1>2. Cardinality(Processes) \in Nat
  BY ProcessAssumption, FS_CardinalityType
<1>3. IsFiniteSet(S) /\ Cardinality(S) > 2 * Cardinality(Processes)
  <2>1. /\ IsFiniteSet(S)
        /\ Cardinality(S) =
             IF MAX_LOG_BYTES > Len(data[i]) THEN 0 ELSE Len(data[i]) - MAX_LOG_BYTES + 1
    BY <1>1, IntervalSize
  <2>2. QED
    BY <1>1, <1>2, <2>1
<1>4. IsFiniteSet(T) /\ Cardinality(T) = 2 * Cardinality(Processes)
  <2>1. IsFiniteSet(1 .. 2) /\ Cardinality(1 .. 2) = 2
    <3>1. 1 \in Nat /\ 2 \in Nat /\ ~ (1 > 2) /\ 2 - 1 + 1 = 2
      OBVIOUS
    <3>2. QED
      BY <3>1, IntervalSize, Zenon
  <2>2. IsFiniteSet(T) /\ Cardinality(T) = Cardinality(Processes) * Cardinality(1 .. 2)
    BY <2>1, ProcessAssumption, FS_Product
  <2>3. QED
    BY <1>2, <2>1, <2>2
<1>5. g \in [S -> T]
  <2>1. ASSUME NEW j \in S PROVE data[i][j].by \in Writers /\ data[i][j].part \in 1 .. 2
    <3>1. j \in 1 .. Len(data[i])
      BY <1>1
    <3>2. data[i][j] \in Pieces
      BY <1>1, <3>1
    <3>3. QED
      BY <3>2 DEF Pieces
  <2>2. QED
    BY <2>1, OneProcess
<1>6. \E j, k \in S : j # k /\ g[j] = g[k]
  <2> HIDE DEF S, T, g
  <2>1. Cardinality(T) < Cardinality(S)
    BY <1>2, <1>3, <1>4
  <2>2. QED
    BY <1>3, <1>4, <1>5, <2>1, FS_PigeonHole
<1>7. S \subseteq Late(i)
  BY <1>1 DEF Late
<1>8. OnceLate(i)
  BY DEF SizeInv
<1>9. QED
  BY <1>6, <1>7, <1>8 DEF OnceLate

\* However rotations and records of several processes interleave, and wherever they die,
\* no file of the log grows past the maximum by more than one record of each process,
\* until the metadata or the renaming of a full log fail (logging.rs:34 and 48-65).
THEOREM FilesAreBounded == Spec => []SizeBound
<1> DEFINE Inv == "log" \notin marks => SizeInv
<1>1. Init => Inv
  BY DEF Init, SizeInv
<1>2. DirTypes /\ WriterTypes /\ DataTypes /\ Inv /\ [Next]_vars
        => (DirTypes /\ WriterTypes /\ DataTypes /\ Inv)'
  <2> SUFFICES ASSUME DirTypes, WriterTypes, DataTypes, Inv, [Next]_vars
               PROVE  (DirTypes /\ WriterTypes /\ DataTypes /\ Inv)'
    OBVIOUS
  <2>1. ASSUME "log" \notin marks' PROVE SizeInv'
    BY <2>1, MarksStay, SizeNext
  <2>2. QED
    BY <2>1, TypeNext
<1>3. DirTypes /\ WriterTypes /\ DataTypes /\ Inv => SizeBound
  BY SizeCount DEF SizeBound
<1> HIDE DEF Inv
<1>4. QED
  BY <1>1, <1>2, <1>3, TypeInit, PTL DEF Spec

-----------------------------------------------------------------------------
\* The numbers of a process rise in each file.
NumberInv ==
  \A i \in 1 .. Len(data), p \in Processes :
    /\ \A j \in Places(data[i], p) : data[i][j].no \in 1 .. wrote[p]
    /\ \A j, k \in Places(data[i], p) : j < k => data[i][j].no < data[i][k].no

\* The numbers rise in every file, whatever is done to the names.
LEMMA NumberNext ==
  ASSUME DirTypes, WriterTypes, DataTypes, NumberInv, [Next]_vars
  PROVE  NumberInv'
<1>1. CASE UNCHANGED wrote /\ UNCHANGED data
  BY <1>1 DEF NumberInv, Places
<1>2. CASE UNCHANGED wrote /\ data' = Append(data, <<>>)
  <2>1. PICK n \in Nat : n = Len(data) + 1
    BY FilesExist
  <2>2. data \in Seq(Seq(Pieces))
    BY DEF DataTypes
  <2>3. Len(data') = n /\ data'[n] = <<>> /\ \A i \in 1 .. Len(data) : data'[i] = data[i]
    <3> HIDE DEF Pieces
    <3>1. QED
      BY <1>2, <2>1, <2>2
  <2>4. \A i \in 1 .. n : i = n \/ i \in 1 .. Len(data)
    BY <2>1, FilesExist
  <2>5. \A p \in Processes : Places(<<>>, p) = {}
    BY DEF Places
  <2>6. QED
    BY <1>2, <2>3, <2>4, <2>5 DEF NumberInv, Places
<1>3. ASSUME NEW w \in Writers, Write(w) PROVE NumberInv'
  <2>1. PICK f \in 1 .. Len(data), x \in Pieces :
           /\ f = fd[w] /\ x.by = w
           /\ x.no = wrote[Process(w)] + 1
           /\ Len(data') = Len(data)
           /\ \A i \in 1 .. Len(data) : i # f => data'[i] = data[i]
           /\ Len(data[f]) \in Nat /\ Len(data'[f]) = Len(data[f]) + 1
           /\ data'[f][Len(data[f]) + 1] = x
           /\ \A j \in 1 .. Len(data[f]) : data'[f][j] = data[f][j]
    BY <1>3, WriteAppends
  <2>2. \A p \in Processes : /\ wrote[p] \in Nat /\ wrote'[p] \in Nat
                             /\ wrote[p] <= wrote'[p]
                             /\ w \in p => x.no = wrote'[p] /\ wrote'[p] = wrote[p] + 1
    BY <1>3, <2>1, OneProcess DEF Write, DataTypes
  <2>3. ASSUME NEW i \in 1 .. Len(data), i # f, NEW p \in Processes
        PROVE  /\ \A j \in Places(data'[i], p) : data'[i][j].no \in 1 .. wrote'[p]
               /\ \A j, k \in Places(data'[i], p) : j < k => data'[i][j].no < data'[i][k].no
    BY <2>1, <2>2, <2>3 DEF NumberInv
  <2>4. ASSUME NEW p \in Processes
        PROVE  /\ \A j \in Places(data'[f], p) : data'[f][j].no \in 1 .. wrote'[p]
               /\ \A j, k \in Places(data'[f], p) : j < k => data'[f][j].no < data'[f][k].no
    <3>1. \A j \in Places(data'[f], p) :
            \/ j = Len(data[f]) + 1 /\ w \in p /\ data'[f][j].no = wrote'[p]
            \/ j \in Places(data[f], p) /\ data'[f][j] = data[f][j]
      BY <2>1, <2>2 DEF Places
    <3>2. \A j \in Places(data[f], p) : j \in 1 .. Len(data[f]) /\ data[f][j].no \in 1 .. wrote[p]
      BY DEF Places, NumberInv
    <3>3. ASSUME NEW j \in Places(data'[f], p) PROVE data'[f][j].no \in 1 .. wrote'[p]
      <4>1. CASE w \in p /\ data'[f][j].no = wrote'[p]
        BY <2>2, <4>1
      <4>2. CASE j \in Places(data[f], p) /\ data'[f][j] = data[f][j]
        <5>1. data'[f][j].no \in 1 .. wrote[p]
          BY <3>2, <4>2
        <5>2. QED
          BY <2>2, <5>1
      <4>3. QED
        BY <3>1, <4>1, <4>2
    <3>4. ASSUME NEW j \in Places(data'[f], p), NEW k \in Places(data'[f], p), j < k
          PROVE  data'[f][j].no < data'[f][k].no
      <4>1. CASE k = Len(data[f]) + 1
        <5>1. w \in p /\ data'[f][k].no = wrote[p] + 1
          BY <2>1, <2>2, <3>1, <3>2, <4>1
        <5>2. j \in Places(data[f], p) /\ data'[f][j] = data[f][j]
          <6>1. PICK n \in Nat : n = Len(data[f])
            BY <2>1
          <6>2. j # n + 1
            BY <3>4, <4>1, <6>1
          <6>3. QED
            BY <3>1, <6>1, <6>2
        <5>3. data[f][j].no \in 1 .. wrote[p]
          BY <3>2, <5>2
        <5>4. QED
          BY <2>2, <5>1, <5>2, <5>3
      <4>2. CASE k # Len(data[f]) + 1
        <5>1. k \in Places(data[f], p) /\ data'[f][k] = data[f][k]
          BY <3>1, <4>2
        <5>2. j \in Places(data[f], p) /\ data'[f][j] = data[f][j]
          BY <2>1, <3>1, <3>2, <3>4, <5>1
        <5>3. QED
          BY <3>4, <5>1, <5>2 DEF NumberInv
      <4>3. QED
        BY <4>1, <4>2
    <3>5. QED
      BY <3>3, <3>4
  <2>5. QED
    BY <2>1, <2>3, <2>4 DEF NumberInv
<1>4. QED
  BY <1>1, <1>2, <1>3 DEF Next, Log, Stat, RemoveOldest, Shift, Rename, Open, OpenFails, WriteFails,
                             Kill, vars

-----------------------------------------------------------------------------
(* Records.  LinesWhole does not say whose record may still lack its end:   *)
(* only that of a process whose writer is about to add it, to that file, or *)
(* could not, or that is dead.  Nor does it say that a broken record is not *)
(* ended after all: its first piece was the youngest of its process.        *)

Last(i, p, j) ==
  /\ j \in Places(data[i], p)
  /\ \A k \in Places(data[i], p) : k <= j

Ending(i, p, w) == w \in p /\ at[w] = "finish" /\ fd[w] = i

Dead(p) == \A w \in p : at[w] = "dead"

\* The piece at j is the first of the record that writer w is about to end.
Begun(w, j) ==
  /\ Last(fd[w], Process(w), j)
  /\ data[fd[w]][j] = [by |-> w, part |-> 1, no |-> wrote[Process(w)]]

LineInv ==
  /\ LinesWhole
  /\ \A i \in 1 .. Len(data), p \in Processes : \A j : Last(i, p, j) =>
       \/ data[i][j].part = 2
       \/ data[i][j] \in broken
       \/ Dead(p)
       \/ Ending(i, p, data[i][j].by)
  /\ \A w \in Writers : at[w] = "finish" =>
       /\ \E j : Begun(w, j)
       /\ [by |-> w, part |-> 1, no |-> wrote[Process(w)]] \notin broken
  /\ \A b \in broken : b.no <= wrote[Process(b.by)]

\* A step that changes no file, opens a new one at most, and ends no record.
LEMMA LineKept ==
  ASSUME DirTypes, WriterTypes, DataTypes, LineInv,
         \A i \in 1 .. Len(data') :
           data'[i] = <<>> \/ (i \in 1 .. Len(data) /\ data'[i] = data[i]),
         \A i \in 1 .. Len(data) : i \in 1 .. Len(data') /\ data'[i] = data[i],
         UNCHANGED <<wrote, broken>>,
         \A p \in Processes :
           \/ Dead(p)'
           \/ /\ Dead(p) => Dead(p)'
              /\ \A w \in p : (at'[w] = "finish" <=> at[w] = "finish")
                                /\ (at[w] = "finish" => fd'[w] = fd[w])
  PROVE  LineInv'
<1>1. \A i \in 1 .. Len(data') : \A p, j : j \in Places(data'[i], p) => i \in 1 .. Len(data)
                                   /\ data'[i] = data[i]
  BY DEF Places
<1>2. LinesWhole'
  <2> SUFFICES ASSUME NEW i \in 1 .. Len(data'), NEW p \in Processes
               PROVE  /\ \A k \in Places(data'[i], p) :
                           data'[i][k].part = 1 \/ \E j \in Places(data'[i], p) : j < k
                      /\ \A j, k \in Places(data'[i], p) :
                           j < k /\ (\A l \in Places(data'[i], p) : l <= j \/ k <= l) =>
                             IF data'[i][k].part = 1
                             THEN data'[i][j].part = 2 \/ data'[i][j] \in broken'
                             ELSE /\ data'[i][j].part = 1 /\ data'[i][j] \notin broken'
                                  /\ data'[i][j].by = data'[i][k].by
    BY DEF LinesWhole
  <2>1. CASE i \in 1 .. Len(data) /\ data'[i] = data[i]
    BY <2>1 DEF LineInv, LinesWhole
  <2>2. CASE ~(i \in 1 .. Len(data) /\ data'[i] = data[i])
    BY <1>1, <2>2
  <2>3. QED
    BY <2>1, <2>2
<1>3. ASSUME NEW i \in 1 .. Len(data'), NEW p \in Processes, NEW j, Last(i, p, j)'
      PROVE  \/ data'[i][j].part = 2 \/ data'[i][j] \in broken'
             \/ Dead(p)' \/ Ending(i, p, data[i][j].by)'
  <2>1. i \in 1 .. Len(data) /\ data'[i] = data[i] /\ Last(i, p, j)
    BY <1>1, <1>3 DEF Last
  <2>2. \/ data[i][j].part = 2 \/ data[i][j] \in broken
        \/ Dead(p) \/ Ending(i, p, data[i][j].by)
    BY <2>1 DEF LineInv
  <2>3. QED
    BY <2>1, <2>2 DEF Ending
<1>4. ASSUME NEW w \in Writers, at'[w] = "finish"
      PROVE  /\ \E j : Begun(w, j)'
             /\ [by |-> w, part |-> 1, no |-> wrote'[Process(w)]] \notin broken'
  <2>1. Process(w) \in Processes /\ w \in Process(w)
    BY OneProcess
  <2>2. ~Dead(Process(w))'
    BY <1>4, <2>1 DEF Dead
  <2>3. at[w] = "finish" /\ fd'[w] = fd[w]
    BY <1>4, <2>1, <2>2
  <2>4. PICK j : Begun(w, j)
    BY <2>3 DEF LineInv
  <2>5. fd[w] \in 1 .. Len(data)
    BY <2>3, FilesExist
  <2>6. data'[fd[w]] = data[fd[w]]
    BY <2>5
  <2>7. Begun(w, j)'
    BY <2>3, <2>4, <2>6 DEF Begun, Last
  <2>8. QED
    BY <2>3, <2>7 DEF LineInv
<1>5. QED
  BY <1>2, <1>3, <1>4 DEF LineInv

\* The last piece of a process that is about to begin a record is the end of one or the
\* beginning of a broken one, and of a process about to end one, if it is not in that
\* file.
LEMMA LineReady ==
  ASSUME WriterTypes, LineInv, NEW w \in Writers, at[w] \in {"write", "finish"},
         NEW i \in 1 .. Len(data), NEW j, Last(i, Process(w), j),
         ~(at[w] = "finish" /\ fd[w] = i)
  PROVE  data[i][j].part = 2 \/ data[i][j] \in broken
<1>1. Process(w) \in Processes /\ w \in Process(w)
  BY OneProcess
<1>2. ~Dead(Process(w))
  BY <1>1 DEF Dead
<1>3. ASSUME NEW v, Ending(i, Process(w), v) PROVE FALSE
  <2>1. v = w
    BY <1>1, <1>3 DEF WriterTypes, Ending
  <2>2. QED
    BY <1>3, <2>1 DEF Ending
<1>4. QED
  BY <1>1, <1>2, <1>3 DEF LineInv

\* A piece follows the last of its process in the file: the beginning of the same record
\* if it is an end, and the end of another one or the beginning of a broken one if it is
\* a beginning.
LEMMA LineWrite ==
  ASSUME DirTypes, WriterTypes, DataTypes, LineInv, NEW w \in Writers, Write(w)
  PROVE  LineInv'
<1> DEFINE k == IF at[w] = "write" THEN 1 ELSE 2
<1> DEFINE p == Process(w)
<1>1. PICK f \in 1 .. Len(data), x \in Pieces :
        /\ f = fd[w] /\ x.by = w /\ x.part = k /\ x.no = wrote[p] + 1
        /\ Len(data') = Len(data)
        /\ \A i \in 1 .. Len(data) : i # f => data'[i] = data[i]
        /\ Len(data[f]) \in Nat /\ Len(data'[f]) = Len(data[f]) + 1
        /\ data'[f][Len(data[f]) + 1] = x
        /\ \A j \in 1 .. Len(data[f]) : data'[f][j] = data[f][j]
  BY WriteAppends
<1>2. PICK n \in Nat : n = Len(data[f]) + 1
  BY <1>1
<1>3. /\ p \in Processes /\ w \in p /\ at[w] \in {"write", "finish"}
      /\ \A q \in Processes : q # p => w \notin q
  BY OneProcess, ProcessAssumption DEF Write
<1>4. \A v \in Writers :
        /\ at'[v] = IF v # w THEN at[v] ELSE IF at[w] = "write" THEN "finish" ELSE "idle"
        /\ v # w \/ at[w] = "write" => fd'[v] = fd[v]
  BY DEF Write, Goto, WriterTypes
<1>5. \A v \in p : v # w => at[v] \in {"idle", "dead"}
  BY <1>3 DEF WriterTypes
<1>6. /\ Places(data'[f], p) = Places(data[f], p) \cup {n}
      /\ \A q \in Processes : q # p => Places(data'[f], q) = Places(data[f], q)
      /\ \A q \in Processes : Places(data[f], q) \subseteq 1 .. n - 1
      /\ data'[f][n] = x /\ \A j \in 1 .. n - 1 : data'[f][j] = data[f][j]
  BY <1>1, <1>2, <1>3 DEF Places
<1>7. \A i \in 1 .. Len(data) : \A q \in Processes : i # f \/ q # p =>
        /\ Places(data'[i], q) = Places(data[i], q)
        /\ \A j \in Places(data[i], q) : data'[i][j] = data[i][j]
  BY <1>1, <1>6
<1> DEFINE Fits(a, c, set) ==
             IF c.part = 1 THEN a.part = 2 \/ a \in set
             ELSE a.part = 1 /\ a \notin set /\ a.by = c.by
<1>8. ASSUME NEW j, Last(f, p, j)
      PROVE  Fits(data[f][j], x, broken)
  <2>1. CASE at[w] = "write"
    <3>1. ~(at[w] = "finish" /\ fd[w] = f)
      BY <2>1
    <3>2. data[f][j].part = 2 \/ data[f][j] \in broken
      BY <1>3, <1>8, <3>1, LineReady
    <3>3. QED
      BY <1>1, <2>1, <3>2
  <2>2. CASE at[w] = "finish"
    <3>1. PICK l : Last(f, p, l) /\ data[f][l] = [by |-> w, part |-> 1, no |-> wrote[p]]
      BY <1>1, <2>2 DEF LineInv, Begun
    <3>2. l = j
      BY <1>6, <1>8, <3>1, <1>3 DEF Last
    <3>3. [by |-> w, part |-> 1, no |-> wrote[p]] \notin broken
      BY <2>2 DEF LineInv
    <3>4. x.part = 2 /\ x.by = w
      BY <1>1, <2>2
    <3>5. QED
      BY <3>1, <3>2, <3>3, <3>4
  <2>3. QED
    BY <1>3, <2>1, <2>2
<1>9. at[w] = "finish" => \E j : j \in Places(data[f], p)
  BY <1>1 DEF LineInv, Begun, Last
<1>10. broken' = broken
  BY DEF Write
<1>11. \A q \in Processes : /\ wrote[q] \in Nat /\ wrote'[q] \in Nat
                           /\ wrote'[q] = IF q = p THEN wrote[q] + 1 ELSE wrote[q]
  BY <1>3 DEF Write, DataTypes
<1>12. LinesWhole'
  <2> SUFFICES ASSUME NEW i \in 1 .. Len(data), NEW q \in Processes
               PROVE  /\ \A l \in Places(data'[i], q) :
                           data'[i][l].part = 1 \/ \E j \in Places(data'[i], q) : j < l
                      /\ \A j, l \in Places(data'[i], q) :
                           j < l /\ (\A m \in Places(data'[i], q) : m <= j \/ l <= m) =>
                             Fits(data'[i][j], data'[i][l], broken)
    BY <1>1, <1>10 DEF LinesWhole
  <2>1. /\ \A l \in Places(data[i], q) :
             data[i][l].part = 1 \/ \E j \in Places(data[i], q) : j < l
        /\ \A j, l \in Places(data[i], q) :
             j < l /\ (\A m \in Places(data[i], q) : m <= j \/ l <= m) =>
               Fits(data[i][j], data[i][l], broken)
    BY DEF LineInv, LinesWhole
  <2>2. CASE i # f \/ q # p
    BY <1>7, <2>1, <2>2
  <2>3. CASE i = f /\ q = p
    <3>1. \A l \in Places(data'[f], p) : l = n \/ (l \in Places(data[f], p)
            /\ data'[f][l] = data[f][l] /\ l < n)
      BY <1>3, <1>6
    <3>2. ASSUME NEW l \in Places(data'[f], p)
          PROVE  data'[f][l].part = 1 \/ \E j \in Places(data'[f], p) : j < l
      <4>1. CASE l = n
        BY <1>1, <1>3, <1>6, <1>9, <3>1, <4>1
      <4>2. CASE l # n
        BY <1>6, <2>1, <2>3, <3>1, <4>2
      <4>3. QED
        BY <4>1, <4>2
    <3>3. ASSUME NEW j \in Places(data'[f], p), NEW l \in Places(data'[f], p), j < l,
                 \A m \in Places(data'[f], p) : m <= j \/ l <= m
          PROVE  Fits(data'[f][j], data'[f][l], broken)
      <4>1. j \in Places(data[f], p) /\ data'[f][j] = data[f][j] /\ j < n
        <5>1. l = n \/ l \in 1 .. n - 1
          BY <1>3, <1>6, <3>1
        <5>2. j # n
          BY <1>2, <3>3, <5>1
        <5>3. QED
          BY <3>1, <5>2
      <4>2. CASE l = n
        <5>1. Last(f, p, j)
          <6>1. \A m \in Places(data[f], p) : m \in Places(data'[f], p) /\ ~(n <= m)
            BY <1>3, <1>6
          <6>2. QED
            BY <3>3, <4>1, <4>2, <6>1 DEF Last
        <5>2. QED
          BY <1>1, <1>6, <1>8, <4>1, <4>2, <5>1
      <4>3. CASE l # n
        <5>1. l \in Places(data[f], p) /\ data'[f][l] = data[f][l]
          BY <3>1, <4>3
        <5>2. \A m \in Places(data[f], p) : m <= j \/ l <= m
          BY <1>6, <3>3
        <5>3. QED
          BY <2>1, <2>3, <3>3, <4>1, <5>1, <5>2
      <4>4. QED
        BY <4>2, <4>3
    <3>4. QED
      BY <2>3, <3>2, <3>3
  <2>4. QED
    BY <2>2, <2>3
<1>13. ASSUME NEW i \in 1 .. Len(data), NEW q \in Processes, NEW j, Last(i, q, j)'
       PROVE  \/ data'[i][j].part = 2 \/ data'[i][j] \in broken'
              \/ Dead(q)' \/ Ending(i, q, data[i][j].by)'
  <2>1. CASE q # p
    <3>1. Last(i, q, j) /\ data'[i][j] = data[i][j]
      BY <1>7, <1>13, <2>1 DEF Last
    <3>2. \A v \in q : at'[v] = at[v] /\ fd'[v] = fd[v]
      BY <1>3, <1>4, <2>1, OneProcess
    <3>3. QED
      BY <1>10, <3>1, <3>2 DEF LineInv, Dead, Ending
  <2>2. CASE q = p /\ i # f
    <3>1. Last(i, p, j) /\ data'[i][j] = data[i][j]
      BY <1>7, <1>13, <2>2 DEF Last
    <3>2. QED
      BY <1>1, <1>3, <1>10, <2>2, <3>1, LineReady
  <2>3. CASE q = p /\ i = f
    <3>1. j = n
      BY <1>6, <1>13, <2>3, <1>3 DEF Last
    <3>2. data'[f][j] = x
      BY <1>6, <3>1
    <3>3. CASE at[w] = "finish"
      BY <1>1, <2>3, <3>2, <3>3
    <3>4. CASE at[w] = "write"
      BY <1>1, <1>3, <1>4, <2>3, <3>2, <3>4 DEF Ending
    <3>5. QED
      BY <1>3, <3>3, <3>4
  <2>4. QED
    BY <2>1, <2>2, <2>3
<1>14. ASSUME NEW v \in Writers, at'[v] = "finish"
       PROVE  /\ \E j : Begun(v, j)'
              /\ [by |-> v, part |-> 1, no |-> wrote'[Process(v)]] \notin broken
  <2>1. CASE v = w
    <3>1. at[w] = "write" /\ fd'[w] = f
      BY <1>1, <1>3, <1>4, <1>14, <2>1
    <3>2. Last(fd[w], Process(w), n)'
      BY <1>3, <1>6, <3>1 DEF Last
    <3>3. x = [by |-> w, part |-> 1, no |-> wrote'[p]] /\ x.no = wrote'[p]
      <4>1. PICK a \in Writers, b \in {1, 2}, c \in Nat : x = [by |-> a, part |-> b, no |-> c]
        BY DEF Pieces
      <4>2. x.by = w /\ x.part = 1 /\ x.no = wrote'[p]
        BY <1>1, <1>3, <1>11, <3>1
      <4>3. QED
        BY <4>1, <4>2
    <3>4. x \notin broken
      <4>1. x.by = w /\ x.no = wrote[p] + 1 /\ wrote[p] \in Nat
        BY <1>1, <1>3, <1>11
      <4>2. x \in broken => x.no <= wrote[Process(x.by)]
        BY DEF LineInv
      <4>3. QED
        BY <4>1, <4>2
    <3>5. Begun(w, n)'
      BY <1>6, <3>1, <3>2, <3>3 DEF Begun
    <3>6. QED
      BY <2>1, <3>3, <3>4, <3>5
  <2>2. CASE v # w
    <3>1. at[v] = "finish" /\ fd'[v] = fd[v]
      BY <1>4, <1>14, <2>2
    <3>2. Process(v) # p /\ Process(v) \in Processes
      BY <1>5, <2>2, <3>1, OneProcess
    <3>3. PICK j : Begun(v, j)
      BY <3>1 DEF LineInv
    <3>4. fd[v] \in 1 .. Len(data)
      BY <3>1, FilesExist
    <3>5. data'[fd[v]][j] = data[fd[v]][j] /\ Last(fd[v], Process(v), j)'
      BY <1>7, <3>1, <3>2, <3>3, <3>4 DEF Last, Begun
    <3>6. wrote'[Process(v)] = wrote[Process(v)]
      BY <1>11, <3>2
    <3>7. Begun(v, j)'
      BY <3>1, <3>3, <3>5, <3>6 DEF Begun
    <3>8. QED
      BY <3>1, <3>6, <3>7 DEF LineInv
  <2>3. QED
    BY <2>1, <2>2
<1>15. \A b \in broken : b.no <= wrote'[Process(b.by)]
  <2>1. ASSUME NEW b \in broken PROVE b.no <= wrote'[Process(b.by)]
    <3>1. b.by \in Writers /\ b.no \in Nat
      BY DEF DataTypes, Pieces
    <3>2. Process(b.by) \in Processes
      BY <3>1, OneProcess
    <3>3. b.no <= wrote[Process(b.by)]
      BY DEF LineInv
    <3>4. wrote[Process(b.by)] \in Nat /\ wrote'[Process(b.by)] \in Nat
          /\ wrote[Process(b.by)] <= wrote'[Process(b.by)]
      BY <1>11, <3>2
    <3>5. QED
      BY <3>1, <3>3, <3>4
  <2>2. QED
    BY <2>1
<1>16. QED
  BY <1>1, <1>12, <1>13, <1>14, <1>15, <1>10 DEF LineInv

\* A record that is not ended was the youngest of its process: nothing of it follows in
\* any file, for the numbers rise.
LEMMA LineBreaks ==
  ASSUME DirTypes, WriterTypes, DataTypes, NumberInv, LineInv, NEW w \in Writers, WriteFails(w)
  PROVE  LineInv'
<1> DEFINE p == Process(w)
<1> DEFINE b == [by |-> w, part |-> 1, no |-> wrote[p]]
<1>1. /\ UNCHANGED <<data, wrote>> /\ at[w] \in {"write", "finish"}
      /\ broken' = IF at[w] = "write" THEN broken ELSE broken \cup {b}
  BY DEF WriteFails
<1>2. p \in Processes /\ w \in p /\ \A q \in Processes : q # p => w \notin q
  BY OneProcess, ProcessAssumption
<1>3. \A v \in Writers : /\ at'[v] = IF v = w THEN "idle" ELSE at[v]
                         /\ v # w => fd'[v] = fd[v]
  BY DEF WriteFails, Goto, WriterTypes
<1>4. wrote[p] \in Nat /\ b \in Pieces
  BY <1>2 DEF DataTypes, Pieces
<1>5. ASSUME NEW i \in 1 .. Len(data), NEW q \in Processes, NEW j \in Places(data[i], q),
             NEW k \in Places(data[i], q), j < k
      PROVE  data[i][j] # b
  <2>1. data[i][j].no < data[i][k].no /\ data[i][k].no \in 1 .. wrote[q]
        /\ data[i][j].no \in 1 .. wrote[q]
    BY <1>5 DEF NumberInv
  <2>2. data[i][j].by \in q
    BY DEF Places
  <2>3. CASE q = p
    BY <1>4, <2>1, <2>3
  <2>4. CASE q # p
    BY <1>2, <2>2, <2>4
  <2>5. QED
    BY <2>3, <2>4
<1> HIDE DEF b
<1>6. broken \subseteq broken' /\ \A a \in broken' : a \in broken \/ a = b
  BY <1>1
<1>7. LinesWhole'
  <2> SUFFICES ASSUME NEW i \in 1 .. Len(data), NEW q \in Processes
               PROVE  /\ \A k \in Places(data[i], q) :
                           data[i][k].part = 1 \/ \E j \in Places(data[i], q) : j < k
                      /\ \A j, k \in Places(data[i], q) :
                           j < k /\ (\A l \in Places(data[i], q) : l <= j \/ k <= l) =>
                             IF data[i][k].part = 1
                             THEN data[i][j].part = 2 \/ data[i][j] \in broken'
                             ELSE /\ data[i][j].part = 1 /\ data[i][j] \notin broken'
                                  /\ data[i][j].by = data[i][k].by
    BY <1>1 DEF LinesWhole
  <2>1. /\ \A k \in Places(data[i], q) :
             data[i][k].part = 1 \/ \E j \in Places(data[i], q) : j < k
        /\ \A j, k \in Places(data[i], q) :
             j < k /\ (\A l \in Places(data[i], q) : l <= j \/ k <= l) =>
               IF data[i][k].part = 1
               THEN data[i][j].part = 2 \/ data[i][j] \in broken
               ELSE /\ data[i][j].part = 1 /\ data[i][j] \notin broken
                    /\ data[i][j].by = data[i][k].by
    BY DEF LineInv, LinesWhole
  <2>2. \A j, k \in Places(data[i], q) :
          j < k => (data[i][j] \in broken' <=> data[i][j] \in broken)
    BY <1>5, <1>6
  <2>3. QED
    BY <2>1, <2>2
<1>8. ASSUME NEW i \in 1 .. Len(data), NEW q \in Processes, NEW j, Last(i, q, j)
      PROVE  \/ data[i][j].part = 2 \/ data[i][j] \in broken'
             \/ Dead(q)' \/ Ending(i, q, data[i][j].by)'
  <2>1. \/ data[i][j].part = 2 \/ data[i][j] \in broken
        \/ Dead(q) \/ Ending(i, q, data[i][j].by)
    BY <1>8 DEF LineInv
  <2>2. ASSUME Dead(q) PROVE Dead(q)'
    <3>1. w \notin q
      BY <1>1, <2>2 DEF Dead
    <3>2. QED
      BY <1>3, <2>2, <3>1, OneProcess DEF Dead
  <2>3. ASSUME Ending(i, q, data[i][j].by)
        PROVE  Ending(i, q, data[i][j].by)' \/ data[i][j] \in broken'
    <3>1. data[i][j].by \in Writers
      BY <2>3, OneProcess DEF Ending
    <3>2. CASE data[i][j].by # w
      BY <1>1, <1>3, <2>3, <3>1, <3>2 DEF Ending
    <3>3. CASE data[i][j].by = w
      <4>1. at[w] = "finish" /\ fd[w] = i /\ q = p
        BY <1>2, <2>3, <3>3 DEF Ending
      <4>2. PICK l : Last(i, p, l) /\ data[i][l] = b
        BY <4>1 DEF LineInv, Begun, b
      <4>3. l = j
        <5>1. l \in Int /\ j \in Int /\ l <= j /\ j <= l
          BY <1>8, <4>1, <4>2 DEF Last, Places
        <5>2. QED
          BY <5>1
      <4>4. QED
        BY <1>1, <4>1, <4>2, <4>3
    <3>4. QED
      BY <3>2, <3>3
  <2>4. QED
    BY <1>6, <2>1, <2>2, <2>3
<1>9. ASSUME NEW v \in Writers, at'[v] = "finish"
      PROVE  /\ \E j : Begun(v, j)'
             /\ [by |-> v, part |-> 1, no |-> wrote[Process(v)]] \notin broken'
  <2>1. v # w /\ at[v] = "finish" /\ fd'[v] = fd[v]
    BY <1>3, <1>9
  <2>2. PICK j : Begun(v, j)
    BY <2>1 DEF LineInv
  <2>3. Begun(v, j)'
    BY <1>1, <2>1, <2>2 DEF Begun, Last
  <2>4. [by |-> v, part |-> 1, no |-> wrote[Process(v)]] # b
    BY <2>1 DEF b
  <2>5. QED
    BY <1>6, <2>1, <2>3, <2>4 DEF LineInv
<1>10. \A a \in broken' : a.no <= wrote[Process(a.by)]
  BY <1>4, <1>6 DEF LineInv, b
<1>11. \A i, q, j : Last(i, q, j)' <=> Last(i, q, j)
  BY <1>1 DEF Last
<1>12. ASSUME NEW i \in 1 .. Len(data'), NEW q \in Processes, NEW j, Last(i, q, j)'
       PROVE  \/ data'[i][j].part = 2 \/ data'[i][j] \in broken'
              \/ Dead(q)' \/ Ending(i, q, data[i][j].by)'
  BY <1>1, <1>8, <1>11, <1>12
<1>13. QED
  BY <1>1, <1>7, <1>9, <1>10, <1>12 DEF LineInv

\* The invariant of the records is inductive.
LEMMA LineNext ==
  ASSUME DirTypes, WriterTypes, DataTypes, NumberInv, LineInv, [Next]_vars
  PROVE  LineInv'
<1>1. ASSUME NEW w \in Writers, NEW to \in {"open", "remove", "shift1", "shift", "idle"},
             at[w] \notin {"finish", "dead"}, Goto(w, to), UNCHANGED <<data, fd, wrote, broken>>
      PROVE  LineInv'
  <2>1. \A v \in Writers : at'[v] = IF v = w THEN to ELSE at[v]
    BY <1>1 DEF Goto, WriterTypes
  <2>2. \A p \in Processes : Dead(p) => Dead(p)'
    BY <1>1, <2>1, OneProcess DEF Dead
  <2>3. \A p \in Processes : \A v \in p : at'[v] = "finish" <=> at[v] = "finish"
    BY <1>1, <2>1, OneProcess
  <2>4. QED
    BY <1>1, <2>2, <2>3, LineKept
<1>2. ASSUME NEW w \in Writers,
             Stat(w) \/ RemoveOldest(w) \/ Shift(w) \/ OpenFails(w)
      PROVE  LineInv'
  <2>1. \E to \in {"open", "remove", "shift1", "shift", "idle"} : Goto(w, to)
    BY <1>2 DEF Stat, RemoveOldest, Shift, Rename, OpenFails
  <2>2. at[w] \notin {"finish", "dead"} /\ UNCHANGED <<data, fd, wrote, broken>>
    BY <1>2 DEF Stat, RemoveOldest, Shift, Rename, OpenFails
  <2>3. QED
    BY <1>1, <2>1, <2>2
<1>3. ASSUME NEW w \in Writers, Open(w) PROVE LineInv'
  <2>1. \A v \in Writers : /\ at'[v] = IF v = w THEN "write" ELSE at[v]
                           /\ v # w => fd'[v] = fd[v]
    BY <1>3 DEF Open, Goto, WriterTypes
  <2>2. at[w] = "open"
    BY <1>3 DEF Open
  <2>3. \A p \in Processes :
          /\ Dead(p) => Dead(p)'
          /\ \A v \in p : (at'[v] = "finish" <=> at[v] = "finish")
                            /\ (at[v] = "finish" => fd'[v] = fd[v])
    BY <2>1, <2>2, OneProcess DEF Dead
  <2>4. /\ \A i \in 1 .. Len(data') :
             data'[i] = <<>> \/ (i \in 1 .. Len(data) /\ data'[i] = data[i])
        /\ \A i \in 1 .. Len(data) : i \in 1 .. Len(data') /\ data'[i] = data[i]
    <3>1. data' = data \/ data' = Append(data, <<>>)
      BY <1>3 DEF Open
    <3>2. data \in Seq(Seq(Pieces)) /\ Len(data) \in Nat
      BY FilesExist DEF DataTypes
    <3>3. CASE data' = Append(data, <<>>)
      <4>1. PICK n \in Nat : n = Len(data) + 1
        BY <3>2
      <4>2. Len(data') = n /\ data'[n] = <<>> /\ \A i \in 1 .. Len(data) : data'[i] = data[i]
        BY <3>2, <3>3, <4>1
      <4>3. \A i \in 1 .. n : i = n \/ i \in 1 .. Len(data)
        BY <3>2, <4>1
      <4>4. \A i \in 1 .. Len(data) : i \in 1 .. n
        BY <3>2, <4>1
      <4>5. QED
        BY <4>2, <4>3, <4>4
    <3>4. QED
      BY <3>1, <3>3
  <2>5. UNCHANGED <<wrote, broken>>
    BY <1>3 DEF Open
  <2>6. QED
    BY <2>3, <2>4, <2>5, LineKept
<1>4. ASSUME NEW p \in Processes, Kill(p) PROVE LineInv'
  <2>1. \A v \in Writers :
          /\ at'[v] = IF v \in p THEN "dead" ELSE at[v]
          /\ fd'[v] = IF v \in p THEN None ELSE fd[v]
    BY <1>4 DEF Kill
  <2>2. Dead(p)'
    BY <2>1, OneProcess DEF Dead
  <2>3. \A q \in Processes : q # p => \A v \in q : at'[v] = at[v] /\ fd'[v] = fd[v]
    BY <2>1, OneProcess
  <2>4. QED
    BY <1>4, <2>2, <2>3, LineKept DEF Dead, Kill
<1>5. CASE UNCHANGED vars
  BY <1>5, LineKept DEF vars, Dead
<1>6. QED
  BY <1>2, <1>3, <1>4, <1>5, LineWrite, LineBreaks DEF Next, Log

(* However rotations and records of several processes interleave, the records of   *)
(* one process alternate in each file and none is torn apart or lacks its end, but *)
(* for the last one of a process that is still writing it or has died, and for     *)
(* those whose end could not be written (logging.rs:33-46).                        *)
THEOREM LinesAreWhole == Spec => []LinesWhole
<1>1. Init => NumberInv /\ LineInv
  BY DEF Init, NumberInv, LineInv, LinesWhole
<1>2. DirTypes /\ WriterTypes /\ DataTypes /\ NumberInv /\ LineInv /\ [Next]_vars
        => (DirTypes /\ WriterTypes /\ DataTypes /\ NumberInv /\ LineInv)'
  BY TypeNext, NumberNext, LineNext
<1>3. LineInv => LinesWhole
  BY DEF LineInv
<1>4. QED
  BY <1>1, <1>2, <1>3, TypeInit, PTL DEF Spec

-----------------------------------------------------------------------------
(* The newest records.  NewestKept does not say how the three names are     *)
(* handed on: one rotation at a time, each name free before it is taken     *)
(* unless its file stayed in place, no file moved but one that was found    *)
(* full, and nothing written into an older file after something in a        *)
(* younger one.                                                             *)

Full(n) == dir[n] # None /\ Len(data[dir[n]]) >= MAX_LOG_BYTES

Lost == \E p \in Processes : Kept(p) # 1 .. wrote[p]

\* Nothing has happened after which the order of what is left is not known, or after
\* which less than two full files may be left.
Calm == ~("raced" \in marks \/ {"p1", "p2"} \subseteq marks)
Smooth == {"cut", "log", "p1"} \cap marks = {}

RotationInv ==
  /\ \A v, w \in Writers : Rotating(v) /\ Rotating(w) => v = w
  /\ \A w \in Writers :
       /\ Rotating(w) => Full("log")
       /\ at[w] = "shift1" => dir["p2"] = None \/ "p2" \in marks
       /\ at[w] = "shift" => dir["p1"] = None \/ (dir["p2"] = None /\ "p1" \in marks)
  /\ \A n \in {"p1", "p2"} : dir[n] # None => Full(n)

\* A file that is being written has a name, and a younger one has nothing of its writer.
WriterInv ==
  \A w \in Writers : at[w] \in {"write", "finish"} =>
    \/ fd[w] = dir["log"]
    \/ fd[w] = dir["p1"] /\ Held("log", Process(w)) = {}
    \/ fd[w] = dir["p2"] /\ Held("p1", Process(w)) = {} /\ Held("log", Process(w)) = {}

SuffixInv ==
  \A p \in Processes :
    /\ \A x \in Held("p2", p), y \in Held("p1", p) \cup Held("log", p) : x < y
    /\ \A x \in Held("p1", p), y \in Held("log", p) : x < y
    /\ \A x \in Kept(p) : x .. wrote[p] \subseteq Kept(p)

LossInv ==
  /\ Lost => \E n \in Names : Full(n)
  /\ Smooth =>
       /\ dir["p2"] # None => dir["p1"] # None \/ \E w \in Writers : at[w] = "shift"
       /\ Lost => \/ Full("p1") /\ Full("p2")
                  \/ Full("p1") /\ \E w \in Writers : at[w] = "shift1"
                  \/ Full("p2") /\ \E w \in Writers : at[w] = "shift"

NameInv == RotationInv /\ WriterInv /\ SuffixInv /\ LossInv

NewestInv == NumberInv /\ (Calm => NameInv)

\* A name without a file holds nothing.
LEMMA NoFile ==
  ASSUME NEW n \in Names, dir[n] = None
  PROVE  ~Full(n) /\ \A p \in Processes : Held(n, p) = {}
<1>1. Sees(n) = <<>>
  BY DEF Sees
<1>2. \A p \in Processes : Places(<<>>, p) = {}
  BY DEF Places
<1>3. QED
  BY <1>1, <1>2 DEF Held, Full

\* A name that stands for the file of another, which has not changed, holds the same.
LEMMA SameFile ==
  ASSUME NEW m \in Names, NEW n \in Names, dir'[n] = dir[m],
         dir[m] # None => data'[dir[m]] = data[dir[m]]
  PROVE  (Full(n)' <=> Full(m)) /\ \A p \in Processes : Held(n, p)' = Held(m, p)
<1>1. Sees(n)' = Sees(m)
  BY DEF Sees
<1>2. QED
  BY <1>1 DEF Held, Full

\* The numbers that a name holds.
LEMMA HeldNumbers ==
  ASSUME DirTypes, DataTypes, NumberInv, NEW n \in Names, NEW p \in Processes
  PROVE  Held(n, p) \subseteq 1 .. wrote[p]
<1>1. CASE dir[n] = None
  BY <1>1, NoFile
<1>2. CASE dir[n] # None
  <2>1. dir[n] \in 1 .. Len(data)
    BY <1>2 DEF DirTypes, DataTypes
  <2>2. QED
    BY <1>2, <2>1 DEF NumberInv, Held, Sees
<1>3. QED
  BY <1>1, <1>2

-----------------------------------------------------------------------------
\* NameInv is kept while the names and files stay as they are, if who rotates is alone
\* with a full file, a name that is not free when it should be is marked, and nobody
\* starts to write.
LEMMA NamesRest ==
  ASSUME NameInv, UNCHANGED <<dir, data, wrote>>, marks \subseteq marks',
         \A v, w \in Writers : Rotating(v)' /\ Rotating(w)' => v = w,
         \A v \in Writers :
           /\ Rotating(v)' => Full("log")
           /\ at'[v] = "shift1" => \/ at'[v] = at[v]
                                   \/ dir["p2"] = None \/ "p2" \in marks'
           /\ at'[v] = "shift" => \/ at'[v] = at[v] \/ dir["p1"] = None
                                  \/ dir["p2"] = None /\ "p1" \in marks'
           /\ at'[v] \in {"write", "finish"} => at'[v] = at[v] /\ fd'[v] = fd[v],
         Smooth' => \A v \in Writers :
                      /\ at[v] = "shift1" => at'[v] = "shift1" \/ dir["p1"] = None
                      /\ at[v] = "shift" => at'[v] = "shift"
  PROVE  NameInv'
<1>1. /\ \A n \in Names : Full(n)' <=> Full(n)
      /\ \A n \in Names, p \in Processes : Held(n, p)' = Held(n, p)
  BY DEF Full, Held, Sees
<1>2. /\ \A p \in Processes : Kept(p)' = Kept(p)
      /\ Lost' <=> Lost
  BY <1>1 DEF Kept, Lost, Names
<1>3. RotationInv'
  BY <1>1 DEF NameInv, RotationInv, Names
<1>4. WriterInv'
  BY <1>1, OneProcess DEF NameInv, WriterInv, Names
<1>5. SuffixInv'
  BY <1>1, <1>2 DEF NameInv, SuffixInv, Names
<1>6. LossInv'
  <2>1. Lost' => \E n \in Names : Full(n)'
    BY <1>1, <1>2 DEF NameInv, LossInv
  <2>2. ASSUME Smooth'
        PROVE  /\ dir'["p2"] # None => dir'["p1"] # None \/ \E w \in Writers : at'[w] = "shift"
               /\ Lost' => \/ Full("p1")' /\ Full("p2")'
                           \/ Full("p1")' /\ \E w \in Writers : at'[w] = "shift1"
                           \/ Full("p2")' /\ \E w \in Writers : at'[w] = "shift"
    <3>1. Smooth /\ (Full("p1") => dir["p1"] # None)
      BY <2>2 DEF Smooth, Full
    <3>2. QED
      BY <1>1, <1>2, <2>2, <3>1 DEF NameInv, LossInv, Names
  <2>3. QED
    BY <2>1, <2>2 DEF LossInv
<1>7. QED
  BY <1>3, <1>4, <1>5, <1>6 DEF NameInv

\* While one process rotates, the others do not, and its own threads do not write.
LEMMA RotatesAlone ==
  ASSUME WriterTypes, RotationInv, NEW w \in Writers, Rotating(w), NEW to, Goto(w, to)
  PROVE  /\ at'[w] = to
         /\ \A v \in Writers : v # w => ~Rotating(v) /\ at'[v] = at[v]
         /\ \A v \in Writers : at[v] \in {"write", "finish"} => v \in Strangers(w)
<1>1. at'[w] = to /\ \A v \in Writers : v # w => at'[v] = at[v]
  BY DEF WriterTypes, Goto
<1>2. \A v \in Writers : v # w => ~Rotating(v)
  BY DEF RotationInv
<1>3. ASSUME NEW v \in Writers, at[v] \in {"write", "finish"}, v \in Process(w)
      PROVE  FALSE
  <2>1. v = w
    BY <1>3, OneProcess DEF WriterTypes, Rotating
  <2>2. QED
    BY <1>3, <2>1 DEF Rotating
<1>4. QED
  BY <1>1, <1>2, <1>3 DEF Strangers

\* remove_file(p2): what is left is still the end of what was written.
LEMMA NamesRemove ==
  ASSUME DirTypes, WriterTypes, DataTypes, NumberInv, NameInv,
         NEW w \in Writers, at[w] = "remove", Goto(w, "shift1"),
         dir' = [dir EXCEPT !["p2"] = None], ~InUse(w, "p2"), UNCHANGED <<data, fd, wrote, marks>>
  PROVE  NameInv'
<1>1. /\ at[w] = "remove" /\ Rotating(w) /\ at'[w] = "shift1"
      /\ \A v \in Writers : v # w => ~Rotating(v) /\ at'[v] = at[v]
      /\ \A v \in Writers : at[v] \in {"write", "finish"} => v \in Strangers(w)
  <2>1. Rotating(w)
    BY DEF Rotating
  <2>2. QED
    BY <2>1, RotatesAlone DEF NameInv
<1>2. dir'["p2"] = None /\ dir'["p1"] = dir["p1"] /\ dir'["log"] = dir["log"]
  BY DEF DirTypes, Names
<1>3. UNCHANGED <<data, fd, wrote, marks>> /\ ~InUse(w, "p2") /\ (Smooth' <=> Smooth)
  BY DEF Smooth
<1>4. /\ ~Full("p2")'
      /\ \A p \in Processes : Held("p2", p)' = {}
      /\ \A n \in {"p1", "log"} :
           /\ Full(n)' <=> Full(n)
           /\ \A p \in Processes : Held(n, p)' = Held(n, p)
  BY <1>2, <1>3 DEF Full, Held, Sees, Places
<1>5. Full("log")
  BY <1>1 DEF NameInv, RotationInv
<1>6. RotationInv'
  <2>1. \A u, v \in Writers : Rotating(u)' /\ Rotating(v)' => u = v
    BY <1>1 DEF Rotating
  <2>2. \A v \in Writers : at'[v] # "shift"
    BY <1>1 DEF Rotating
  <2>3. QED
    BY <1>2, <1>4, <1>5, <2>1, <2>2 DEF NameInv, RotationInv
<1>7. WriterInv'
  <2> SUFFICES ASSUME NEW v \in Writers, at'[v] \in {"write", "finish"}
               PROVE  \/ fd'[v] = dir'["log"]
                      \/ fd'[v] = dir'["p1"] /\ Held("log", Process(v))' = {}
                      \/ /\ fd'[v] = dir'["p2"] /\ Held("p1", Process(v))' = {}
                         /\ Held("log", Process(v))' = {}
    BY DEF WriterInv
  <2>1. at[v] \in {"write", "finish"} /\ v \in Strangers(w) /\ fd[v] # None
    BY <1>1 DEF WriterTypes
  <2>2. fd[v] # dir["p2"]
    BY <1>3, <2>1 DEF InUse
  <2>3. QED
    BY <1>2, <1>3, <1>4, <2>1, <2>2, OneProcess DEF NameInv, WriterInv
<1>8. ASSUME NEW p \in Processes
      PROVE  /\ Kept(p)' = Held("p1", p) \cup Held("log", p)
             /\ Kept(p)' # Kept(p) => dir["p2"] # None
  <2>1. dir["p2"] = None => Held("p2", p) = {}
    BY NoFile DEF Names
  <2>2. QED
    BY <1>4, <2>1 DEF Kept
<1>9. SuffixInv'
  <2>1. ASSUME NEW p \in Processes, NEW x \in Kept(p)' PROVE x .. wrote[p] \subseteq Kept(p)'
    <3>1. x \in Held("p1", p) \cup Held("log", p)
      BY <1>8, <2>1
    <3>2. \A y \in Held("p2", p) : y < x
      BY <3>1 DEF NameInv, SuffixInv
    <3>3. x .. wrote[p] \subseteq Kept(p)
      BY <3>1 DEF NameInv, SuffixInv, Kept
    <3>4. \A y \in x .. wrote[p] : ~(y < x)
      <4>1. wrote[p] \in Nat /\ x \in 1 .. wrote[p]
        BY <3>1, HeldNumbers DEF DataTypes, Names
      <4>2. QED
        BY <4>1
    <3>5. QED
      BY <1>8, <3>2, <3>3, <3>4 DEF Kept
  <2>2. QED
    BY <1>3, <1>4, <2>1 DEF NameInv, SuffixInv
<1>10. LossInv'
  <2>1. Full("log")'
    BY <1>4, <1>5
  <2>2. ASSUME Smooth', Lost' PROVE Full("p1")'
    <3>1. Full("p1") \/ ~Lost
      BY <1>1, <1>3, <2>2 DEF NameInv, LossInv, Rotating
    <3>2. CASE ~Lost
      <4>1. dir["p2"] # None
        BY <1>3, <1>8, <2>2, <3>2 DEF Lost
      <4>2. dir["p1"] # None
        BY <1>1, <1>3, <2>2, <4>1 DEF NameInv, LossInv, Rotating
      <4>3. QED
        BY <1>4, <4>2 DEF NameInv, RotationInv
    <3>3. QED
      BY <1>4, <3>1, <3>2
  <2>3. QED
    BY <1>1, <1>2, <2>1, <2>2 DEF LossInv, Names
<1>11. QED
  BY <1>6, <1>7, <1>9, <1>10 DEF NameInv

\* rename(p1, p2): if p2 is not free, its file goes, which is the oldest.
LEMMA NamesShiftOlder ==
  ASSUME DirTypes, WriterTypes, DataTypes, NumberInv, NameInv,
         NEW w \in Writers, at[w] = "shift1", Goto(w, "shift"),
         dir' = Renamed("p1", "p2"), dir["p1"] # None => ~InUse(w, "p2"),
         UNCHANGED <<data, fd, wrote, marks>>
  PROVE  NameInv'
<1>1. /\ Rotating(w) /\ at'[w] = "shift"
      /\ \A v \in Writers : v # w => ~Rotating(v) /\ at'[v] = at[v]
      /\ \A v \in Writers : at[v] \in {"write", "finish"} => v \in Strangers(w)
  <2>1. Rotating(w)
    BY DEF Rotating
  <2>2. QED
    BY <2>1, RotatesAlone DEF NameInv
<1>2. Full("log")
  BY <1>1 DEF NameInv, RotationInv
<1>3. \A u, v \in Writers : Rotating(u)' /\ Rotating(v)' => u = v
  BY <1>1 DEF Rotating
<1>4. \A v \in Writers : at'[v] # "shift1" /\ (at'[v] = "shift" => v = w)
  BY <1>1 DEF Rotating
<1>5. CASE dir["p1"] = None
  <2>1. dir' = dir
    BY <1>5 DEF Renamed
  <2>2. \A v \in Writers : at[v] = "shift" => FALSE
    BY <1>1 DEF Rotating
  <2>3. \A v \in Writers : at'[v] \in {"write", "finish"} => at'[v] = at[v]
    BY <1>1
  <2>4. QED
    BY <1>2, <1>3, <1>4, <1>5, <2>1, <2>2, <2>3, NamesRest
<1>6. CASE dir["p1"] # None
  <2>1. dir'["p2"] = dir["p1"] /\ dir'["p1"] = None /\ dir'["log"] = dir["log"]
    BY <1>6 DEF Renamed, DirTypes, Names
  <2>2. Full("p1")
    BY <1>6 DEF NameInv, RotationInv
  <2>3. /\ Full("p2")' <=> Full("p1")
        /\ Full("log")' <=> Full("log")
        /\ \A p \in Processes : /\ Held("p2", p)' = Held("p1", p)
                                /\ Held("p1", p)' = {}
                                /\ Held("log", p)' = Held("log", p)
    <3>1. \A p \in Processes : Held("p1", p)' = {}
      BY <2>1 DEF Held, Sees, Places
    <3>2. QED
      BY <2>1, <3>1, SameFile DEF Names
  <2>4. RotationInv'
    BY <1>2, <1>3, <1>4, <2>1, <2>2, <2>3 DEF NameInv, RotationInv
  <2>5. WriterInv'
    <3> SUFFICES ASSUME NEW v \in Writers, at'[v] \in {"write", "finish"}
                 PROVE  \/ fd'[v] = dir'["log"]
                        \/ fd'[v] = dir'["p1"] /\ Held("log", Process(v))' = {}
                        \/ /\ fd'[v] = dir'["p2"] /\ Held("p1", Process(v))' = {}
                           /\ Held("log", Process(v))' = {}
      BY DEF WriterInv
    <3>1. at[v] \in {"write", "finish"} /\ v \in Strangers(w) /\ fd[v] # None
      BY <1>1 DEF WriterTypes
    <3>2. fd[v] # dir["p2"]
      BY <1>6, <3>1 DEF InUse
    <3>3. QED
      BY <2>1, <2>3, <3>1, <3>2, OneProcess DEF NameInv, WriterInv
  <2>6. \A p \in Processes : Kept(p)' = Held("p1", p) \cup Held("log", p)
    BY <2>3 DEF Kept
  <2>7. SuffixInv'
    <3>1. ASSUME NEW p \in Processes, NEW x \in Kept(p)' PROVE x .. wrote[p] \subseteq Kept(p)'
      <4>1. x \in Held("p1", p) \cup Held("log", p)
        BY <2>6, <3>1
      <4>2. \A y \in Held("p2", p) : y < x
        BY <4>1 DEF NameInv, SuffixInv
      <4>3. x .. wrote[p] \subseteq Kept(p)
        BY <4>1 DEF NameInv, SuffixInv, Kept
      <4>4. \A y \in x .. wrote[p] : ~(y < x)
        <5>1. wrote[p] \in Nat /\ x \in 1 .. wrote[p]
          BY <4>1, HeldNumbers DEF DataTypes, Names
        <5>2. QED
          BY <5>1
      <4>5. QED
        BY <2>6, <4>2, <4>3, <4>4 DEF Kept
    <3>2. QED
      BY <2>3, <3>1 DEF NameInv, SuffixInv
  <2>8. LossInv'
    BY <1>1, <1>2, <2>2, <2>3 DEF LossInv, Names
  <2>9. QED
    BY <2>4, <2>5, <2>7, <2>8 DEF NameInv
<1>7. QED
  BY <1>5, <1>6

\* rename(log, p1): the file that takes the name is full, and if the name is not free,
\* its file goes, which is the oldest.
LEMMA NamesShiftCurrent ==
  ASSUME DirTypes, WriterTypes, DataTypes, NumberInv, NameInv,
         NEW w \in Writers, at[w] = "shift", Goto(w, "open"),
         dir' = Renamed("log", "p1"), dir["log"] # None => ~InUse(w, "p1"),
         UNCHANGED <<data, fd, wrote, marks>>
  PROVE  NameInv'
<1>1. /\ Rotating(w) /\ at'[w] = "open"
      /\ \A v \in Writers : v # w => ~Rotating(v) /\ at'[v] = at[v]
      /\ \A v \in Writers : at[v] \in {"write", "finish"} => v \in Strangers(w)
  <2>1. Rotating(w)
    BY DEF Rotating
  <2>2. QED
    BY <2>1, RotatesAlone DEF NameInv
<1>2. /\ Full("log") /\ dir["log"] # None
      /\ dir["p1"] = None \/ (dir["p2"] = None /\ "p1" \in marks)
  BY <1>1 DEF NameInv, RotationInv, Full
<1>3. dir'["p1"] = dir["log"] /\ dir'["log"] = None /\ dir'["p2"] = dir["p2"]
  BY <1>2 DEF Renamed, DirTypes, Names
<1>4. /\ Full("p2")' <=> Full("p2")
      /\ Full("p1")'
      /\ \A p \in Processes : /\ Held("p2", p)' = Held("p2", p)
                              /\ Held("p1", p)' = Held("log", p)
                              /\ Held("log", p)' = {}
                              /\ Held("p1", p) = {} \/ Held("p2", p) = {}
  <2>1. \A p \in Processes : Held("log", p)' = {}
    BY <1>3 DEF Held, Sees, Places
  <2>2. \A p \in Processes : Held("p1", p) = {} \/ Held("p2", p) = {}
    BY <1>2, NoFile DEF Names
  <2>3. QED
    BY <1>2, <1>3, <2>1, <2>2, SameFile DEF Names
<1>5. RotationInv'
  <2>1. \A v \in Writers : ~Rotating(v)'
    BY <1>1 DEF Rotating
  <2>2. \A v \in Writers : at'[v] \notin {"shift1", "shift"}
    BY <2>1 DEF Rotating
  <2>3. QED
    BY <1>3, <1>4, <2>1, <2>2 DEF NameInv, RotationInv
<1>6. WriterInv'
  <2> SUFFICES ASSUME NEW v \in Writers, at'[v] \in {"write", "finish"}
               PROVE  \/ fd'[v] = dir'["log"]
                      \/ fd'[v] = dir'["p1"] /\ Held("log", Process(v))' = {}
                      \/ /\ fd'[v] = dir'["p2"] /\ Held("p1", Process(v))' = {}
                         /\ Held("log", Process(v))' = {}
    BY DEF WriterInv
  <2>1. at[v] \in {"write", "finish"} /\ v \in Strangers(w) /\ fd[v] # None
    BY <1>1 DEF WriterTypes
  <2>2. fd[v] # dir["p1"]
    BY <1>2, <2>1 DEF InUse
  <2>3. QED
    BY <1>3, <1>4, <2>1, <2>2, OneProcess DEF NameInv, WriterInv
<1>7. \A p \in Processes : Kept(p)' = Held("p2", p) \cup Held("log", p)
  BY <1>4 DEF Kept
<1>8. SuffixInv'
  <2>1. ASSUME NEW p \in Processes, NEW x \in Kept(p)' PROVE x .. wrote[p] \subseteq Kept(p)'
    <3>1. x \in Kept(p) /\ x .. wrote[p] \subseteq Kept(p)
      BY <1>7, <2>1 DEF NameInv, SuffixInv, Kept
    <3>2. CASE Held("p1", p) = {}
      BY <1>7, <3>1, <3>2 DEF Kept
    <3>3. CASE Held("p2", p) = {}
      <4>1. \A y \in Held("p1", p) : y < x
        BY <1>7, <2>1, <3>3 DEF NameInv, SuffixInv
      <4>2. \A y \in x .. wrote[p] : ~(y < x)
        <5>1. wrote[p] \in Nat /\ x \in 1 .. wrote[p]
          BY <3>1, HeldNumbers DEF DataTypes, Names, Kept
        <5>2. QED
          BY <5>1
      <4>3. QED
        BY <1>7, <3>1, <4>1, <4>2 DEF Kept
    <3>4. QED
      BY <1>4, <3>2, <3>3
  <2>2. QED
    BY <1>4, <2>1 DEF NameInv, SuffixInv
<1>9. LossInv'
  <2>1. ASSUME Smooth', Lost' PROVE Full("p2")'
    <3>1. Smooth /\ dir["p1"] = None
      BY <1>2, <2>1 DEF Smooth
    <3>2. ~Full("p1") /\ \A p \in Processes : Held("p1", p) = {}
      BY <3>1, NoFile DEF Names
    <3>3. Lost
      BY <1>7, <2>1, <3>2 DEF Lost, Kept
    <3>4. QED
      BY <1>4, <3>1, <3>2, <3>3 DEF NameInv, LossInv
  <2>2. QED
    BY <1>2, <1>3, <1>4, <2>1 DEF LossInv, Names
<1>10. QED
  BY <1>5, <1>6, <1>8, <1>9 DEF NameInv

\* open(): a file that it creates is empty and the youngest.
LEMMA NamesOpen ==
  ASSUME DirTypes, WriterTypes, DataTypes, NameInv, NEW w \in Writers, Open(w)
  PROVE  NameInv'
<1>1. /\ at[w] = "open" /\ at'[w] = "write"
      /\ \A v \in Writers : v # w => at'[v] = at[v] /\ fd'[v] = fd[v]
      /\ \A v \in Writers : /\ Rotating(v)' <=> Rotating(v)
                            /\ \A s \in {"shift1", "shift"} : at'[v] = s <=> at[v] = s
  <2>1. at[w] = "open" /\ at'[w] = "write" /\ \A v \in Writers : v # w => at'[v] = at[v]
    BY DEF Open, Goto, WriterTypes
  <2>2. \A v \in Writers : v # w => fd'[v] = fd[v]
    BY DEF Open, WriterTypes
  <2>3. QED
    BY <2>1, <2>2 DEF Rotating
<1>2. dir'["p2"] = dir["p2"] /\ dir'["p1"] = dir["p1"] /\ fd'[w] = dir'["log"]
      /\ UNCHANGED <<wrote, marks>>
  BY DEF Open, DirTypes, WriterTypes, Names
<1>3. \A i \in 1 .. Len(data) : data'[i] = data[i]
  <2>1. data \in Seq(Seq(Pieces)) /\ (data' = data \/ data' = Append(data, <<>>))
    BY DEF DataTypes, Open
  <2> HIDE DEF Pieces
  <2>2. QED
    BY <2>1
<1>4. \A n \in Names : dir[n] # None => dir[n] \in 1 .. Len(data)
  BY DEF DirTypes, DataTypes
<1>5. /\ Full("log")' <=> Full("log")
      /\ \A p \in Processes : Held("log", p)' = Held("log", p)
  <2>1. CASE dir["log"] # None
    <3>1. dir'["log"] = dir["log"]
      BY <2>1 DEF Open
    <3>2. QED
      BY <2>1, <3>1, <1>3, <1>4, SameFile DEF Names
  <2>2. CASE dir["log"] = None
    <3>1. Sees("log")' = <<>> /\ Len(data'[dir'["log"]]) = 0
      <4>1. PICK n \in Nat : n = Len(data) + 1
        BY FilesExist
      <4>2. dir'["log"] = n /\ n # 0
        BY <2>2, <4>1 DEF Open, DirTypes, Names
      <4>3. data' = Append(data, <<>>) /\ data \in Seq(Seq(Pieces))
        BY <2>2 DEF Open, DataTypes
      <4>4. data'[n] = <<>>
        <5> HIDE DEF Pieces
        <5>1. QED
          BY <4>1, <4>3
      <4>5. QED
        BY <4>2, <4>4 DEF Sees
    <3>2. \A p \in Processes : Held("log", p)' = {}
      BY <3>1 DEF Held, Places
    <3>3. ~Full("log")'
      BY <3>1 DEF Full
    <3>4. QED
      BY <2>2, <3>2, <3>3, NoFile DEF Names
  <2>3. QED
    BY <2>1, <2>2
<1>6. \A n \in {"p1", "p2"} :
        /\ Full(n)' <=> Full(n)
        /\ \A p \in Processes : Held(n, p)' = Held(n, p)
  BY <1>2, <1>3, <1>4, SameFile DEF Names
<1>7. /\ \A p \in Processes : Kept(p)' = Kept(p)
      /\ Lost' <=> Lost
  BY <1>2, <1>5, <1>6 DEF Kept, Lost
<1>8. RotationInv'
  BY <1>1, <1>2, <1>5, <1>6 DEF NameInv, RotationInv
<1>9. WriterInv'
  <2> SUFFICES ASSUME NEW v \in Writers, at'[v] \in {"write", "finish"}
               PROVE  \/ fd'[v] = dir'["log"]
                      \/ fd'[v] = dir'["p1"] /\ Held("log", Process(v))' = {}
                      \/ /\ fd'[v] = dir'["p2"] /\ Held("p1", Process(v))' = {}
                         /\ Held("log", Process(v))' = {}
    BY DEF WriterInv
  <2>1. CASE v = w
    BY <1>2, <2>1
  <2>2. CASE v # w
    <3>1. at[v] \in {"write", "finish"} /\ fd'[v] = fd[v] /\ fd[v] # None
      BY <1>1, <2>2 DEF WriterTypes
    <3>2. dir["log"] # None => dir'["log"] = dir["log"]
      BY DEF Open
    <3>3. QED
      BY <1>2, <1>5, <1>6, <3>1, <3>2, OneProcess DEF NameInv, WriterInv
  <2>3. QED
    BY <2>1, <2>2
<1>10. SuffixInv'
  BY <1>2, <1>5, <1>6, <1>7 DEF NameInv, SuffixInv
<1>11. LossInv'
  <2>1. Lost' => \E n \in Names : Full(n)'
    BY <1>5, <1>6, <1>7 DEF NameInv, LossInv, Names
  <2>2. ASSUME Smooth'
        PROVE  /\ dir'["p2"] # None => dir'["p1"] # None \/ \E v \in Writers : at'[v] = "shift"
               /\ Lost' => \/ Full("p1")' /\ Full("p2")'
                           \/ Full("p1")' /\ \E v \in Writers : at'[v] = "shift1"
                           \/ Full("p2")' /\ \E v \in Writers : at'[v] = "shift"
    BY <1>1, <1>2, <1>6, <1>7, <2>2 DEF NameInv, LossInv, Smooth
  <2>3. QED
    BY <2>1, <2>2 DEF LossInv
<1>12. QED
  BY <1>8, <1>9, <1>10, <1>11 DEF NameInv

\* What a piece adds to what the names hold.
LEMMA WriteHolds ==
  ASSUME DirTypes, WriterTypes, DataTypes, NEW w \in Writers, Write(w), NEW n \in Names
  PROVE  /\ Full(n) => Full(n)'
         /\ \A p \in Processes :
              Held(n, p)' = IF dir[n] = fd[w] /\ w \in p
                            THEN Held(n, p) \cup {wrote[p] + 1} ELSE Held(n, p)
<1>1. PICK f \in 1 .. Len(data), x \in Pieces :
           /\ f = fd[w] /\ x.by = w
           /\ x.no = wrote[Process(w)] + 1
           /\ Len(data') = Len(data)
           /\ \A i \in 1 .. Len(data) : i # f => data'[i] = data[i]
           /\ Len(data[f]) \in Nat /\ Len(data'[f]) = Len(data[f]) + 1
           /\ data'[f][Len(data[f]) + 1] = x
           /\ \A j \in 1 .. Len(data[f]) : data'[f][j] = data[f][j]
  BY WriteAppends
<1>2. dir' = dir
  BY DEF Write
<1>3. dir[n] # None => dir[n] \in 1 .. Len(data)
  BY DEF DirTypes, DataTypes
<1>4. CASE dir[n] # f
  <2>1. dir[n] # None => data'[dir[n]] = data[dir[n]]
    BY <1>1, <1>3, <1>4
  <2>2. QED
    BY <1>1, <1>2, <1>4, <2>1, SameFile
<1>5. CASE dir[n] = f
  <2>1. Sees(n) = data[f] /\ Sees(n)' = data'[f] /\ f # None
    BY <1>1, <1>2, <1>5 DEF Sees
  <2>2. Full(n) => Full(n)'
    BY <1>1, <1>2, <1>5 DEF Full
  <2>3. PICK m \in Nat : m = Len(data[f])
    BY <1>1
  <2>4. ASSUME NEW p \in Processes
        PROVE  Held(n, p)' = IF w \in p THEN Held(n, p) \cup {wrote[p] + 1} ELSE Held(n, p)
    <3>1. \A j \in Places(data[f], p) : j \in Places(data'[f], p) /\ data'[f][j] = data[f][j]
      BY <1>1, <2>3 DEF Places
    <3>2. \A j \in Places(data'[f], p) : j # m + 1 => j \in Places(data[f], p)
      BY <1>1, <2>3 DEF Places
    <3>3. m + 1 \in Places(data'[f], p) <=> w \in p
      BY <1>1, <2>3 DEF Places
    <3>4. w \in p => data'[f][m + 1].no = wrote[p] + 1
      BY <1>1, <2>3, OneProcess
    <3>5. Held(n, p) = {data[f][j].no : j \in Places(data[f], p)}
          /\ Held(n, p)' = {data'[f][j].no : j \in Places(data'[f], p)}
      BY <2>1 DEF Held
    <3> HIDE DEF Held
    <3>6. QED
      BY <3>1, <3>2, <3>3, <3>4, <3>5
  <2>5. QED
    BY <1>1, <1>5, <2>2, <2>4
<1>6. QED
  BY <1>4, <1>5

\* write(): the piece has the greatest number and goes into the youngest file that has
\* anything of its process.
LEMMA NamesWrite ==
  ASSUME DirTypes, WriterTypes, DataTypes, NumberInv, NameInv, NEW w \in Writers, Write(w)
  PROVE  NameInv'
<1> DEFINE q == Process(w)
<1>1. /\ at[w] \in {"write", "finish"} /\ at'[w] \in {"finish", "idle"}
      /\ at'[w] = "finish" => fd'[w] = fd[w]
      /\ \A v \in Writers : v # w => at'[v] = at[v] /\ fd'[v] = fd[v]
      /\ \A v \in Writers : /\ Rotating(v)' <=> Rotating(v)
                            /\ \A s \in {"shift1", "shift"} : at'[v] = s <=> at[v] = s
  <2>1. /\ at[w] \in {"write", "finish"}
        /\ \A v \in Writers :
             at'[v] = IF v = w THEN IF at[w] = "write" THEN "finish" ELSE "idle" ELSE at[v]
    BY DEF Write, Goto, WriterTypes
  <2>2. \A v \in Writers : v # w => fd'[v] = fd[v]
    BY DEF Write, WriterTypes
  <2>3. at'[w] = "finish" => fd'[w] = fd[w]
    BY <2>1 DEF Write
  <2>4. QED
    BY <2>1, <2>2, <2>3 DEF Rotating
<1>2. UNCHANGED <<dir, marks>> /\ fd[w] # None
  BY <1>1 DEF Write, WriterTypes
<1>3. /\ q \in Processes /\ w \in q /\ \A p \in Processes : w \in p => p = q
      /\ \A v \in Writers : v # w /\ at[v] \in {"write", "finish"} => w \notin Process(v)
  <2>1. q \in Processes /\ w \in q /\ \A p \in Processes : w \in p => p = q
    BY OneProcess
  <2>2. ASSUME NEW v \in Writers, v # w, at[v] \in {"write", "finish"}, w \in Process(v)
        PROVE  FALSE
    BY <1>1, <2>2, OneProcess DEF WriterTypes
  <2>3. QED
    BY <2>1, <2>2
<1>4. PICK k \in Nat : k = wrote[q] /\ wrote'[q] = k + 1
                       /\ \A p \in Processes : p # q => wrote'[p] = wrote[p]
  BY <1>3 DEF Write, DataTypes
<1>5. \A n \in Names :
        /\ Full(n) => Full(n)'
        /\ \A p \in Processes : p # q => Held(n, p)' = Held(n, p)
        /\ Held(n, q)' = IF dir[n] = fd[w] THEN Held(n, q) \cup {k + 1} ELSE Held(n, q)
        /\ Held(n, q) \subseteq 1 .. k
  BY <1>3, <1>4, WriteHolds, HeldNumbers
<1>6. \A m, n \in Names : m # n => ~(dir[m] = fd[w] /\ dir[n] = fd[w])
  BY <1>2 DEF DirTypes
<1>7. \/ dir["log"] = fd[w]
      \/ dir["p1"] = fd[w] /\ Held("log", q) = {}
      \/ dir["p2"] = fd[w] /\ Held("p1", q) = {} /\ Held("log", q) = {}
  BY <1>1 DEF NameInv, WriterInv
<1> HIDE DEF q
<1>8. /\ \A p \in Processes : p # q => Kept(p)' = Kept(p)
      /\ Kept(q)' = Kept(q) \cup {k + 1}
  BY <1>5, <1>7 DEF Kept, Names
<1>9. Lost' => Lost
  <2>1. ASSUME Kept(q) = 1 .. k PROVE Kept(q)' = 1 .. k + 1
    BY <1>8, <2>1
  <2>2. QED
    BY <1>3, <1>4, <1>8, <2>1 DEF Lost
<1>10. RotationInv'
  <2>1. \A n \in {"p1", "p2"} : dir[n] # None => Full(n)
    BY DEF NameInv, RotationInv
  <2>2. QED
    BY <1>1, <1>2, <1>5, <2>1 DEF NameInv, RotationInv, Names
<1>11. WriterInv'
  <2> SUFFICES ASSUME NEW v \in Writers, at'[v] \in {"write", "finish"}
               PROVE  \/ fd'[v] = dir'["log"]
                      \/ fd'[v] = dir'["p1"] /\ Held("log", Process(v))' = {}
                      \/ /\ fd'[v] = dir'["p2"] /\ Held("p1", Process(v))' = {}
                         /\ Held("log", Process(v))' = {}
    BY DEF WriterInv
  <2>1. CASE v = w
    <3>1. Process(v) = q /\ fd'[v] = fd[w]
      BY <1>1, <2>1 DEF q
    <3>2. QED
      BY <1>2, <1>5, <1>6, <1>7, <3>1 DEF Names
  <2>2. CASE v # w
    <3>1. at[v] \in {"write", "finish"} /\ fd'[v] = fd[v]
      BY <1>1, <2>2
    <3>2. Process(v) \in Processes /\ Process(v) # q
      BY <1>3, <2>2, <3>1, OneProcess
    <3>3. QED
      BY <1>2, <1>5, <3>1, <3>2 DEF NameInv, WriterInv, Names
  <2>3. QED
    BY <2>1, <2>2
<1>12. SuffixInv'
  <2>1. ASSUME NEW p \in Processes, p # q
        PROVE  /\ \A x \in Held("p2", p)', y \in (Held("p1", p) \cup Held("log", p))' : x < y
               /\ \A x \in Held("p1", p)', y \in Held("log", p)' : x < y
               /\ \A x \in Kept(p)' : x .. wrote'[p] \subseteq Kept(p)'
    BY <1>4, <1>5, <1>8, <2>1 DEF NameInv, SuffixInv, Names
  <2>2. /\ \A x \in Held("p2", q), y \in Held("p1", q) \cup Held("log", q) : x < y
        /\ \A x \in Held("p1", q), y \in Held("log", q) : x < y
        /\ \A x \in Kept(q) : x .. k \subseteq Kept(q)
    BY <1>3, <1>4 DEF NameInv, SuffixInv
  <2>3. \A x \in 1 .. k : x < k + 1
    OBVIOUS
  <2>4. /\ \A x \in Held("p2", q)', y \in (Held("p1", q) \cup Held("log", q))' : x < y
        /\ \A x \in Held("p1", q)', y \in Held("log", q)' : x < y
    BY <1>5, <1>6, <1>7, <2>2, <2>3 DEF Names
  <2>5. ASSUME NEW x \in Kept(q)' PROVE x .. k + 1 \subseteq Kept(q)'
    <3>1. Kept(q) \subseteq 1 .. k
      BY <1>5 DEF Kept, Names
    <3>2. CASE x = k + 1
      <4>1. x .. k + 1 = {k + 1}
        BY <3>2
      <4>2. QED
        BY <1>8, <4>1
    <3>3. CASE x \in Kept(q)
      <4>1. \A y \in x .. k + 1 : y = k + 1 \/ y \in x .. k
        BY <3>1, <3>3
      <4>2. QED
        BY <1>8, <2>2, <3>3, <4>1
    <3>4. QED
      BY <1>8, <3>2, <3>3
  <2>6. QED
    BY <1>4, <2>1, <2>4, <2>5 DEF SuffixInv
<1>13. LossInv'
  <2>1. Lost' => \E n \in Names : Full(n)'
    BY <1>5, <1>9 DEF NameInv, LossInv
  <2>2. ASSUME Smooth'
        PROVE  /\ dir'["p2"] # None => dir'["p1"] # None \/ \E v \in Writers : at'[v] = "shift"
               /\ Lost' => \/ Full("p1")' /\ Full("p2")'
                           \/ Full("p1")' /\ \E v \in Writers : at'[v] = "shift1"
                           \/ Full("p2")' /\ \E v \in Writers : at'[v] = "shift"
    BY <1>1, <1>2, <1>5, <1>9, <2>2 DEF NameInv, LossInv, Smooth, Names
  <2>3. QED
    BY <2>1, <2>2 DEF LossInv
<1>14. QED
  BY <1>10, <1>11, <1>12, <1>13 DEF NameInv

-----------------------------------------------------------------------------
\* A step that does not mark what is left as unknown keeps the order of the names.
LEMMA NamesNext ==
  ASSUME DirTypes, WriterTypes, DataTypes, NumberInv, NameInv, [Next]_vars, Calm'
  PROVE  NameInv'
<1> USE DEF Rotating
<1>0. marks \subseteq marks'
  BY MarksStay
<1>1. ASSUME NEW w \in Writers, Stat(w) PROVE NameInv'
  <2>1. /\ at[w] = "idle" /\ UNCHANGED <<dir, data, fd, wrote>>
        /\ \/ Goto(w, "open")
           \/ /\ Goto(w, "remove") /\ ~(Len(Sees("log")) < MAX_LOG_BYTES)
              /\ Mark("raced", \E v \in Strangers(w) : Rotating(v))
    BY <1>1 DEF Stat
  <2>2. CASE Goto(w, "open")
    <3>1. \A v \in Writers : at'[v] = IF v = w THEN "open" ELSE at[v]
      BY <2>2 DEF Goto, WriterTypes
    <3>2. QED
      BY <1>0, <2>1, <3>1, NamesRest DEF NameInv, RotationInv
  <2>3. CASE /\ Goto(w, "remove") /\ ~(Len(Sees("log")) < MAX_LOG_BYTES)
             /\ Mark("raced", \E v \in Strangers(w) : Rotating(v))
    <3>1. \A v \in Writers : at'[v] = IF v = w THEN "remove" ELSE at[v]
      BY <2>3 DEF Goto, WriterTypes
    <3>2. Full("log")
      <4>1. dir["log"] # None
        BY <2>3 DEF Sees
      <4>2. Len(data[dir["log"]]) \in Nat
        BY <4>1, FilesExist
      <4>3. QED
        BY <2>3, <4>1, <4>2 DEF Full, Sees
    <3>3. \A v \in Writers : ~Rotating(v)
      <4>1. \A v \in Strangers(w) : ~Rotating(v)
        BY <2>3 DEF Mark, Calm
      <4>2. \A v \in Process(w) : ~Rotating(v)
        BY <1>1 DEF Stat, Unlocked
      <4>3. QED
        BY <4>1, <4>2 DEF Strangers
    <3>4. QED
      BY <1>0, <2>1, <3>1, <3>2, <3>3, NamesRest
  <2>4. QED
    BY <2>1, <2>2, <2>3
<1>2. ASSUME NEW w \in Writers, OpenFails(w) \/ WriteFails(w) PROVE NameInv'
  <2>1. /\ at[w] \in {"open", "write", "finish"} /\ UNCHANGED <<dir, data, wrote, marks>>
        /\ \A v \in Writers : at'[v] = IF v = w THEN "idle" ELSE at[v]
        /\ \A v \in Writers : v # w => fd'[v] = fd[v]
    BY <1>2 DEF OpenFails, WriteFails, Goto, WriterTypes
  <2>2. QED
    BY <1>0, <2>1, NamesRest DEF NameInv, RotationInv
<1>3. ASSUME NEW p \in Processes, Kill(p) PROVE NameInv'
  <2>1. \A v \in Writers :
          /\ at'[v] = IF v \in p THEN "dead" ELSE at[v]
          /\ fd'[v] = IF v \in p THEN None ELSE fd[v]
    BY <1>3 DEF Kill
  <2>2. /\ UNCHANGED <<dir, data, wrote>>
        /\ Smooth' => ~\E w \in p : Rotating(w)
    BY <1>3 DEF Kill, Mark, Smooth
  <2>3. QED
    BY <1>0, <2>1, <2>2, NamesRest DEF NameInv, RotationInv
<1>4. CASE UNCHANGED vars
  BY <1>0, <1>4, NamesRest DEF vars, NameInv, RotationInv
<1>5. ASSUME NEW w \in Writers, RemoveOldest(w) PROVE NameInv'
  <2>1. /\ at[w] = "remove" /\ Goto(w, "shift1") /\ UNCHANGED <<data, fd, wrote>>
        /\ \/ dir' = [dir EXCEPT !["p2"] = None] /\ Mark("raced", InUse(w, "p2"))
           \/ UNCHANGED dir /\ Stays("p2")
    BY <1>5 DEF RemoveOldest
  <2>2. CASE dir' = [dir EXCEPT !["p2"] = None] /\ Mark("raced", InUse(w, "p2"))
    <3>1. ~InUse(w, "p2") /\ marks' = marks
      BY <2>2 DEF Mark, Calm
    <3>2. QED
      BY <2>1, <2>2, <3>1, NamesRemove
  <2>3. CASE UNCHANGED dir /\ Stays("p2")
    <3>1. /\ at'[w] = "shift1" /\ Full("log")
          /\ \A v \in Writers : v # w => ~Rotating(v) /\ at'[v] = at[v]
      BY <2>1, RotatesAlone DEF NameInv, RotationInv
    <3>2. dir["p2"] = None \/ "p2" \in marks'
      BY <2>3 DEF Stays, Mark
    <3>3. QED
      BY <1>0, <2>1, <2>3, <3>1, <3>2, NamesRest
  <2>4. QED
    BY <2>1, <2>2, <2>3
<1>6. ASSUME NEW w \in Writers, Rename(w, "shift1", "p1", "p2", "shift") PROVE NameInv'
  <2>1. /\ at[w] = "shift1" /\ Goto(w, "shift") /\ UNCHANGED <<data, fd, wrote>>
        /\ \/ dir' = Renamed("p1", "p2") /\ Mark("raced", dir["p1"] # None /\ InUse(w, "p2"))
           \/ UNCHANGED dir /\ Stays("p1")
    BY <1>6 DEF Rename
  <2>2. CASE dir' = Renamed("p1", "p2") /\ Mark("raced", dir["p1"] # None /\ InUse(w, "p2"))
    <3>1. (dir["p1"] # None => ~InUse(w, "p2")) /\ marks' = marks
      BY <2>2 DEF Mark, Calm
    <3>2. QED
      BY <2>1, <2>2, <3>1, NamesShiftOlder
  <2>3. CASE UNCHANGED dir /\ Stays("p1")
    <3>1. /\ at'[w] = "shift" /\ Full("log")
          /\ \A v \in Writers : v # w => ~Rotating(v) /\ at'[v] = at[v]
      BY <2>1, RotatesAlone DEF NameInv, RotationInv
    <3>2. dir["p1"] = None \/ "p1" \in marks'
      BY <2>3 DEF Stays, Mark
    <3>3. dir["p1"] = None \/ dir["p2"] = None
      BY <1>0, <2>1, <3>2 DEF NameInv, RotationInv, Calm
    <3>4. Smooth' => dir["p1"] = None
      BY <3>2 DEF Smooth
    <3>5. QED
      BY <1>0, <2>1, <2>3, <3>1, <3>2, <3>3, <3>4, NamesRest
  <2>4. QED
    BY <2>1, <2>2, <2>3
<1>7. ASSUME NEW w \in Writers, Rename(w, "shift", "log", "p1", "open") PROVE NameInv'
  <2>1. /\ at[w] = "shift" /\ Goto(w, "open") /\ UNCHANGED <<data, fd, wrote>>
        /\ \/ dir' = Renamed("log", "p1") /\ Mark("raced", dir["log"] # None /\ InUse(w, "p1"))
           \/ UNCHANGED dir /\ Stays("log")
    BY <1>7 DEF Rename
  <2>2. CASE dir' = Renamed("log", "p1") /\ Mark("raced", dir["log"] # None /\ InUse(w, "p1"))
    <3>1. (dir["log"] # None => ~InUse(w, "p1")) /\ marks' = marks
      BY <2>2 DEF Mark, Calm
    <3>2. QED
      BY <2>1, <2>2, <3>1, NamesShiftCurrent
  <2>3. CASE UNCHANGED dir /\ Stays("log")
    <3>1. /\ at'[w] = "open" /\ Full("log")
          /\ \A v \in Writers : v # w => ~Rotating(v) /\ at'[v] = at[v]
      BY <2>1, RotatesAlone DEF NameInv, RotationInv
    <3>2. ~Smooth'
      BY <2>3, <3>1 DEF Stays, Mark, Smooth, Full
    <3>3. QED
      BY <1>0, <2>1, <2>3, <3>1, <3>2, NamesRest
  <2>4. QED
    BY <2>1, <2>2, <2>3
<1>8. QED
  BY <1>1, <1>2, <1>3, <1>4, <1>5, <1>6, <1>7, NamesOpen, NamesWrite DEF Next, Log, Shift

\* What the invariant says of the pieces that are left, in the words of NewestKept.
LEMMA NewestFollows ==
  ASSUME DirTypes, WriterTypes, DataTypes, NewestInv
  PROVE  NewestKept
<1> SUFFICES ASSUME Calm
             PROVE  /\ \A p \in Processes :
                         /\ \A n \in Names : \A j, k \in Places(Sees(n), p) :
                              j < k => Sees(n)[j].no < Sees(n)[k].no
                         /\ \A x \in Held("p2", p), y \in Held("p1", p) \cup Held("log", p) : x < y
                         /\ \A x \in Held("p1", p), y \in Held("log", p) : x < y
                         /\ \A x \in Kept(p) : x .. wrote[p] \subseteq Kept(p)
                    /\ \/ Sum >= MAX_LOG_BYTES * (IF Smooth THEN 2 ELSE 1)
                       \/ \A p \in Processes : Kept(p) = 1 .. wrote[p]
  BY DEF NewestKept, Calm, Smooth
<1>1. NumberInv /\ NameInv
  BY DEF NewestInv
<1>2. ASSUME NEW p \in Processes, NEW n \in Names, NEW j \in Places(Sees(n), p),
             NEW k \in Places(Sees(n), p), j < k
      PROVE  Sees(n)[j].no < Sees(n)[k].no
  <2>1. CASE dir[n] = None
    BY <2>1 DEF Sees, Places
  <2>2. CASE dir[n] # None
    <3>1. dir[n] \in 1 .. Len(data) /\ Sees(n) = data[dir[n]]
      BY <2>2 DEF DirTypes, DataTypes, Sees
    <3>2. QED
      BY <1>1, <1>2, <3>1 DEF NumberInv
  <2>3. QED
    BY <2>1, <2>2
<1>3. ASSUME Lost PROVE Sum >= MAX_LOG_BYTES * (IF Smooth THEN 2 ELSE 1)
  <2>1. \A n \in Names : Len(Sees(n)) \in Nat /\ (Full(n) => Len(Sees(n)) >= MAX_LOG_BYTES)
    <3>1. \A n \in Names : dir[n] # None => dir[n] \in 1 .. Len(data)
      BY DEF DirTypes, DataTypes
    <3>2. QED
      BY <3>1, FilesExist DEF Sees, Full
  <2>2. CASE ~Smooth
    <3>1. \E n \in Names : Full(n)
      BY <1>1, <1>3 DEF NameInv, LossInv
    <3>2. QED
      BY <2>1, <2>2, <3>1 DEF Sum, Names
  <2>3. CASE Smooth
    <3>1. \E m, n \in Names : m # n /\ Full(m) /\ Full(n)
      BY <1>1, <1>3, <2>3 DEF NameInv, LossInv, RotationInv, Rotating, Names
    <3>2. Sum >= MAX_LOG_BYTES + MAX_LOG_BYTES
      BY <2>1, <3>1 DEF Sum, Names
    <3>3. QED
      BY <2>3, <3>2
  <2>4. QED
    BY <2>2, <2>3
<1>4. QED
  BY <1>1, <1>2, <1>3 DEF NameInv, SuffixInv, Lost

(* What the three files hold of a process is the end of what it wrote, in order,   *)
(* and nothing goes before two full files are there, or one after a death in a     *)
(* rotation or a renaming that failed, as long as no two processes rotate at once, *)
(* none removes a file into which another is writing and not both the removal of   *)
(* the oldest file and the renaming of the middle one fail (logging.rs:55-65).     *)
THEOREM NewestAreKept == Spec => []NewestKept
<1>1. Init => NewestInv
  <2>1. ASSUME Init PROVE NumberInv
    BY <2>1 DEF Init, NumberInv
  <2>2. ASSUME Init PROVE NameInv
    <3>1. /\ \A n \in Names : dir[n] = None
          /\ \A w \in Writers : at[w] = "idle"
          /\ \A p \in Processes : wrote[p] = 0
      BY <2>2 DEF Init
    <3>2. \A n \in Names : ~Full(n) /\ \A p \in Processes : Held(n, p) = {}
      BY <3>1, NoFile
    <3>3. \A p \in Processes : Kept(p) = {}
      BY <3>2 DEF Kept, Names
    <3>4. ~Lost
      BY <3>1, <3>3 DEF Lost
    <3>5. QED
      BY <3>1, <3>2, <3>3, <3>4
      DEF NameInv, RotationInv, WriterInv, SuffixInv, LossInv, Rotating, Names
  <2>3. QED
    BY <2>1, <2>2 DEF NewestInv
<1>2. DirTypes /\ WriterTypes /\ DataTypes /\ NewestInv /\ [Next]_vars
        => (DirTypes /\ WriterTypes /\ DataTypes /\ NewestInv)'
  <2> SUFFICES ASSUME DirTypes, WriterTypes, DataTypes, NewestInv, [Next]_vars
               PROVE  (DirTypes /\ WriterTypes /\ DataTypes /\ NewestInv)'
    OBVIOUS
  <2>1. Calm' => Calm
    BY MarksStay DEF Calm
  <2>2. NumberInv'
    BY NumberNext DEF NewestInv
  <2>3. Calm' => NameInv'
    BY <2>1, NamesNext DEF NewestInv
  <2>4. QED
    BY <2>2, <2>3, TypeNext DEF NewestInv
<1>3. DirTypes /\ WriterTypes /\ DataTypes /\ NewestInv => NewestKept
  BY NewestFollows
<1>4. QED
  BY <1>1, <1>2, <1>3, TypeInit, PTL DEF Spec
=============================================================================
