------------------------------ MODULE Logging ------------------------------
(***************************************************************************)
(* The log of logging.rs: every zcc process appends to one file under a    *)
(* mutex of its own and rotates it by three operations on the directory,   *)
(* against which the mutex does not protect other processes.  The handle   *)
(* is not buffered, so writeln! hands the operating system one piece of    *)
(* the record after the other; two of them stand for all here, and the     *)
(* length of a file is counted in pieces.  Every call may fail, and log()  *)
(* ignores all of their errors.                                            *)
(*                                                                         *)
(* A definition whose comment starts with "Slip" is not the code's: it is  *)
(* the one that follows it with a mistake, put in its place to see that a  *)
(* property notices.                                                       *)
(***************************************************************************)
EXTENDS Integers, Sequences, FiniteSets

CONSTANTS
  Processes,      \* the processes, each the set of its writers (threads)
  MAX_LOG_BYTES,  \* a file of this length is rotated
  MaxRecords      \* bound on the records ever begun

ASSUME ProcessAssumption ==
  /\ IsFiniteSet(Processes)
  /\ \A p \in Processes : IsFiniteSet(p)
  /\ \A p, q \in Processes : p # q => p \cap q = {}

ASSUME BoundAssumption == MAX_LOG_BYTES \in Nat \ {0} /\ MaxRecords \in Nat

Writers == UNION Processes
Process(w) == CHOOSE p \in Processes : w \in p
Names == {"log", "p1", "p2"}  \* zcc.log, zcc.log.1 and zcc.log.2
None == 0                     \* no file has this name

VARIABLES
  dir,   \* dir[n]: the file that name n stands for
  data,  \* data[i]: the pieces in file i, open or not, linked or not
  at,    \* at[w]: where writer w is in log()
  fd     \* fd[w]: the file it has open

\* History.
VARIABLES
  begun,  \* how many records were begun
  wrote,  \* wrote[p]: how many pieces p has written; each has its number in them
  broken, \* the pieces whose record could not be ended
  marks   \* "raced": two rotations overlapped or removed a file that was being
          \* written; "cut": a process died in a rotation; a name: the file of that
          \* name stayed in place because a call of a rotation failed

vars == <<dir, data, at, fd, begun, wrote, broken, marks>>

-----------------------------------------------------------------------------
Rotating(w) == at[w] \in {"remove", "shift1", "shift"}
Sees(n) == IF dir[n] = None THEN <<>> ELSE data[dir[n]]
Strangers(w) == Writers \ Process(w)

\* Only p's own threads wait for its mutex.
Unlocked(w) == \A v \in Process(w) : at[v] \in {"idle", "dead"}

\* Another process has the file of this name open.
InUse(w, n) == dir[n] # None /\ \E v \in Strangers(w) : fd[v] = dir[n]

Mark(m, cond) == marks' = IF cond THEN marks \cup {m} ELSE marks
Stays(n) == Mark(n, dir[n] # None)

Goto(w, stage) == at' = [at EXCEPT ![w] = stage]

\* Slip: no mutex.
StatUnlocked(w) ==
  /\ at[w] = "idle"
  /\ begun < MaxRecords
  /\ begun' = begun + 1
  /\ Goto(w, IF Len(Sees("log")) < MAX_LOG_BYTES THEN "open" ELSE "remove")
  /\ UNCHANGED <<dir, data, fd, wrote, broken, marks>>

\* Slip: one byte more than the maximum before the file is rotated.
StatLate(w) ==
  /\ at[w] = "idle"
  /\ Unlocked(w)
  /\ begun < MaxRecords
  /\ begun' = begun + 1
  /\ Goto(w, IF Len(Sees("log")) <= MAX_LOG_BYTES THEN "open" ELSE "remove")
  /\ UNCHANGED <<dir, data, fd, wrote, broken, marks>>

\* The mutex, and the metadata that decide whether the file is rotated: not if they
\* cannot be had.
Stat(w) ==
  /\ at[w] = "idle"
  /\ Unlocked(w)
  /\ begun < MaxRecords
  /\ begun' = begun + 1
  /\ IF Len(Sees("log")) < MAX_LOG_BYTES
     THEN Goto(w, "open") /\ UNCHANGED marks
     ELSE \/ /\ Goto(w, "remove")
             /\ Mark("raced", \E v \in Strangers(w) : Rotating(v))
          \/ Goto(w, "open") /\ Stays("log")
  /\ UNCHANGED <<dir, data, fd, wrote, broken>>

\* remove_file(p2), which may fail.
RemoveOldest(w) ==
  /\ at[w] = "remove"
  /\ Goto(w, "shift1")
  /\ \/ dir' = [dir EXCEPT !["p2"] = None] /\ Mark("raced", InUse(w, "p2"))
     \/ UNCHANGED dir /\ Stays("p2")
  /\ UNCHANGED <<data, fd, begun, wrote, broken>>

\* rename(from, to) replaces what was there, if there is something to rename.
Renamed(from, to) ==
  IF dir[from] = None THEN dir ELSE [dir EXCEPT ![to] = dir[from], ![from] = None]

\* It may fail as well.
Rename(w, stage, from, to, next) ==
  /\ at[w] = stage
  /\ Goto(w, next)
  /\ \/ dir' = Renamed(from, to) /\ Mark("raced", dir[from] # None /\ InUse(w, to))
     \/ UNCHANGED dir /\ Stays(from)
  /\ UNCHANGED <<data, fd, begun, wrote, broken>>

\* Slip: the current file is moved before the one whose name it takes.
ShiftNewestFirst(w) ==
  Rename(w, "shift1", "log", "p1", "shift") \/ Rename(w, "shift", "p1", "p2", "open")

Shift(w) ==
  Rename(w, "shift1", "p1", "p2", "shift") \/ Rename(w, "shift", "log", "p1", "open")

\* open(create, append).
Open(w) ==
  /\ at[w] = "open"
  /\ Goto(w, "write")
  /\ IF dir["log"] # None
     THEN fd' = [fd EXCEPT ![w] = dir["log"]] /\ UNCHANGED <<dir, data>>
     ELSE /\ data' = Append(data, <<>>)
          /\ dir' = [dir EXCEPT !["log"] = Len(data) + 1]
          /\ fd' = [fd EXCEPT ![w] = Len(data) + 1]
  /\ UNCHANGED <<begun, wrote, broken, marks>>

OpenFails(w) ==
  /\ at[w] = "open"
  /\ Goto(w, "idle")
  /\ UNCHANGED <<dir, data, fd, begun, wrote, broken, marks>>

\* One piece of the record; after the last the file is closed and the mutex free.
Write(w) ==
  LET piece == [by |-> w, part |-> IF at[w] = "write" THEN 1 ELSE 2,
                no |-> wrote[Process(w)] + 1]
  IN  /\ at[w] \in {"write", "finish"}
      /\ Goto(w, IF at[w] = "write" THEN "finish" ELSE "idle")
      /\ data' = [data EXCEPT ![fd[w]] = Append(@, piece)]
      /\ wrote' = [wrote EXCEPT ![Process(w)] = @ + 1]
      /\ fd' = IF at[w] = "finish" THEN [fd EXCEPT ![w] = None] ELSE fd
      /\ UNCHANGED <<dir, begun, broken, marks>>

\* The error of a write is ignored as well, and what is left of the record not written.
WriteFails(w) ==
  /\ at[w] \in {"write", "finish"}
  /\ Goto(w, "idle")
  /\ fd' = [fd EXCEPT ![w] = None]
  /\ broken' = IF at[w] = "write" THEN broken
               ELSE broken \cup {[by |-> w, part |-> 1, no |-> wrote[Process(w)]]}
  /\ UNCHANGED <<dir, data, begun, wrote, marks>>

\* A process dies, in the middle of a rotation or of a record perhaps.
Kill(p) ==
  /\ \E w \in p : at[w] \notin {"idle", "dead"}
  /\ at' = [w \in Writers |-> IF w \in p THEN "dead" ELSE at[w]]
  /\ fd' = [w \in Writers |-> IF w \in p THEN None ELSE fd[w]]
  /\ Mark("cut", \E w \in p : Rotating(w))
  /\ UNCHANGED <<dir, data, begun, wrote, broken>>

-----------------------------------------------------------------------------
Init ==
  /\ dir = [n \in Names |-> None]
  /\ data = <<>>
  /\ at = [w \in Writers |-> "idle"]
  /\ fd = [w \in Writers |-> None]
  /\ begun = 0
  /\ wrote = [p \in Processes |-> 0]
  /\ broken = {}
  /\ marks = {}

Log(w) ==
  \/ Stat(w) \/ RemoveOldest(w) \/ Shift(w)
  \/ Open(w) \/ OpenFails(w) \/ Write(w) \/ WriteFails(w)

Next == (\E w \in Writers : Log(w)) \/ (\E p \in Processes : Kill(p))

Spec == Init /\ [][Next]_vars

-----------------------------------------------------------------------------
(* Properties.                                                             *)

Pieces == [by : Writers, part : {1, 2}, no : Nat]
Stages == {"idle", "remove", "shift1", "shift", "open", "write", "finish", "dead"}

\* Two names never stand for one file, and a process is in log() once at a time.
TypeOK ==
  /\ dir \in [Names -> 0 .. Len(data)]
  /\ \A m, n \in Names : dir[m] = dir[n] => m = n \/ dir[m] = None
  /\ data \in Seq(Seq(Pieces))
  /\ at \in [Writers -> Stages]
  /\ fd \in [Writers -> 0 .. Len(data)]
  /\ \A w \in Writers : fd[w] # None <=> at[w] \in {"write", "finish"}
  /\ \A p \in Processes : \A v, w \in p : {at[v], at[w]} \cap {"idle", "dead"} = {} => v = w
  /\ begun \in 0 .. MaxRecords
  /\ wrote \in [Processes -> Nat]
  /\ broken \subseteq Pieces
  /\ marks \subseteq {"raced", "cut"} \cup Names

\* However rotations and records of several processes interleave, no file grows past
\* the maximum by more than one record of each process, as long as a full log has never
\* stayed in place because it could not be looked at or renamed: log() goes on to write
\* to it (logging.rs:34 and 48-65).
SizeBound ==
  "log" \notin marks =>
    \A i \in 1 .. Len(data) : Len(data[i]) <= MAX_LOG_BYTES - 1 + 2 * Cardinality(Processes)

\* Where the pieces of process p are in the sequence s.
Places(s, p) == {j \in 1 .. Len(s) : s[j].by \in p}

\* The records of one process are never torn apart or run into each other by its
\* threads: in each file its pieces alternate, and a record lacks its end only if it is
\* the last, or if the end could not be written, for then log() returns as if it had
\* been and the next record follows on the same line (logging.rs:33-46).
LinesWhole ==
  \A i \in 1 .. Len(data), p \in Processes :
    LET mine == Places(data[i], p)
    IN  /\ \A k \in mine : data[i][k].part = 1 \/ \E j \in mine : j < k
        /\ \A j, k \in mine :
             j < k /\ (\A l \in mine : l <= j \/ k <= l) =>
               IF data[i][k].part = 1
               THEN data[i][j].part = 2 \/ data[i][j] \in broken
               ELSE /\ data[i][j].part = 1 /\ data[i][j] \notin broken
                    /\ data[i][j].by = data[i][k].by

\* The numbers of the pieces of process p in the file of this name, and in all three.
Held(n, p) == {Sees(n)[j].no : j \in Places(Sees(n), p)}
Kept(p) == Held("p2", p) \cup Held("p1", p) \cup Held("log", p)

Sum == Len(Sees("p2")) + Len(Sees("p1")) + Len(Sees("log"))

\* What the three files hold of a process, read from the oldest to the youngest, is the
\* end of what it wrote, in order, and when something has gone at least two full files
\* are left, or one if a rotation was cut short by a death or could not rename a file:
\* at every moment of a rotation, unless two processes rotated at once, one removed a
\* file into which another was writing, or the oldest file could not be removed and the
\* middle one not renamed (logging.rs:55-65).
NewestKept ==
  ~("raced" \in marks \/ {"p1", "p2"} \subseteq marks) =>
    /\ \A p \in Processes :
         /\ \A n \in Names : \A j, k \in Places(Sees(n), p) :
              j < k => Sees(n)[j].no < Sees(n)[k].no
         /\ \A x \in Held("p2", p), y \in Held("p1", p) \cup Held("log", p) : x < y
         /\ \A x \in Held("p1", p), y \in Held("log", p) : x < y
         /\ \A x \in Kept(p) : x .. wrote[p] \subseteq Kept(p)
    /\ \/ Sum >= MAX_LOG_BYTES * (IF {"cut", "log", "p1"} \cap marks # {} THEN 1 ELSE 2)
       \/ \A p \in Processes : Kept(p) = 1 .. wrote[p]
=============================================================================
