--------------------------- MODULE InstallProofs ----------------------------
(* Proofs about module Install, for files of any length and any number of   *)
(* saves.                                                                   *)
EXTENDS Install, TLAPS, WellFoundedInduction

-----------------------------------------------------------------------------
(* Induction.  A set of sequences that has the empty one and with each its  *)
(* extensions has all: otherwise one of the shortest that are missing would *)
(* extend one that is there.                                                *)

\* A set of naturals has a least element.
LEMMA LeastNatural ==
  ASSUME NEW T \in SUBSET Nat, T # {}
  PROVE  \E x \in T : \A y \in T : x <= y
<1>1. PICK x \in T : \A y \in T : <<y, x>> \notin OpToRel(<,Nat)
  BY WFMin, NatLessThanWellFounded, Zenon
<1>2. \A y \in T : ~(y < x)
  BY <1>1 DEF OpToRel
<1>3. QED
  BY <1>2

\* A sequence that is not empty is a shorter one and a last element.
LEMMA LastElement ==
  ASSUME NEW E, NEW s \in Seq(E), s # <<>>
  PROVE  \E t \in Seq(E), v \in E : s = Append(t, v) /\ Len(s) = Len(t) + 1
<1>1. PICK n \in Nat : n + 1 = Len(s)
  <2>1. Len(s) \in Nat /\ Len(s) # 0
    OBVIOUS
  <2>2. Len(s) - 1 \in Nat /\ (Len(s) - 1) + 1 = Len(s)
    BY <2>1
  <2>3. QED
    BY <2>2
<1> DEFINE t == [i \in 1 .. n |-> s[i]]
<1>2. t \in Seq(E) /\ Len(t) = n
  <2>1. \A i \in 1 .. n : s[i] \in E
    BY <1>1
  <2>2. QED
    BY <2>1
<1>3. s[n + 1] \in E
  BY <1>1
<1>4. s = Append(t, s[n + 1])
  BY <1>1, <1>2, <1>3
<1>5. QED
  BY <1>1, <1>2, <1>3, <1>4

LEMMA SequenceInduction ==
  ASSUME NEW E, NEW T \in SUBSET Seq(E), <<>> \in T,
         \A s \in T, v \in E : Append(s, v) \in T
  PROVE  T = Seq(E)
<1> DEFINE lengths == {n \in Nat : \E s \in Seq(E) : s \notin T /\ Len(s) = n}
<1>1. SUFFICES ASSUME NEW r \in Seq(E), r \notin T PROVE FALSE
  OBVIOUS
<1>2. lengths # {}
  <2>1. Len(r) \in Nat
    OBVIOUS
  <2>2. QED
    BY <1>1, <2>1
<1>3. PICK n \in lengths : \A m \in lengths : n <= m
  BY <1>2, LeastNatural
<1>4. PICK s \in Seq(E) : s \notin T /\ Len(s) = n
  BY <1>3
<1>5. PICK t \in Seq(E), v \in E : s = Append(t, v) /\ Len(s) = Len(t) + 1
  BY <1>4, LastElement
<1>6. t \notin T
  BY <1>4, <1>5
<1>7. Len(t) \in Nat /\ n \in Nat
  BY <1>3
<1>8. Len(t) \in lengths
  BY <1>6, <1>7
<1>9. QED
  BY <1>3, <1>4, <1>5, <1>7, <1>8

-----------------------------------------------------------------------------
(* What Only does.  It has to be known that its recursive definition        *)
(* defines something: one more step of it can always be taken.              *)

Step(g, s, S, n) ==
  IF n = 0 THEN <<>> ELSE IF s[n] \in S THEN Append(g[n - 1], s[n]) ELSE g[n - 1]

Filters(g, s, S, n) == g = [m \in 0 .. n |-> Step(g, s, S, m)]

LEMMA FilterSteps ==
  ASSUME NEW g, NEW s, NEW S, NEW n \in Nat, Filters(g, s, S, n), NEW m \in 0 .. n
  PROVE  g[m] = Step(g, s, S, m)
<1> DEFINE f == [k \in 0 .. n |-> Step(g, s, S, k)]
<1>1. g = f
  BY DEF Filters
<1>2. f[m] = Step(g, s, S, m)
  OBVIOUS
<1> HIDE DEF f
<1>3. QED
  BY <1>1, <1>2

LEMMA FilterExists ==
  ASSUME NEW s, NEW S, NEW n \in Nat
  PROVE  \E g : Filters(g, s, S, n)
<1> DEFINE T == {m \in Nat : ~\E g : Filters(g, s, S, m)}
<1>1. SUFFICES ASSUME T # {} PROVE FALSE
  OBVIOUS
<1>2. PICK m \in T : \A k \in T : m <= k
  BY <1>1, LeastNatural
<1>3. m # 0
  <2> DEFINE g == [k \in 0 .. 0 |-> <<>>]
  <2>1. Filters(g, s, S, 0)
    BY DEF Filters, Step
  <2>2. QED
    BY <2>1
<1>4. m - 1 \in Nat /\ m - 1 \notin T
  BY <1>2, <1>3
<1>5. PICK g : Filters(g, s, S, m - 1)
  BY <1>4
<1> DEFINE h == [k \in 0 .. m |-> IF k = m THEN Step(g, s, S, m) ELSE g[k]]
<1>6. \A k \in 0 .. m - 1 : h[k] = g[k] /\ g[k] = Step(g, s, S, k)
  <2>1. \A k \in 0 .. m - 1 : k # m /\ k \in 0 .. m
    BY <1>4
  <2>2. QED
    BY <1>4, <1>5, <2>1, FilterSteps
<1>7. \A k \in 0 .. m : h[k] = Step(h, s, S, k)
  BY <1>3, <1>4, <1>6 DEF Step
<1>8. Filters(h, s, S, m)
  BY <1>7 DEF Filters
<1>9. QED
  BY <1>2, <1>8

\* What can be used of Only.
LEMMA OnlyFilters ==
  ASSUME NEW s, NEW S, Len(s) \in Nat
  PROVE  \E g : Filters(g, s, S, Len(s)) /\ Only(s, S) = g[Len(s)]
<1> DEFINE g == CHOOSE f : Filters(f, s, S, Len(s))
<1>1. Filters(g, s, S, Len(s))
  BY FilterExists
<1>2. Only(s, S) = g[Len(s)]
  BY DEF Only, Filters, Step
<1>3. QED
  BY <1>1, <1>2

LEMMA OnlyEmpty == ASSUME NEW S PROVE Only(<<>>, S) = <<>>
<1>1. PICK g : Filters(g, <<>>, S, 0) /\ Only(<<>>, S) = g[0]
  BY OnlyFilters
<1>2. QED
  BY <1>1 DEF Filters, Step

LEMMA OnlyAppend ==
  ASSUME NEW E, NEW s \in Seq(E), NEW v \in E, NEW S
  PROVE  Only(Append(s, v), S) = IF v \in S THEN Append(Only(s, S), v) ELSE Only(s, S)
<1>1. PICK n \in Nat : n = Len(s) /\ Len(Append(s, v)) = n + 1
  OBVIOUS
<1>2. PICK g : Filters(g, s, S, n) /\ Only(s, S) = g[n]
  BY <1>1, OnlyFilters
<1>3. PICK h : Filters(h, Append(s, v), S, n + 1) /\ Only(Append(s, v), S) = h[n + 1]
  <2>1. n + 1 \in Nat
    OBVIOUS
  <2>2. QED
    BY <1>1, <2>1, OnlyFilters
<1> DEFINE T == {m \in Nat : m <= n /\ g[m] # h[m]}
<1>4. T = {}
  <2>1. SUFFICES ASSUME T # {} PROVE FALSE
    OBVIOUS
  <2>2. PICK m \in T : \A k \in T : m <= k
    BY <2>1, LeastNatural
  <2>3. g[m] = Step(g, s, S, m) /\ h[m] = Step(h, Append(s, v), S, m)
    <3>1. m \in 0 .. n /\ m \in 0 .. n + 1 /\ n + 1 \in Nat
      BY <2>2
    <3>2. QED
      BY <1>2, <1>3, <3>1, FilterSteps
  <2>4. m # 0
    BY <2>2, <2>3 DEF Step
  <2>5. m - 1 \in Nat /\ m - 1 \notin T
    BY <2>2, <2>4
  <2>6. g[m - 1] = h[m - 1] /\ Append(s, v)[m] = s[m]
    BY <1>1, <2>2, <2>4, <2>5
  <2>7. QED
    BY <2>2, <2>3, <2>6 DEF Step
<1>5. g[n] = h[n]
  BY <1>4
<1>6. h[n + 1] = Step(h, Append(s, v), S, n + 1)
  BY <1>3, FilterSteps
<1>7. Append(s, v)[n + 1] = v
  BY <1>1
<1>8. QED
  BY <1>2, <1>3, <1>5, <1>6, <1>7 DEF Step

LEMMA AppendElement ==
  ASSUME NEW E, NEW s \in Seq(E), NEW v \in E
  PROVE  /\ Append(s, v) \in Seq(E) /\ Len(Append(s, v)) = Len(s) + 1
         /\ ToSet(Append(s, v)) = ToSet(s) \cup {v}
<1>1. PICK n \in Nat : n = Len(s)
  OBVIOUS
<1>2. /\ Append(s, v) \in Seq(E) /\ Len(Append(s, v)) = n + 1
      /\ Append(s, v)[n + 1] = v /\ \A i \in 1 .. n : Append(s, v)[i] = s[i]
      /\ DOMAIN Append(s, v) = 1 .. n + 1 /\ DOMAIN s = 1 .. n
  BY <1>1
<1>3. \A i : i \in 1 .. n + 1 <=> i \in 1 .. n \/ i = n + 1
  BY <1>1
<1>4. ToSet(Append(s, v)) = ToSet(s) \cup {v}
  BY <1>2, <1>3 DEF ToSet
<1>5. QED
  BY <1>1, <1>2, <1>4

\* What Only returns, what it leaves out and how long it is.
LEMMA OnlyElements ==
  ASSUME NEW E, NEW s \in Seq(E), NEW S \in SUBSET E
  PROVE  /\ Only(s, S) \in Seq(S)
         /\ Len(Only(s, S)) <= Len(s)
         /\ ToSet(Only(s, S)) = ToSet(s) \cap S
<1> DEFINE T == {t \in Seq(E) : /\ Only(t, S) \in Seq(S)
                                /\ Len(Only(t, S)) <= Len(t)
                                /\ ToSet(Only(t, S)) = ToSet(t) \cap S}
<1>1. <<>> \in T
  <2>1. ToSet(<<>>) = {} /\ <<>> \in Seq(S) /\ <<>> \in Seq(E) /\ Len(<<>>) = 0
    BY DEF ToSet
  <2>2. Only(<<>>, S) = <<>>
    BY OnlyEmpty
  <2>3. /\ Only(<<>>, S) \in Seq(S) /\ ToSet(Only(<<>>, S)) = ToSet(<<>>) \cap S
        /\ Len(Only(<<>>, S)) = 0
    BY <2>1, <2>2
  <2>4. QED
    BY <2>1, <2>3
<1>2. ASSUME NEW t \in T, NEW v \in E PROVE Append(t, v) \in T
  <2>1. /\ Append(t, v) \in Seq(E) /\ Len(Append(t, v)) = Len(t) + 1
        /\ ToSet(Append(t, v)) = ToSet(t) \cup {v} /\ Len(t) \in Nat
    BY AppendElement
  <2>2. CASE v \in S
    <3>1. Only(Append(t, v), S) = Append(Only(t, S), v)
      BY <2>2, OnlyAppend
    <3>2. /\ Append(Only(t, S), v) \in Seq(S) /\ Len(Only(t, S)) \in Nat
          /\ Len(Append(Only(t, S), v)) = Len(Only(t, S)) + 1
          /\ ToSet(Append(Only(t, S), v)) = ToSet(Only(t, S)) \cup {v}
      BY <2>2, AppendElement
    <3>3. Len(Only(Append(t, v), S)) <= Len(Append(t, v))
      BY <2>1, <3>1, <3>2
    <3>4. ToSet(Only(Append(t, v), S)) = ToSet(Append(t, v)) \cap S
      BY <2>1, <2>2, <3>1, <3>2
    <3>5. QED
      BY <2>1, <3>1, <3>2, <3>3, <3>4
  <2>3. CASE v \notin S
    <3>1. Only(Append(t, v), S) = Only(t, S) /\ Len(Only(t, S)) \in Nat
      BY <2>3, OnlyAppend
    <3>2. QED
      BY <2>1, <2>3, <3>1
  <2>4. QED
    BY <2>2, <2>3
<1>3. T = Seq(E)
  <2> HIDE DEF T
  <2>1. T \in SUBSET Seq(E)
    BY DEF T
  <2>2. QED
    BY <1>1, <1>2, <2>1, SequenceInduction
<1>4. QED
  BY <1>3

\* It is the sequence itself if that has nothing else, and empty if it has nothing of S.
LEMMA OnlyAll ==
  ASSUME NEW S, NEW s \in Seq(S)
  PROVE  Only(s, S) = s
<1> DEFINE T == {t \in Seq(S) : Only(t, S) = t}
<1>1. <<>> \in T
  BY OnlyEmpty
<1>2. ASSUME NEW t \in T, NEW v \in S PROVE Append(t, v) \in T
  BY OnlyAppend
<1>3. T = Seq(S)
  <2> HIDE DEF T
  <2>1. T \in SUBSET Seq(S)
    BY DEF T
  <2>2. QED
    BY <1>1, <1>2, <2>1, SequenceInduction
<1>4. QED
  BY <1>3

LEMMA OnlyNone ==
  ASSUME NEW E, NEW s \in Seq(E), NEW S, E \cap S = {}
  PROVE  Only(s, S) = <<>>
<1> DEFINE T == {t \in Seq(E) : Only(t, S) = <<>>}
<1>1. <<>> \in T
  BY OnlyEmpty
<1>2. ASSUME NEW t \in T, NEW v \in E PROVE Append(t, v) \in T
  BY OnlyAppend
<1>3. T = Seq(E)
  <2> HIDE DEF T
  <2>1. T \in SUBSET Seq(E)
    BY DEF T
  <2>2. QED
    BY <1>1, <1>2, <2>1, SequenceInduction
<1>4. QED
  BY <1>3

\* Of two sequences in a row it takes what it takes of each.
LEMMA OnlyConcat ==
  ASSUME NEW E, NEW s \in Seq(E), NEW r \in Seq(E), NEW S \in SUBSET E
  PROVE  Only(s \o r, S) = Only(s, S) \o Only(r, S)
<1> DEFINE T == {t \in Seq(E) : Only(s \o t, S) = Only(s, S) \o Only(t, S)}
<1>1. <<>> \in T
  <2>1. s \o <<>> = s /\ Only(s, S) \o <<>> = Only(s, S)
    BY OnlyElements
  <2>2. Only(<<>>, S) = <<>>
    BY OnlyEmpty
  <2>3. Only(s \o <<>>, S) = Only(s, S) \o Only(<<>>, S)
    BY <2>1, <2>2
  <2>4. <<>> \in Seq(E)
    OBVIOUS
  <2>5. QED
    BY <2>3, <2>4
<1>2. ASSUME NEW t \in T, NEW v \in E PROVE Append(t, v) \in T
  <2>1. s \o Append(t, v) = Append(s \o t, v) /\ Append(t, v) \in Seq(E)
    OBVIOUS
  <2> DEFINE u == s \o t
  <2>2. u \in Seq(E)
    OBVIOUS
  <2>3. Only(Append(u, v), S) = IF v \in S THEN Append(Only(u, S), v) ELSE Only(u, S)
    <3> HIDE DEF u
    <3>1. QED
      BY <2>2, OnlyAppend
  <2>4. CASE v \in S
    <3>1. Only(s \o Append(t, v), S) = Append(Only(s \o t, S), v)
      <4>1. Only(Append(s \o t, v), S) = Append(Only(s \o t, S), v)
        BY <2>4, <2>3
      <4>2. QED
        BY <2>1, <4>1, Zenon
    <3>2. Only(Append(t, v), S) = Append(Only(t, S), v)
      BY <2>4, OnlyAppend
    <3>3. Only(s, S) \in Seq(S) /\ Only(t, S) \in Seq(S)
      BY OnlyElements
    <3>4. Only(s, S) \o Append(Only(t, S), v) = Append(Only(s, S) \o Only(t, S), v)
      BY <2>4, <3>3
    <3>5. QED
      BY <2>1, <3>1, <3>2, <3>4
  <2>5. CASE v \notin S
    <3>1. Only(Append(s \o t, v), S) = Only(s \o t, S) /\ Only(Append(t, v), S) = Only(t, S)
      BY <2>5, <2>3, OnlyAppend
    <3>2. QED
      BY <2>1, <3>1, Zenon
  <2>6. QED
    BY <2>4, <2>5
<1>3. T = Seq(E)
  <2> HIDE DEF T
  <2>1. T \in SUBSET Seq(E)
    BY DEF T
  <2>2. QED
    BY <1>1, <1>2, <2>1, SequenceInduction
<1>4. QED
  BY <1>3

-----------------------------------------------------------------------------
(* The invariant.  The properties do not say what the array that is about   *)
(* to be written holds, which files the run is through with, and how the    *)
(* backup is related to the steps of a run.                                 *)

\* The user's entries that the code leaves alone, and those that it takes out.
Spared(f) == Foreign(f) \ Lookalikes(f)
Taken(f) == Emitted(f) \cup Lookalikes(f)

User(f, s) == Only(s, Spared(f))
Zcc(f, s) == Only(s, Emitted(f))
Counted(f, s) == Only(s, Taken(f))

\* What a run of the present subcommand leaves of zcc's entries.
Announced(f) == IF cmd = "install" THEN Ours(f) ELSE <<>>
AsAnnounced(f, s) == Zcc(f, s) = Announced(f) /\ Counted(f, s) = Announced(f)

Through(f) == at = "done" \/ (at # "idle" /\ cur = Order[2] /\ f = Order[1])

\* After n saves of the user's a list can be this long.
Short(f, s, n) ==
  /\ Len(User(f, s)) <= MaxEntries + n
  /\ Len(s) <= MaxEntries + n + Len(Ours(f))

IsText(f, t) ==
  /\ t.kind \in {"missing", "blank", "broken", "object", "array"}
  /\ t.list \in Seq(Entries(f))
  /\ t.kind # "array" => t.list = <<>>

RunTypes ==
  /\ cmd \in {"install", "uninstall"}
  /\ at \in {"idle", "done", "backup", "copying", "read", "truncate", "write"}
  /\ cur \in Files
  /\ arr \in Seq(Entries(cur))
  /\ arr # <<>> => at \in {"truncate", "write"}
  /\ saves \in 0 .. MaxSaves

FileTypes ==
  /\ DOMAIN file = Files /\ DOMAIN bak = Files /\ DOMAIN theirs = Files /\ DOMAIN marks = Files
  /\ \A f \in Files :
       /\ IsText(f, file[f])
       /\ bak[f].kind \in {"missing", "blank", "broken", "object", "array"}
       /\ marks[f] \subseteq {"torn", "cut", "unbacked", "edited", "overtaken"}
       /\ Short(f, file[f].list, saves)

ArrayInv ==
  at \in {"truncate", "write"} =>
    /\ Short(cur, arr, saves)
    /\ AsAnnounced(cur, arr)
    /\ marks[cur] \cap {"cut", "overtaken"} = {} => User(cur, arr) = UserPart(cur, theirs[cur])

ThroughInv ==
  \A f \in Files :
    Through(f) /\ "overtaken" \notin marks[f] => AsAnnounced(f, file[f].list)

\* Until there is a backup of it, the file is as the user left it; and a run that is
\* past the backup has one or found no file.
OriginalInv ==
  /\ at = "copying" => bak[cur] # Missing
  /\ \A f \in Files :
       marks[f] \cap {"torn", "edited", "unbacked", "overtaken"} = {} =>
         /\ theirs[f] \in
              {Missing, IF bak[f] = Missing \/ (at = "copying" /\ cur = f) THEN file[f] ELSE bak[f]}
         /\ cur = f /\ (at = "write" \/ (cmd = "install" /\ at \in {"read", "truncate"})) =>
              bak[f] # Missing \/ theirs[f] = Missing

InstallInv ==
  RunTypes /\ FileTypes /\ ArrayInv /\ UserEntriesKept /\ ThroughInv /\ OriginalInv

-----------------------------------------------------------------------------
(* What the code's predicates and the lists that it makes amount to.        *)

\* The predicates tell zcc's entries, and what looks like them, from the rest.
LEMMA MatchesTaken ==
  ASSUME NEW f \in Files
  PROVE  /\ \A v \in Emitted(f) : Matches(f, v)
         /\ \A v \in Lookalikes(f) : Matches(f, v)
         /\ \A v \in Spared(f) : ~Matches(f, v)
         /\ Emitted(f) \cap Foreign(f) = {}
         /\ Ours(f) \in Seq(Emitted(f)) /\ Len(Ours(f)) \in Nat
<1>1. CASE f = "tasks"
  <2> DEFINE t1 == Task("build", "make")
             t2 == Task("zcc-send", "make")
  <2>1. Ours(f) = <<zcc_task>> /\ Emitted(f) = {zcc_task} /\ Lookalikes(f) = {t2} /\ Foreign(f) = {t2, t1}
    <3>1. Ours(f) = <<zcc_task>>
      BY <1>1 DEF Ours
    <3>2. ToSet(<<zcc_task>>) = {zcc_task}
      BY DEF ToSet
    <3>3. QED
      BY <1>1, <3>1, <3>2 DEF Emitted, Foreign, Lookalikes
  <2>2. /\ zcc_task.label = "zcc-send" /\ t1.label = "build" /\ t2.label = "zcc-send"
        /\ zcc_task.command # t2.command
    BY DEF zcc_task, Task
  <2>3. \A v : Matches(f, v) <=> v.label = "zcc-send"
    BY <1>1 DEF Matches, is_zcc_task
  <2> HIDE DEF t1, t2
  <2>4. Spared(f) \subseteq {t1}
    BY <2>1 DEF Spared
  <2>5. Ours(f) \in Seq(Emitted(f)) /\ Len(Ours(f)) \in Nat
    BY <2>1
  <2>6. Emitted(f) \cap Foreign(f) = {}
    BY <2>1, <2>2
  <2>7. QED
    BY <2>1, <2>2, <2>3, <2>4, <2>5, <2>6
<1>2. CASE f = "keymap"
  <2> DEFINE b1 == Block("SendKeystrokes", "", "", "")
             b2 == Block("", "editor::Copy", "task::Spawn", "")
             b3 == Block("", "", "", "ToggleFocus")
             b4 == Block("task::Spawn", "", "", "")
             b5 == Block("", "", "task::Spawn", "ToggleFocus")
             u1 == Block("other", "", "", "ToggleFocus")
             u2 == Block("other", "editor::Copy", "task::Spawn", "")
             u3 == Block("other", "editor::Copy", "", "")
  <2>1. Ours(f) = <<b1, b2, b3>> /\ Legacy = {b4, b5}
    BY <1>2 DEF Ours, zcc_keymap_entries, Legacy
  <2>2. Lookalikes(f) = {u1, u2} /\ Foreign(f) = {u1, u2, u3}
    <3>1. Lookalikes(f) = {u1, u2} /\ Foreign(f) = Lookalikes(f) \cup {u3}
      BY <1>2 DEF Lookalikes, Foreign
    <3> HIDE DEF u1, u2, u3
    <3>2. QED
      BY <3>1
  <2>3. \A v \in {b1, b2, b3, b4, b5, u1, u2} : is_zcc_keymap_block(v)
    <3>1. /\ is_zcc_keymap_block(b1) /\ is_zcc_keymap_block(b2) /\ is_zcc_keymap_block(b3)
          /\ is_zcc_keymap_block(b4) /\ is_zcc_keymap_block(b5)
          /\ is_zcc_keymap_block(u1) /\ is_zcc_keymap_block(u2)
      BY DEF Block, is_zcc_keymap_block
    <3> HIDE DEF b1, b2, b3, b4, b5, u1, u2
    <3>2. QED
      BY <3>1
  <2>4. ~is_zcc_keymap_block(u3)
    BY DEF Block, is_zcc_keymap_block
  <2>5. /\ \A v \in {b1, b2, b3, b4, b5} : v.cmd_l # "other"
        /\ \A v \in {u1, u2, u3} : v.cmd_l = "other"
    <3>1. /\ b1.cmd_l # "other" /\ b2.cmd_l # "other" /\ b3.cmd_l # "other"
          /\ b4.cmd_l # "other" /\ b5.cmd_l # "other"
          /\ u1.cmd_l = "other" /\ u2.cmd_l = "other" /\ u3.cmd_l = "other"
      BY DEF Block
    <3> HIDE DEF b1, b2, b3, b4, b5, u1, u2, u3
    <3>2. QED
      BY <3>1
  <2> HIDE DEF b1, b2, b3, b4, b5, u1, u2, u3
  <2>6. ToSet(Ours(f)) = {b1, b2, b3}
    BY <2>1 DEF ToSet
  <2>7. Emitted(f) = {b1, b2, b3, b4, b5}
    BY <1>2, <2>1, <2>6 DEF Emitted
  <2>8. Ours(f) \in Seq(Emitted(f)) /\ Len(Ours(f)) \in Nat
    BY <2>1, <2>7
  <2>9. Emitted(f) \cap Foreign(f) = {}
    BY <2>2, <2>5, <2>7, Zenon
  <2>10. \A v : Matches(f, v) <=> is_zcc_keymap_block(v)
    BY <1>2 DEF Matches
  <2>11. \A v \in Spared(f) : v = u3
    BY <2>2 DEF Spared
  <2>12. \A v \in Emitted(f) \cup Lookalikes(f) : Matches(f, v)
    BY <2>2, <2>3, <2>7, <2>10
  <2>13. QED
    BY <2>4, <2>8, <2>9, <2>10, <2>11, <2>12
<1>3. QED
  BY <1>1, <1>2 DEF Files

\* The sets of entries, as the predicates and the properties divide them.
LEMMA MatchesEmitted ==
  ASSUME NEW f \in Files
  PROVE  /\ Entries(f) = Emitted(f) \cup Foreign(f)
         /\ Spared(f) \in SUBSET Entries(f) /\ Emitted(f) \in SUBSET Entries(f)
         /\ Taken(f) \in SUBSET Entries(f)
         /\ Emitted(f) \cap Spared(f) = {} /\ Taken(f) \cap Spared(f) = {}
         /\ Emitted(f) \in SUBSET Taken(f)
         /\ {v \in Entries(f) : Matches(f, v)} = Taken(f)
         /\ {v \in Entries(f) : ~Matches(f, v)} = Spared(f)
         /\ Ours(f) \in Seq(Emitted(f)) /\ Ours(f) \in Seq(Taken(f)) /\ Len(Ours(f)) \in Nat
<1>1. Entries(f) = Emitted(f) \cup Foreign(f) /\ Lookalikes(f) \subseteq Foreign(f)
  BY DEF Entries, Foreign
<1>2. /\ Spared(f) \in SUBSET Entries(f) /\ Emitted(f) \in SUBSET Entries(f)
      /\ Taken(f) \in SUBSET Entries(f) /\ Emitted(f) \in SUBSET Taken(f)
      /\ \A v : v \in Entries(f) <=> v \in Taken(f) \/ v \in Spared(f)
  BY <1>1 DEF Spared, Taken
<1>3. Emitted(f) \cap Spared(f) = {} /\ Taken(f) \cap Spared(f) = {}
  BY MatchesTaken DEF Spared, Taken
<1>4. \A v \in Taken(f) : Matches(f, v)
  BY MatchesTaken DEF Taken
<1>5. {v \in Entries(f) : Matches(f, v)} = Taken(f)
  BY <1>2, <1>4, MatchesTaken
<1>6. {v \in Entries(f) : ~Matches(f, v)} = Spared(f)
  BY <1>2, <1>4, MatchesTaken
<1>7. Ours(f) \in Seq(Emitted(f)) /\ Ours(f) \in Seq(Taken(f)) /\ Len(Ours(f)) \in Nat
  <2>1. Ours(f) \in Seq(Emitted(f)) /\ Len(Ours(f)) \in Nat
    BY MatchesTaken
  <2>2. QED
    BY <1>2, <2>1
<1>8. QED
  BY <1>1, <1>2, <1>3, <1>5, <1>6, <1>7

\* The user's and zcc's entries of a list.
LEMMA Parts ==
  ASSUME NEW f \in Files, NEW s \in Seq(Entries(f))
  PROVE  /\ User(f, s) \in Seq(Spared(f)) /\ User(f, s) \in Seq(Entries(f))
         /\ Zcc(f, s) \in Seq(Emitted(f))
         /\ Len(User(f, s)) \in Nat /\ Len(s) \in Nat /\ Len(User(f, s)) <= Len(s)
         /\ ToSet(Zcc(f, s)) = ToSet(s) \cap Emitted(f)
<1>1. Spared(f) \in SUBSET Entries(f) /\ Emitted(f) \in SUBSET Entries(f)
  BY MatchesEmitted
<1>2. /\ User(f, s) \in Seq(Spared(f)) /\ Zcc(f, s) \in Seq(Emitted(f))
      /\ Len(User(f, s)) <= Len(s) /\ ToSet(Zcc(f, s)) = ToSet(s) \cap Emitted(f)
  BY <1>1, OnlyElements DEF User, Zcc
<1>3. User(f, s) \in Seq(Entries(f)) /\ Len(User(f, s)) \in Nat /\ Len(s) \in Nat
  BY <1>1, <1>2
<1>4. QED
  BY <1>2, <1>3

LEMMA PartsConcat ==
  ASSUME NEW f \in Files, NEW s \in Seq(Entries(f)), NEW r \in Seq(Entries(f))
  PROVE  /\ User(f, s \o r) = User(f, s) \o User(f, r)
         /\ Zcc(f, s \o r) = Zcc(f, s) \o Zcc(f, r)
         /\ Counted(f, s \o r) = Counted(f, s) \o Counted(f, r)
<1>1. /\ Spared(f) \in SUBSET Entries(f) /\ Emitted(f) \in SUBSET Entries(f)
      /\ Taken(f) \in SUBSET Entries(f)
  BY MatchesEmitted
<1>2. ASSUME NEW S \in SUBSET Entries(f)
      PROVE  Only(s \o r, S) = Only(s, S) \o Only(r, S)
  BY OnlyConcat
<1>3. QED
  BY <1>1, <1>2 DEF User, Zcc, Counted

\* retain leaves the user's entries, and nothing that its predicate matches.
LEMMA RetainedIsUser ==
  ASSUME NEW f \in Files, file[f].list \in Seq(Entries(f))
  PROVE  /\ Retained(f) = User(f, file[f].list)
         /\ Retained(f) \in Seq(Entries(f))
         /\ User(f, Retained(f)) = User(f, file[f].list)
         /\ Zcc(f, Retained(f)) = <<>> /\ Counted(f, Retained(f)) = <<>>
<1>1. Retained(f) = User(f, file[f].list)
  BY MatchesEmitted DEF Retained, User
<1>2. Retained(f) \in Seq(Spared(f)) /\ Retained(f) \in Seq(Entries(f))
  BY <1>1, Parts
<1>3. User(f, Retained(f)) = Retained(f)
  BY <1>2, OnlyAll DEF User
<1>4. Zcc(f, Retained(f)) = <<>> /\ Counted(f, Retained(f)) = <<>>
  BY <1>2, OnlyNone, MatchesEmitted DEF Zcc, Counted
<1>5. QED
  BY <1>1, <1>2, <1>3, <1>4

\* The array that an install writes.
LEMMA PatchedArray ==
  ASSUME NEW f \in Files, file[f].list \in Seq(Entries(f))
  PROVE  /\ Retained(f) \o Ours(f) \in Seq(Entries(f))
         /\ User(f, Retained(f) \o Ours(f)) = User(f, file[f].list)
         /\ Zcc(f, Retained(f) \o Ours(f)) = Ours(f)
         /\ Counted(f, Retained(f) \o Ours(f)) = Ours(f)
         /\ Len(Retained(f) \o Ours(f)) = Len(User(f, file[f].list)) + Len(Ours(f))
<1> DEFINE r == Retained(f)
           o == Ours(f)
<1>1. /\ r = User(f, file[f].list) /\ r \in Seq(Entries(f))
      /\ User(f, r) = r /\ Zcc(f, r) = <<>> /\ Counted(f, r) = <<>>
  BY RetainedIsUser
<1>2. o \in Seq(Emitted(f)) /\ o \in Seq(Taken(f)) /\ o \in Seq(Entries(f))
  BY MatchesEmitted
<1>3. User(f, o) = <<>>
  BY <1>2, OnlyNone, MatchesEmitted DEF User
<1>4. Zcc(f, o) = o /\ Counted(f, o) = o
  BY <1>2, OnlyAll DEF Zcc, Counted
<1>5. /\ User(f, r \o o) = User(f, r) \o User(f, o)
      /\ Zcc(f, r \o o) = Zcc(f, r) \o Zcc(f, o)
      /\ Counted(f, r \o o) = Counted(f, r) \o Counted(f, o)
  <2> HIDE DEF r, o
  <2>1. QED
    BY <1>1, <1>2, PartsConcat
<1>6. ASSUME NEW a \in Seq(Entries(f)), NEW b \in Seq(Entries(f))
      PROVE  /\ a \o b \in Seq(Entries(f)) /\ Len(a \o b) = Len(a) + Len(b)
             /\ a \o <<>> = a /\ <<>> \o b = b
  BY SMT
<1> HIDE DEF r, o
<1>7. r \o o \in Seq(Entries(f)) /\ Len(r \o o) = Len(r) + Len(o)
  BY <1>1, <1>2, <1>6
<1>8. User(f, r \o o) = r /\ Zcc(f, r \o o) = o /\ Counted(f, r \o o) = o
  BY <1>1, <1>2, <1>3, <1>4, <1>5, <1>6
<1>9. QED
  BY <1>1, <1>7, <1>8 DEF r, o

\* The list with an entry of the user's at its end.
LEMMA SavedEntry ==
  ASSUME NEW f \in Files, NEW s \in Seq(Entries(f)), NEW v \in Foreign(f)
  PROVE  /\ Append(s, v) \in Seq(Entries(f))
         /\ Len(Append(s, v)) = Len(s) + 1
         /\ Len(User(f, Append(s, v))) <= Len(User(f, s)) + 1
<1>1. v \in Entries(f)
  BY MatchesEmitted
<1>2. User(f, Append(s, v)) \in {User(f, s), Append(User(f, s), v)}
  BY <1>1, OnlyAppend DEF User
<1>3. User(f, s) \in Seq(Entries(f)) /\ Len(User(f, s)) \in Nat
  BY Parts
<1>4. Len(Append(User(f, s), v)) = Len(User(f, s)) + 1
  BY <1>1, <1>3, AppendElement
<1>5. QED
  BY <1>1, <1>2, <1>3, <1>4, AppendElement

-----------------------------------------------------------------------------
(* The steps.                                                               *)

LEMMA OrderOfFiles == Order[1] = "tasks" /\ Order[2] = "keymap" /\ Files = {"tasks", "keymap"}
BY DEF Order, Files

\* What is left of a run that has come to the end of a file or of itself.
LEMMA AdvanceTypes ==
  ASSUME RunTypes, Advance, UNCHANGED saves
  PROVE  RunTypes' /\ arr' = <<>> /\ at' \notin {"truncate", "write", "copying"}
<1>1. arr' = <<>> /\ at' \in {"backup", "read", "done"} /\ cur' \in Files
  BY OrderOfFiles DEF RunTypes, Advance, FirstStep
<1>2. arr' \in Seq(Entries(cur'))
  BY <1>1
<1>3. cmd' = cmd /\ saves' = saves
  BY DEF Advance
<1>4. QED
  BY <1>1, <1>2, <1>3 DEF RunTypes

LEMMA RunNext ==
  ASSUME RunTypes, FileTypes, [Next]_vars
  PROVE  RunTypes'
<1>1. ASSUME NEW c \in {"install", "uninstall"}, Begin(c) PROVE RunTypes'
  <2>1. arr' = <<>> /\ cur' \in Files /\ arr' \in Seq(Entries(cur'))
    BY <1>1, OrderOfFiles DEF Begin, RunTypes
  <2>2. at' \in {"backup", "read"} /\ cmd' = c /\ saves' = saves
    BY <1>1 DEF Begin, FirstStep, pastVars
  <2>3. QED
    BY <2>1, <2>2 DEF RunTypes
<1>2. CASE Backup \/ BackupEnd
  BY <1>2 DEF Backup, BackupEnd, RunTypes, pastVars
<1>3. CASE Fail
  <2>1. arr' \in Seq(Entries(cur'))
    BY <1>3 DEF Fail
  <2>2. QED
    BY <1>3, <2>1 DEF Fail, RunTypes, pastVars
<1>4. CASE ReadArray
  <2>1. CASE at' = "truncate"
    <3>1. arr' = Retained(cur) \o Ours(cur) /\ UNCHANGED <<cmd, cur, saves>>
      BY <1>4, <2>1 DEF ReadArray, Fail, pastVars
    <3>2. arr' \in Seq(Entries(cur))
      BY <3>1, PatchedArray DEF RunTypes, FileTypes, IsText
    <3>3. QED
      BY <2>1, <3>1, <3>2 DEF RunTypes
  <2>2. QED
    BY <1>3, <1>4, <2>1 DEF ReadArray
<1>5. CASE ReadToRemove
  <2>1. CASE Advance /\ UNCHANGED pastVars
    BY <2>1, AdvanceTypes DEF pastVars
  <2>2. CASE at' = "truncate" /\ arr' = Retained(cur) /\ UNCHANGED <<cmd, cur, pastVars>>
    <3>1. arr' \in Seq(Entries(cur))
      BY <2>2, RetainedIsUser DEF RunTypes, FileTypes, IsText
    <3>2. QED
      BY <2>2, <3>1 DEF RunTypes, pastVars
  <2>3. QED
    BY <1>3, <1>5, <2>1, <2>2 DEF ReadToRemove
<1>6. CASE Truncate
  BY <1>6 DEF Truncate, RunTypes
<1>7. CASE Write
  BY <1>7, AdvanceTypes DEF Write, pastVars
<1>8. CASE Abort
  <2>1. arr' \in Seq(Entries(cur'))
    BY <1>8 DEF Abort
  <2>2. QED
    BY <1>8, <2>1 DEF Abort, RunTypes
<1>9. ASSUME NEW f \in Files, Save(f) PROVE RunTypes'
  <2>1. saves' \in 0 .. MaxSaves
    BY <1>9, BoundAssumption DEF Save, RunTypes
  <2>2. QED
    BY <1>9, <2>1 DEF Save, RunTypes
<1>10. CASE UNCHANGED vars
  BY <1>10 DEF vars, runVars, pastVars, RunTypes
<1>11. QED
  BY <1>1, <1>2, <1>4, <1>5, <1>6, <1>7, <1>8, <1>9, <1>10 DEF Next

\* A list that the bound allows is allowed after one more save.
LEMMA StaysShort ==
  ASSUME RunTypes, NEW f \in Files, NEW s \in Seq(Entries(f)), Short(f, s, saves),
         saves' \in {saves, saves + 1}
  PROVE  Short(f, s, saves')
<1>1. Len(User(f, s)) \in Nat /\ Len(s) \in Nat /\ Len(Ours(f)) \in Nat
  BY Parts, MatchesEmitted
<1>2. QED
  BY <1>1, BoundAssumption DEF Short, RunTypes

\* The texts that a step may give a file.
LEMMA EmptyTexts ==
  ASSUME RunTypes, NEW f \in Files, NEW t \in {Missing, Blank, Broken}
  PROVE  IsText(f, t) /\ Short(f, t.list, saves) /\ t.list = <<>>
<1>1. t.list = <<>> /\ t.kind \in {"missing", "blank", "broken"}
  BY DEF Missing, Blank, Broken, Text
<1>2. User(f, <<>>) = <<>> /\ <<>> \in Seq(Entries(f))
  BY OnlyEmpty DEF User
<1>3. Len(Ours(f)) \in Nat
  BY MatchesEmitted
<1>4. Short(f, <<>>, saves)
  BY <1>2, <1>3, BoundAssumption DEF Short, RunTypes
<1>5. QED
  BY <1>1, <1>2, <1>4 DEF IsText

LEMMA FileNext ==
  ASSUME RunTypes, FileTypes, ArrayInv, [Next]_vars
  PROVE  FileTypes'
<1> DEFINE kinds == {"missing", "blank", "broken", "object", "array"}
           all == {"torn", "cut", "unbacked", "edited", "overtaken"}
<1>1. saves' \in {saves, saves + 1}
  BY DEF Next, Begin, Backup, BackupEnd, ReadArray, ReadToRemove, Fail, Truncate, Write,
         Abort, Save, vars, pastVars, runVars
<1>2. /\ DOMAIN file' = Files /\ DOMAIN bak' = Files
      /\ DOMAIN theirs' = Files /\ DOMAIN marks' = Files
  BY DEF FileTypes, Next, Begin, Backup, BackupEnd, ReadArray, ReadToRemove, Fail, Truncate,
         Write, Abort, Save, Mark, vars, pastVars, runVars
<1>3. \A f \in Files : marks'[f] \subseteq all
  <2>1. CASE UNCHANGED marks
    BY <2>1 DEF FileTypes
  <2>2. ASSUME NEW g \in Files, NEW m \in all, NEW c, Mark(g, m, c)
        PROVE  \A f \in Files : marks'[f] \subseteq all
    BY <2>2 DEF FileTypes, Mark
  <2>3. ASSUME NEW g \in Files, Save(g)
        PROVE  \A f \in Files : marks'[f] \subseteq all
    BY <2>3 DEF FileTypes, Save
  <2>4. CASE Truncate \/ Abort
    BY <2>2, <2>4 DEF Truncate, Abort, RunTypes
  <2>5. QED
    BY <2>1, <2>3, <2>4 DEF Next, Begin, Backup, BackupEnd, ReadArray, ReadToRemove, Fail,
                            Write, vars, pastVars, runVars
<1>4. \A f \in Files : bak'[f].kind \in kinds
  <2>1. CASE UNCHANGED bak
    BY <2>1 DEF FileTypes
  <2>2. CASE Backup \/ BackupEnd
    <3>1. /\ cur \in Files
          /\ \/ bak' = bak
             \/ bak' = [bak EXCEPT ![cur] = file[cur]]
             \/ bak' = [bak EXCEPT ![cur] = Broken]
      BY <2>2 DEF Backup, BackupEnd, RunTypes
    <3>2. file[cur].kind \in kinds /\ Broken.kind \in kinds
      BY <3>1 DEF FileTypes, IsText, Broken, Text
    <3>3. QED
      BY <3>1, <3>2 DEF FileTypes
  <2>3. QED
    BY <2>1, <2>2 DEF Next, Begin, ReadArray, ReadToRemove, Fail, Truncate, Write, Abort,
                      Save, vars, pastVars, runVars
<1>5. ASSUME NEW f \in Files PROVE IsText(f, file'[f]) /\ Short(f, file'[f].list, saves')
  <2>1. CASE file'[f] = file[f]
    <3>1. IsText(f, file[f]) /\ Short(f, file[f].list, saves)
      BY DEF FileTypes
    <3>2. file[f].list \in Seq(Entries(f))
      BY <3>1 DEF IsText
    <3>3. Short(f, file'[f].list, saves')
      <4>1. PICK s \in Seq(Entries(f)) : s = file[f].list
        BY <3>2
      <4>2. QED
        BY <1>1, <2>1, <3>1, <4>1, StaysShort
    <3>4. QED
      BY <2>1, <3>1, <3>3
  <2>2. ASSUME NEW t \in {Missing, Blank, Broken}, file'[f] = t
        PROVE  IsText(f, file'[f]) /\ Short(f, file'[f].list, saves')
    <3>1. RunTypes' /\ IsText(f, t) /\ Short(f, <<>>, saves) /\ t.list = <<>>
      BY EmptyTexts, RunNext
    <3>2. <<>> \in Seq(Entries(f))
      OBVIOUS
    <3>3. Short(f, <<>>, saves')
      BY <1>1, <3>1, <3>2, StaysShort
    <3>4. QED
      BY <2>2, <3>1, <3>3
  <2>3. CASE Write /\ f = cur
    <3>1. file'[f] = Array(arr, FALSE) /\ at = "write" /\ saves' = saves
      BY <2>3 DEF Write, FileTypes, pastVars
    <3>2. Short(f, arr, saves) /\ arr \in Seq(Entries(f))
      BY <2>3, <3>1 DEF ArrayInv, RunTypes
    <3>3. Array(arr, FALSE).list = arr /\ Array(arr, FALSE).kind = "array"
      BY DEF Array, Text
    <3>4. QED
      BY <3>1, <3>2, <3>3 DEF IsText
  <2>4. ASSUME NEW v \in Foreign(f), Save(f), file'[f] = Array(Append(file[f].list, v), TRUE)
        PROVE  IsText(f, file'[f]) /\ Short(f, file'[f].list, saves')
    <3>1. PICK s \in Seq(Entries(f)) : s = file[f].list /\ Short(f, s, saves)
      BY DEF FileTypes, IsText
    <3>2. PICK a : a = Append(s, v)
      OBVIOUS
    <3>3. file'[f].list = a /\ file'[f].kind = "array"
      BY <2>4, <3>1, <3>2 DEF Array, Text
    <3>4. a \in Seq(Entries(f)) /\ Len(a) = Len(s) + 1 /\ Len(User(f, a)) <= Len(User(f, s)) + 1
      BY <3>2, SavedEntry
    <3>5. saves' = saves + 1
      BY <2>4 DEF Save
    <3>6. Len(User(f, s)) \in Nat /\ Len(User(f, a)) \in Nat /\ Len(s) \in Nat /\ Len(Ours(f)) \in Nat
      BY Parts, MatchesEmitted
    <3>7. Short(f, a, saves')
      BY <3>1, <3>4, <3>5, <3>6, BoundAssumption DEF Short, RunTypes
    <3>8. QED
      BY <3>3, <3>4, <3>7 DEF IsText
  <2>5. CASE Truncate \/ Abort
    <3>1. file'[f] = file[f] \/ file'[f] = Blank \/ file'[f] = Broken
      BY <2>5 DEF Truncate, Abort, FileTypes
    <3>2. QED
      BY <2>1, <2>2, <3>1
  <2>6. CASE Write
    <3>1. f # cur => file'[f] = file[f]
      BY <2>6 DEF Write, FileTypes
    <3>2. QED
      BY <2>1, <2>3, <2>6, <3>1
  <2>7. ASSUME NEW g \in Files, Save(g)
        PROVE  IsText(f, file'[f]) /\ Short(f, file'[f].list, saves')
    <3>1. CASE g # f
      <4>1. file'[f] = file[f]
        BY <2>7, <3>1 DEF Save, FileTypes
      <4>2. QED
        BY <2>1, <4>1
    <3>2. CASE g = f
      <4>1. \/ file'[f] = Missing \/ file'[f] = Broken
            \/ \E v \in Foreign(f) : file'[f] = Array(Append(file[f].list, v), TRUE)
        <5> DEFINE texts == {Missing, Broken} \cup {Array(Append(file[f].list, v), TRUE) : v \in Foreign(f)}
        <5>1. PICK t \in texts : file' = [file EXCEPT ![f] = t]
          <6>1. Save(f)
            BY <2>7, <3>2
          <6>2. \E t \in texts : file' = [file EXCEPT ![f] = t] /\ theirs' = [theirs EXCEPT ![f] = t]
            BY <6>1, Zenon DEF Save
          <6>3. QED
            BY <6>2, Zenon
        <5>2. file'[f] = t
          BY <5>1 DEF FileTypes
        <5>3. QED
          BY <5>1, <5>2
      <4>2. QED
        BY <2>2, <2>4, <2>7, <3>2, <4>1
    <3>3. QED
      BY <3>1, <3>2
  <2>8. CASE UNCHANGED file
    BY <2>1, <2>8
  <2>9. QED
    BY <2>5, <2>6, <2>7, <2>8 DEF Next, Begin, Backup, BackupEnd, ReadArray, ReadToRemove, Fail,
                                 vars, pastVars, runVars
<1>6. QED
  BY <1>2, <1>3, <1>4, <1>5 DEF FileTypes

\* What a save changes.
LEMMA SaveEffect ==
  ASSUME FileTypes, NEW g \in Files, Save(g)
  PROVE  /\ theirs'[g] = file'[g]
         /\ \A f \in Files \ {g} :
              file'[f] = file[f] /\ theirs'[f] = theirs[f] /\ marks'[f] = marks[f]
         /\ marks[g] \subseteq marks'[g]
         /\ bak[g] # Missing => "edited" \in marks'[g]
         /\ at \notin {"idle", "done"} /\ ~Unread(g) => "overtaken" \in marks'[g]
         /\ at' = (IF at = "done" THEN "idle" ELSE at) /\ UNCHANGED <<bak, cmd, cur, arr>>
         /\ saves' = saves + 1
<1> DEFINE texts == {Missing, Broken} \cup {Array(Append(file[g].list, v), TRUE) : v \in Foreign(g)}
<1>1. PICK t \in texts : file' = [file EXCEPT ![g] = t] /\ theirs' = [theirs EXCEPT ![g] = t]
  BY Zenon DEF Save
<1> HIDE DEF texts
<1>2. file'[g] = t /\ theirs'[g] = t
  BY <1>1 DEF FileTypes
<1>3. \A f \in Files \ {g} : file'[f] = file[f] /\ theirs'[f] = theirs[f]
  BY <1>1 DEF FileTypes
<1>4. marks' = [marks EXCEPT ![g] =
        @ \cup (IF bak[g] # Missing THEN {"edited"} ELSE {})
          \cup (IF at \notin {"idle", "done"} /\ ~Unread(g) THEN {"overtaken"} ELSE {})]
  BY Zenon DEF Save
<1>5. /\ \A f \in Files \ {g} : marks'[f] = marks[f]
      /\ marks[g] \subseteq marks'[g]
      /\ bak[g] # Missing => "edited" \in marks'[g]
      /\ at \notin {"idle", "done"} /\ ~Unread(g) => "overtaken" \in marks'[g]
  BY <1>4 DEF FileTypes
<1>6. /\ at' = (IF at = "done" THEN "idle" ELSE at) /\ UNCHANGED <<bak, cmd, cur, arr>>
      /\ saves' = saves + 1
  BY Zenon DEF Save
<1>7. QED
  BY <1>2, <1>3, <1>5, <1>6

\* Marks are never taken back.
LEMMA MarksGrow ==
  ASSUME FileTypes, RunTypes, [Next]_vars, NEW f \in Files
  PROVE  marks[f] \subseteq marks'[f]
<1>1. ASSUME NEW g \in Files, NEW m, NEW c, Mark(g, m, c)
      PROVE  marks[f] \subseteq marks'[f]
  BY <1>1 DEF FileTypes, Mark
<1>2. CASE Truncate \/ Abort
  BY <1>1, <1>2 DEF Truncate, Abort, RunTypes
<1>3. ASSUME NEW g \in Files, Save(g)
      PROVE  marks[f] \subseteq marks'[f]
  BY <1>3, SaveEffect
<1>4. CASE UNCHANGED marks
  BY <1>4
<1>5. QED
  BY <1>2, <1>3, <1>4 DEF Next, Begin, Backup, BackupEnd, ReadArray, ReadToRemove, Fail, Write,
                          vars, pastVars, runVars

\* The array that a step of reading makes keeps the user's entries, has zcc's as the
\* subcommand wants them and is short enough.
LEMMA ArrayRead ==
  ASSUME RunTypes, FileTypes, UserEntriesKept, at = "read", file[cur].kind \notin {"broken", "object"},
         UNCHANGED <<cmd, cur, saves, theirs, marks>>,
         \/ cmd = "install" /\ arr' = Retained(cur) \o Ours(cur)
         \/ cmd = "uninstall" /\ arr' = Retained(cur)
  PROVE  ArrayInv'
<1>1. cur \in Files /\ file[cur].list \in Seq(Entries(cur)) /\ Short(cur, file[cur].list, saves)
  BY DEF RunTypes, FileTypes, IsText
<1>2. /\ User(cur, arr') = User(cur, file[cur].list)
      /\ Zcc(cur, arr') = Announced(cur) /\ Counted(cur, arr') = Announced(cur)
  BY <1>1, PatchedArray, RetainedIsUser DEF Announced
<1>3. Short(cur, arr', saves)
  <2>1. /\ Len(User(cur, file[cur].list)) \in Nat /\ Len(Ours(cur)) \in Nat /\ saves \in Nat
        /\ Len(User(cur, file[cur].list)) <= MaxEntries + saves
    BY <1>1, Parts, MatchesEmitted, BoundAssumption DEF Short, RunTypes
  <2>2. Len(arr') = Len(User(cur, file[cur].list)) + Len(Ours(cur))
        \/ Len(arr') = Len(User(cur, file[cur].list))
    BY <1>1, PatchedArray, RetainedIsUser
  <2>3. QED
    BY <1>2, <2>1, <2>2, BoundAssumption DEF Short
<1>4. marks[cur] \cap {"cut", "overtaken"} = {} => User(cur, arr') = UserPart(cur, theirs[cur])
  BY <1>1, <1>2 DEF UserEntriesKept, UserPart, User, Spared
<1>5. QED
  BY <1>2, <1>3, <1>4 DEF ArrayInv, AsAnnounced, Announced

LEMMA ArrayNext ==
  ASSUME RunTypes, FileTypes, ArrayInv, UserEntriesKept, [Next]_vars
  PROVE  ArrayInv'
<1>1. CASE at' \notin {"truncate", "write"}
  BY <1>1 DEF ArrayInv
<1>2. CASE ReadArray
  BY <1>1, <1>2, ArrayRead DEF ReadArray, Fail, pastVars
<1>3. CASE ReadToRemove
  <2>1. CASE at' = "truncate" /\ arr' = Retained(cur) /\ file[cur].kind = "array"
             /\ UNCHANGED <<cmd, cur, pastVars>>
    BY <1>3, <2>1, ArrayRead DEF ReadToRemove, pastVars
  <2>2. CASE Advance \/ Fail
    BY <1>1, <2>2 DEF Advance, Fail, FirstStep
  <2>3. QED
    BY <1>3, <2>1, <2>2 DEF ReadToRemove
<1>4. CASE Truncate
  <2>1. cur \in Files /\ marks[cur] \subseteq marks'[cur]
    BY <1>4, MarksGrow DEF Next, RunTypes
  <2>2. at = "truncate" /\ UNCHANGED <<cmd, cur, arr, theirs, saves>>
    BY <1>4 DEF Truncate
  <2>3. QED
    BY <2>1, <2>2 DEF ArrayInv, AsAnnounced, Announced
<1>5. ASSUME NEW g \in Files, Save(g), at' \in {"truncate", "write"} PROVE ArrayInv'
  <2>1. /\ at \in {"truncate", "write"} /\ UNCHANGED <<cmd, cur, arr>> /\ cur \in Files
        /\ saves' = saves + 1
    BY <1>5, SaveEffect DEF RunTypes
  <2>2. Short(cur, arr, saves')
    BY <2>1, StaysShort DEF ArrayInv, RunTypes
  <2>3. AsAnnounced(cur, arr)'
    BY <2>1 DEF ArrayInv, AsAnnounced, Announced
  <2>4. CASE g = cur
    <3>1. ~Unread(cur)
      BY <2>1, OrderOfFiles DEF Unread
    <3>2. "overtaken" \in marks'[cur]
      BY <1>5, <2>1, <2>4, <3>1, SaveEffect
    <3>3. QED
      BY <2>1, <2>2, <2>3, <3>2 DEF ArrayInv
  <2>5. CASE g # cur
    <3>1. marks'[cur] = marks[cur] /\ theirs'[cur] = theirs[cur]
      BY <1>5, <2>1, <2>5, SaveEffect
    <3>2. QED
      BY <2>1, <2>2, <2>3, <3>1 DEF ArrayInv
  <2>6. QED
    BY <2>4, <2>5
<1>6. CASE UNCHANGED vars
  BY <1>6 DEF ArrayInv, AsAnnounced, Announced, vars, runVars, pastVars
<1>7. CASE Begin("install") \/ Begin("uninstall") \/ Backup \/ BackupEnd \/ Write \/ Abort
  BY <1>1, <1>7 DEF Begin, Backup, BackupEnd, Write, Advance, FirstStep, Abort
<1>8. QED
  BY <1>1, <1>2, <1>3, <1>4, <1>5, <1>6, <1>7 DEF Next

LEMMA UserNext ==
  ASSUME RunTypes, FileTypes, ArrayInv, UserEntriesKept, [Next]_vars
  PROVE  UserEntriesKept'
<1> SUFFICES ASSUME NEW f \in Files, marks'[f] \cap {"cut", "overtaken"} = {}
             PROVE  (at' = "write" /\ cur' = f) \/ UserPart(f, file'[f]) = UserPart(f, theirs'[f])
  BY DEF UserEntriesKept
<1>1. marks[f] \cap {"cut", "overtaken"} = {}
  BY MarksGrow
<1>2. (at = "write" /\ cur = f) \/ UserPart(f, file[f]) = UserPart(f, theirs[f])
  BY <1>1 DEF UserEntriesKept
<1>3. CASE Truncate
  <2>1. at = "truncate" /\ at' = "write" /\ cur' = cur /\ theirs' = theirs
        /\ file' = [file EXCEPT ![cur] = Blank]
    BY <1>3 DEF Truncate
  <2>2. f # cur => file'[f] = file[f]
    BY <2>1 DEF FileTypes
  <2>3. QED
    BY <1>2, <2>1, <2>2
<1>4. CASE Write
  <2>1. at = "write" /\ theirs' = theirs /\ file' = [file EXCEPT ![cur] = Array(arr, FALSE)]
    BY <1>4 DEF Write, pastVars
  <2>2. f # cur => file'[f] = file[f]
    BY <2>1 DEF FileTypes
  <2>3. f = cur => file'[f] = Array(arr, FALSE)
    BY <2>1 DEF FileTypes
  <2>4. CASE f = cur
    <3>1. UserPart(f, Array(arr, FALSE)) = User(f, arr)
      BY DEF UserPart, User, Spared, Array, Text
    <3>2. User(f, arr) = UserPart(f, theirs[f])
      BY <1>1, <2>1, <2>4 DEF ArrayInv
    <3>3. QED
      BY <2>1, <2>3, <2>4, <3>1, <3>2
  <2>5. QED
    BY <1>2, <2>1, <2>2, <2>4
<1>5. CASE Abort
  <2>1. theirs' = theirs /\ (f # cur \/ at # "write" => file'[f] = file[f])
    BY <1>5 DEF Abort, FileTypes
  <2>2. CASE at = "write" /\ f = cur
    <3>1. "cut" \in marks'[f]
      BY <1>5, <2>2 DEF Abort, Mark, FileTypes
    <3>2. QED
      BY <3>1
  <2>3. QED
    BY <1>2, <2>1, <2>2
<1>6. ASSUME NEW g \in Files, Save(g)
      PROVE  (at' = "write" /\ cur' = f) \/ UserPart(f, file'[f]) = UserPart(f, theirs'[f])
  BY <1>2, <1>6, SaveEffect
<1>7. CASE Begin("install") \/ Begin("uninstall") \/ Backup \/ BackupEnd
  BY <1>2, <1>7 DEF Begin, Backup, BackupEnd, pastVars
<1>8. CASE ReadArray \/ ReadToRemove
  <2>1. at = "read" /\ UNCHANGED <<file, theirs>>
    BY <1>8 DEF ReadArray, ReadToRemove, Fail, pastVars
  <2>2. QED
    BY <1>2, <2>1
<1>9. CASE UNCHANGED vars
  BY <1>2, <1>9 DEF vars, runVars, pastVars
<1>10. QED
  BY <1>3, <1>4, <1>5, <1>6, <1>7, <1>8, <1>9 DEF Next

\* The files the run is through with stay as it left them, or are marked.
LEMMA ThroughNext ==
  ASSUME RunTypes, FileTypes, ArrayInv, ThroughInv, [Next]_vars
  PROVE  ThroughInv'
<1> SUFFICES ASSUME NEW f \in Files, Through(f)', "overtaken" \notin marks'[f]
             PROVE  AsAnnounced(f, file[f].list)'
  BY DEF ThroughInv
<1>1. "overtaken" \notin marks[f]
  BY MarksGrow
<1>2. ASSUME Through(f), file'[f] = file[f], cmd' = cmd
      PROVE  AsAnnounced(f, file[f].list)'
  BY <1>1, <1>2 DEF ThroughInv, AsAnnounced, Announced
<1>3. ASSUME Advance, f # cur, at # "idle" PROVE Through(f)
  BY <1>3, OrderOfFiles DEF Advance, Through, FirstStep, RunTypes
<1>4. CASE ReadToRemove
  <2>1. at = "read" /\ cmd = "uninstall" /\ UNCHANGED <<file, cmd>>
    BY <1>4 DEF ReadToRemove, Fail, Advance
  <2>2. CASE Advance /\ file[cur].kind \notin {"blank", "broken"}
             /\ ~(file[cur].kind = "array" /\ Retained(cur) # file[cur].list)
    <3>1. CASE f = cur
      <4>1. file[f].list \in Seq(Entries(f)) /\ (file[f].kind # "array" => file[f].list = <<>>)
        BY DEF FileTypes, IsText
      <4>2. Zcc(f, <<>>) = <<>> /\ Counted(f, <<>>) = <<>>
        BY OnlyEmpty DEF Zcc, Counted
      <4>3. Zcc(f, Retained(f)) = <<>> /\ Counted(f, Retained(f)) = <<>>
        BY <4>1, RetainedIsUser
      <4>4. Zcc(f, file[f].list) = <<>> /\ Counted(f, file[f].list) = <<>>
        BY <2>2, <3>1, <4>1, <4>2, <4>3
      <4>5. QED
        BY <2>1, <4>4 DEF AsAnnounced, Announced
    <3>2. QED
      BY <1>2, <1>3, <2>1, <2>2, <3>1
  <2>3. CASE Fail
    BY <2>3 DEF Fail, Through
  <2>4. CASE at' = "truncate" /\ cur' = cur
    <3>1. Through(f)
      BY <2>1, <2>4 DEF Through
    <3>2. QED
      BY <1>2, <2>1, <3>1
  <2>5. QED
    BY <1>4, <2>2, <2>3, <2>4 DEF ReadToRemove
<1>5. CASE Write
  <2>1. at = "write" /\ Advance /\ cmd' = cmd /\ file' = [file EXCEPT ![cur] = Array(arr, FALSE)]
    BY <1>5 DEF Write, Advance
  <2>2. CASE f = cur
    <3>1. file'[f].list = arr
      BY <2>1, <2>2 DEF FileTypes, Array, Text
    <3>2. AsAnnounced(f, arr)
      BY <2>1, <2>2 DEF ArrayInv
    <3>3. QED
      BY <2>1, <3>1, <3>2 DEF AsAnnounced, Announced
  <2>3. CASE f # cur
    <3>1. file'[f] = file[f]
      BY <2>1, <2>3 DEF FileTypes
    <3>2. QED
      BY <1>2, <1>3, <2>1, <2>3, <3>1
  <2>4. QED
    BY <2>2, <2>3
<1>6. CASE Begin("install") \/ Begin("uninstall")
  BY <1>6, OrderOfFiles DEF Begin, Through, FirstStep
<1>7. CASE Backup \/ BackupEnd \/ ReadArray
  <2>1. CASE at' = "idle"
    BY <2>1 DEF Through
  <2>2. CASE at' # "idle"
    <3>1. UNCHANGED <<file, cmd, cur>> /\ at \notin {"idle", "done"} /\ at' # "done"
      BY <1>7, <2>2 DEF Backup, BackupEnd, ReadArray, Fail
    <3>2. Through(f)
      BY <3>1 DEF Through
    <3>3. QED
      BY <1>2, <3>1, <3>2
  <2>3. QED
    BY <2>1, <2>2
<1>8. CASE Truncate
  <2>1. at = "truncate" /\ at' = "write" /\ UNCHANGED <<cmd, cur>>
        /\ file' = [file EXCEPT ![cur] = Blank]
    BY <1>8 DEF Truncate
  <2>2. Through(f) /\ f # cur
    BY <2>1, OrderOfFiles DEF Through
  <2>3. file'[f] = file[f]
    BY <2>1, <2>2 DEF FileTypes
  <2>4. QED
    BY <1>2, <2>1, <2>2, <2>3
<1>9. CASE Abort
  BY <1>9 DEF Abort, Through
<1>10. ASSUME NEW g \in Files, Save(g) PROVE AsAnnounced(f, file[f].list)'
  <2>1. at' = at /\ at # "done" /\ UNCHANGED <<cmd, cur>>
    BY <1>10, SaveEffect DEF Through
  <2>2. Through(f)
    BY <2>1 DEF Through
  <2>3. at \notin {"idle", "done"} /\ ~Unread(f)
    BY <2>1, <2>2, OrderOfFiles DEF Through, Unread
  <2>4. g # f
    BY <1>10, <2>3, SaveEffect
  <2>5. file'[f] = file[f]
    BY <1>10, <2>4, SaveEffect
  <2>6. QED
    BY <1>2, <2>1, <2>2, <2>5
<1>11. CASE UNCHANGED vars
  <2>1. Through(f) /\ file' = file /\ cmd' = cmd
    BY <1>11 DEF vars, runVars, Through
  <2>2. QED
    BY <1>2, <2>1
<1>12. QED
  BY <1>4, <1>5, <1>6, <1>7, <1>8, <1>9, <1>10, <1>11 DEF Next

\* The backup is made of what the user saved, before anything else is written.
LEMMA OriginalNext ==
  ASSUME RunTypes, FileTypes, OriginalInv, [Next]_vars
  PROVE  OriginalInv'
<1> DEFINE spoilt == {"torn", "edited", "unbacked", "overtaken"}
           Source(f) == IF bak[f] = Missing \/ (at = "copying" /\ cur = f) THEN file[f] ELSE bak[f]
           Past(f) == cur = f /\ (at = "write" \/ (cmd = "install" /\ at \in {"read", "truncate"}))
           Good(f) == /\ theirs[f] \in {Missing, Source(f)}
                      /\ Past(f) => bak[f] # Missing \/ theirs[f] = Missing
<1>1. Broken # Missing /\ Blank # Missing
  BY DEF Broken, Blank, Missing, Text
<1>2. at' = "copying" => bak'[cur'] # Missing
  <2>1. CASE Backup
    BY <1>1, <2>1 DEF Backup, FileTypes, RunTypes
  <2>2. ASSUME NEW g \in Files, Save(g), at' = "copying" PROVE bak'[cur'] # Missing
    BY <2>2, SaveEffect DEF OriginalInv
  <2>3. QED
    BY <2>1, <2>2 DEF Next, Begin, BackupEnd, ReadArray, ReadToRemove, Advance, FirstStep, Fail,
                      Truncate, Write, Abort, OriginalInv, vars, runVars
<1>3. ASSUME NEW f \in Files, marks'[f] \cap spoilt = {} PROVE Good(f)'
  <2>1. Good(f) /\ marks[f] \cap spoilt = {}
    BY <1>3, MarksGrow DEF OriginalInv
  <2>2. ASSUME at' \notin {"copying"}, at # "copying" \/ cur # f, bak'[f] = bak[f],
               file'[f] = file[f] \/ theirs[f] = Missing \/ bak[f] # Missing,
               theirs'[f] = theirs[f], Past(f)' => bak[f] # Missing \/ theirs[f] = Missing
        PROVE  Good(f)'
    BY <2>1, <2>2
  <2>3. CASE Begin("install") \/ Begin("uninstall")
    BY <2>2, <2>3 DEF Begin, FirstStep, pastVars
  <2>4. CASE Backup
    <3>1. at = "backup" /\ cur' = cur /\ cmd' = cmd /\ file' = file /\ theirs' = theirs /\ cur \in Files
      BY <2>4 DEF Backup, pastVars, RunTypes
    <3>2. CASE f # cur
      <4>1. bak'[f] = bak[f]
        BY <2>4, <3>2 DEF Backup, FileTypes
      <4>2. QED
        BY <2>1, <3>1, <3>2, <4>1
    <3>3. CASE f = cur
      <4>1. CASE file[cur] # Missing /\ bak[cur] = Missing
        <5>1. theirs[f] \in {Missing, file[f]}
          BY <2>1, <3>3, <4>1
        <5>2. (at' = "read" /\ bak'[f] = file[f]) \/ (at' = "copying" /\ bak'[f] = Broken)
          BY <2>4, <3>1, <3>3, <4>1 DEF Backup, FileTypes
        <5>3. QED
          BY <1>1, <3>1, <3>3, <4>1, <5>1, <5>2
      <4>2. CASE ~(file[cur] # Missing /\ bak[cur] = Missing)
        <5>1. at' = "read" /\ bak' = bak
          BY <2>4, <4>2 DEF Backup
        <5>2. QED
          BY <2>1, <3>1, <3>3, <4>2, <5>1
      <4>3. QED
        BY <4>1, <4>2
    <3>4. QED
      BY <3>2, <3>3
  <2>5. CASE BackupEnd
    <3>1. /\ at = "copying" /\ at' = "read" /\ UNCHANGED <<file, cmd, cur, theirs>> /\ cur \in Files
          /\ bak' = [bak EXCEPT ![cur] = file[cur]]
      BY <2>5 DEF BackupEnd, pastVars, RunTypes
    <3>2. CASE f = cur
      <4>1. bak'[f] = file[f] /\ theirs[f] \in {Missing, file[f]}
        BY <2>1, <3>1, <3>2 DEF FileTypes
      <4>2. QED
        BY <3>1, <4>1
    <3>3. CASE f # cur
      <4>1. bak'[f] = bak[f]
        BY <3>1, <3>3 DEF FileTypes
      <4>2. QED
        BY <2>1, <3>1, <3>3, <4>1
    <3>4. QED
      BY <3>2, <3>3
  <2>6. CASE ReadArray \/ ReadToRemove
    <3>1. at = "read" /\ UNCHANGED <<file, bak, theirs, cmd>> /\ at' \notin {"copying", "write"}
      BY <2>6 DEF ReadArray, ReadToRemove, Fail, Advance, FirstStep, pastVars
    <3>2. Past(f)' => cur = f /\ cmd = "install"
      BY <2>6, <3>1 DEF ReadArray, ReadToRemove, Fail, Advance, FirstStep
    <3>3. Past(f)' => Past(f)
      BY <3>1, <3>2
    <3>4. QED
      BY <2>1, <2>2, <3>1, <3>3
  <2>7. CASE Truncate
    <3>1. /\ at = "truncate" /\ at' = "write" /\ UNCHANGED <<bak, cmd, cur, theirs>> /\ cur \in Files
          /\ file' = [file EXCEPT ![cur] = Blank]
          /\ Mark(cur, "unbacked", cmd = "uninstall" /\ bak[cur] = Missing)
      BY <2>7 DEF Truncate, RunTypes
    <3>2. f = cur => bak[f] # Missing \/ theirs[f] = Missing
      <4>1. CASE cmd = "install"
        BY <2>1, <3>1, <4>1
      <4>2. CASE cmd = "uninstall" /\ f = cur
        <5>1. bak[cur] # Missing
          BY <1>3, <3>1, <4>2 DEF Mark, FileTypes
        <5>2. QED
          BY <4>2, <5>1
      <4>3. QED
        BY <4>1, <4>2 DEF RunTypes
    <3>3. f # cur => file'[f] = file[f]
      BY <3>1 DEF FileTypes
    <3>4. QED
      BY <2>1, <2>2, <3>1, <3>2, <3>3
  <2>8. CASE Write
    <3>1. /\ at = "write" /\ UNCHANGED <<bak, cmd, theirs>> /\ at' \in {"backup", "read", "done"}
          /\ file' = [file EXCEPT ![cur] = Array(arr, FALSE)]
      BY <2>8 DEF Write, Advance, FirstStep, pastVars
    <3>2. f = cur => bak[f] # Missing \/ theirs[f] = Missing
      BY <2>1, <3>1
    <3>3. f # cur => file'[f] = file[f]
      BY <3>1 DEF FileTypes
    <3>4. ~Past(f)'
      BY <2>8, <3>1 DEF Write, Advance, FirstStep
    <3>5. QED
      BY <2>2, <3>1, <3>2, <3>3, <3>4
  <2>9. CASE Abort
    <3>1. at' = "idle" /\ UNCHANGED <<bak, cmd, cur, theirs>>
          /\ (at # "write" \/ f # cur => file'[f] = file[f])
      BY <2>9 DEF Abort, FileTypes
    <3>2. at # "copying" \/ cur # f
      BY <1>3, <2>9 DEF Abort, Mark, FileTypes
    <3>3. QED
      BY <2>1, <2>2, <3>1, <3>2
  <2>10. ASSUME NEW g \in Files, Save(g) PROVE Good(f)'
    <3>1. UNCHANGED <<bak, cmd, cur>> /\ at' = IF at = "done" THEN "idle" ELSE at
      BY <2>10, SaveEffect
    <3>2. CASE g # f
      <4>1. file'[f] = file[f] /\ theirs'[f] = theirs[f]
        BY <2>10, <3>2, SaveEffect
      <4>2. QED
        BY <2>1, <3>1, <4>1
    <3>3. CASE g = f
      <4>1. bak[f] = Missing /\ theirs'[f] = file'[f]
        BY <1>3, <2>10, <3>3, SaveEffect
      <4>2. at \in {"idle", "done"} \/ Unread(f)
        BY <1>3, <2>10, <3>3, SaveEffect
      <4>3. ~Past(f)'
        BY <3>1, <4>2, OrderOfFiles DEF Unread
      <4>4. QED
        BY <3>1, <4>1, <4>3
    <3>4. QED
      BY <3>2, <3>3
  <2>11. CASE UNCHANGED vars
    BY <2>1, <2>11 DEF vars, runVars, pastVars
  <2>12. QED
    BY <2>3, <2>4, <2>5, <2>6, <2>7, <2>8, <2>9, <2>10, <2>11 DEF Next
<1>4. QED
  BY <1>2, <1>3 DEF OriginalInv

-----------------------------------------------------------------------------
(* The theorems.                                                            *)

LEMMA InstallInit == Init => InstallInv
<1> SUFFICES ASSUME Init PROVE InstallInv
  OBVIOUS
<1>1. /\ DOMAIN file = Files /\ DOMAIN bak = Files /\ DOMAIN theirs = Files /\ DOMAIN marks = Files
      /\ \A f \in Files : bak[f] = Missing /\ marks[f] = {} /\ theirs[f] = file[f]
      /\ at = "idle" /\ arr = <<>> /\ cmd = "install" /\ cur = "tasks" /\ saves = 0
  BY DEF Init
<1>2. RunTypes
  <2>1. <<>> \in Seq(Entries(cur))
    OBVIOUS
  <2>2. QED
    BY <1>1, <2>1, OrderOfFiles, BoundAssumption DEF RunTypes
<1>3. ASSUME NEW f \in Files PROVE IsText(f, file[f]) /\ Short(f, file[f].list, saves)
  <2>1. file[f] \in FirstTexts(f)
    BY OrderOfFiles DEF Init
  <2>2. CASE file[f] \in {Missing, Blank, Broken}
    BY <1>2, <2>2, EmptyTexts
  <2>3. CASE file[f] = Object
    <3>1. file[f].list = <<>> /\ Missing.list = <<>> /\ file[f].kind = "object"
      BY <2>3 DEF Object, Missing, Text
    <3>2. Short(f, <<>>, saves) /\ <<>> \in Seq(Entries(f))
      BY <1>2, <3>1, EmptyTexts
    <3>3. QED
      BY <3>1, <3>2 DEF IsText
  <2>4. ASSUME NEW l \in BoundedSeq(Entries(f), MaxEntries), file[f] = Array(l, TRUE)
        PROVE  IsText(f, file[f]) /\ Short(f, file[f].list, saves)
    <3>1. PICK n \in 0 .. MaxEntries : l \in [1 .. n -> Entries(f)]
      BY DEF BoundedSeq, SeqOf
    <3>2. l \in Seq(Entries(f)) /\ Len(l) <= MaxEntries
      BY <3>1, BoundAssumption
    <3>3. /\ Len(User(f, l)) \in Nat /\ Len(l) \in Nat /\ Len(User(f, l)) <= Len(l)
          /\ Len(Ours(f)) \in Nat
      BY <3>2, Parts, MatchesEmitted
    <3>4. Short(f, l, saves)
      BY <1>1, <3>2, <3>3, BoundAssumption DEF Short
    <3>5. file[f].list = l /\ file[f].kind = "array"
      BY <2>4 DEF Array, Text
    <3>6. QED
      BY <3>2, <3>4, <3>5 DEF IsText
  <2>5. QED
    BY <2>1, <2>2, <2>3, <2>4 DEF FirstTexts
<1>4. FileTypes
  <2>1. Missing.kind = "missing"
    BY DEF Missing, Text
  <2>2. QED
    BY <1>1, <1>3, <2>1 DEF FileTypes
<1>5. ArrayInv /\ UserEntriesKept /\ ThroughInv /\ OriginalInv
  BY <1>1 DEF ArrayInv, UserEntriesKept, ThroughInv, Through, OriginalInv
<1>6. QED
  BY <1>2, <1>4, <1>5 DEF InstallInv

LEMMA InstallNext == InstallInv /\ [Next]_vars => InstallInv'
BY RunNext, FileNext, ArrayNext, UserNext, ThroughNext, OriginalNext DEF InstallInv

LEMMA InstallInvariant == Spec => []InstallInv
BY InstallInit, InstallNext, PTL DEF Spec

\* Every variable keeps its type, and a file never holds more than the user put there,
\* what it had at first and zcc's entries once.
THEOREM InstallTypeCorrect == Spec => []TypeOK
<1>1. InstallInv => TypeOK
  <2> SUFFICES ASSUME InstallInv PROVE TypeOK
    OBVIOUS
  <2>1. RunTypes /\ FileTypes
    BY DEF InstallInv
  <2>2. ASSUME NEW f \in Files
        PROVE  /\ ToSet(file[f].list) \subseteq Entries(f)
               /\ Len(file[f].list) <= MaxEntries + MaxSaves + Len(Ours(f))
    <3>1. PICK s \in Seq(Entries(f)) : s = file[f].list /\ Short(f, s, saves)
      BY <2>1 DEF FileTypes, IsText
    <3>2. ToSet(s) \subseteq Entries(f)
      BY DEF ToSet
    <3>3. Len(s) \in Nat /\ Len(Ours(f)) \in Nat
      BY MatchesEmitted
    <3>4. QED
      BY <2>1, <3>1, <3>2, <3>3, BoundAssumption DEF Short, RunTypes
  <2>3. QED
    BY <2>1, <2>2 DEF TypeOK, RunTypes, FileTypes, IsText
<1>2. QED
  BY <1>1, InstallInvariant, PTL

\* A file holds all entries of the user's in their order but those that the predicates
\* take for zcc's, unless a write of it was cut short or the user saved it behind a
\* run's back (install/mod.rs:37-76 and 95-113).
THEOREM UserEntriesAreKept == Spec => []UserEntriesKept
<1>1. InstallInv => UserEntriesKept
  BY DEF InstallInv
<1>2. QED
  BY <1>1, InstallInvariant, PTL

\* What the user last saved is in the file or in its backup at every step and after
\* every crash, but for the exceptions of OriginalKept (install/mod.rs:78-85).
THEOREM OriginalIsKept == Spec => []OriginalKept
<1>1. InstallInv => OriginalKept
  BY DEF InstallInv, OriginalInv, OriginalKept
<1>2. QED
  BY <1>1, InstallInvariant, PTL

\* A run that ends well leaves each of zcc's entries once, or none, whatever was there
\* before, and doctor counts them (install/mod.rs:195-241, doctor.rs:43-78).
THEOREM RunsEndAsAnnounced == Spec => []EndsAsAnnounced
<1>1. InstallInv => EndsAsAnnounced
  <2> SUFFICES ASSUME InstallInv, at = "done", NEW f \in Files, "overtaken" \notin marks[f]
               PROVE  /\ Only(file[f].list, Emitted(f)) = IF cmd = "install" THEN Ours(f) ELSE <<>>
                      /\ check_file(f) = Len(Only(file[f].list, Emitted(f)))
    BY DEF EndsAsAnnounced
  <2>1. Zcc(f, file[f].list) = Announced(f) /\ Counted(f, file[f].list) = Announced(f)
    BY DEF InstallInv, ThroughInv, Through, AsAnnounced
  <2>2. check_file(f) = Len(Only(file[f].list, Emitted(f)))
    <3>1. CASE file[f].kind = "array"
      <4>1. check_file(f) = Len(Counted(f, file[f].list))
        BY <3>1, MatchesEmitted DEF check_file, Counted
      <4>2. QED
        BY <2>1, <4>1 DEF Zcc
    <3>2. CASE file[f].kind # "array"
      <4>1. file[f].list = <<>>
        BY <3>2 DEF InstallInv, FileTypes, IsText
      <4>2. QED
        BY <3>2, <4>1, OnlyEmpty DEF check_file
    <3>3. QED
      BY <3>1, <3>2
  <2>3. QED
    BY <2>1, <2>2 DEF Zcc, Announced
<1>2. QED
  BY <1>1, InstallInvariant, PTL

\* A run gives a key to the task only when the task is there, however runs were cut
\* short before (install/mod.rs:15-21).
THEOREM NoBindingDangles == Spec => NoDanglingBinding
<1>1. InstallInv /\ [Next]_vars =>
        [~Binds(file["keymap"]) /\ Binds(file'["keymap"]) /\ "overtaken" \notin marks["tasks"]
           => zcc_task \in ToSet(file'["tasks"].list)]_vars
  <2> SUFFICES ASSUME InstallInv, Next, ~Binds(file["keymap"]), Binds(file'["keymap"]),
                      "overtaken" \notin marks["tasks"]
               PROVE  zcc_task \in ToSet(file'["tasks"].list)
    OBVIOUS
  <2>1. RunTypes /\ FileTypes /\ ArrayInv /\ ThroughInv
    BY DEF InstallInv
  <2>2. file'["keymap"] # file["keymap"]
    OBVIOUS
  <2>3. ASSUME NEW t \in {Missing, Blank, Broken} PROVE ~Binds(t)
    BY <2>3 DEF Binds, Missing, Blank, Broken, Text, ToSet
  <2>4. ASSUME NEW g \in Files, Save(g) PROVE FALSE
    <3>1. g = "keymap"
      BY <2>1, <2>2, <2>4, SaveEffect, OrderOfFiles
    <3> DEFINE texts == {Missing, Broken}
                          \cup {Array(Append(file[g].list, v), TRUE) : v \in Foreign(g)}
    <3>2. PICK t \in texts : file' = [file EXCEPT ![g] = t]
      BY <2>4, Zenon DEF Save
    <3>3. file'["keymap"] = t
      BY <2>1, <3>1, <3>2, OrderOfFiles DEF FileTypes
    <3>4. PICK v \in Foreign("keymap") : t = Array(Append(file["keymap"].list, v), TRUE)
      BY <2>3, <3>1, <3>3
    <3>5. /\ file["keymap"].list \in Seq(Entries("keymap")) /\ v \in Entries("keymap")
          /\ v \notin Emitted("keymap")
      BY <2>1, OrderOfFiles, MatchesEmitted, MatchesTaken DEF FileTypes, IsText
    <3>6. t.list = Append(file["keymap"].list, v)
      BY <3>4 DEF Array, Text
    <3>7. ToSet(t.list) = ToSet(file["keymap"].list) \cup {v}
      BY <3>5, <3>6, AppendElement
    <3>8. QED
      BY <3>3, <3>5, <3>7 DEF Binds
  <2>5. CASE Truncate \/ Abort
    <3>1. file'["keymap"] \in {file["keymap"], Blank, Broken}
      BY <2>1, <2>5, OrderOfFiles DEF FileTypes, Truncate, Abort
    <3>2. QED
      BY <2>2, <2>3, <3>1
  <2>6. CASE Write
    <3>1. at = "write" /\ file' = [file EXCEPT ![cur] = Array(arr, FALSE)]
      BY <2>6 DEF Write
    <3>2. cur = "keymap"
      BY <2>1, <2>2, <3>1, OrderOfFiles DEF FileTypes, RunTypes
    <3>3. file'["keymap"].list = arr /\ file'["tasks"] = file["tasks"]
      BY <2>1, <3>1, <3>2, OrderOfFiles DEF FileTypes, Array, Text
    <3>4. arr \in Seq(Entries("keymap"))
      BY <2>1, <3>2 DEF RunTypes
    <3>5. PICK v \in ToSet(arr) : v \in Emitted("keymap")
      BY <3>3 DEF Binds
    <3>7. cmd = "install"
      <4>1. v \in ToSet(Zcc("keymap", arr))
        BY <3>4, <3>5, Parts, OrderOfFiles
      <4>2. ToSet(<<>>) = {}
        BY DEF ToSet
      <4>3. Zcc("keymap", arr) # <<>>
        BY <4>1, <4>2
      <4>4. QED
        BY <2>1, <3>1, <3>2, <4>3 DEF ArrayInv, AsAnnounced, Announced
    <3>8. Zcc("tasks", file["tasks"].list) = <<zcc_task>>
      BY <2>1, <3>1, <3>2, <3>7, OrderOfFiles DEF ThroughInv, Through, AsAnnounced, Announced, Ours
    <3>9. zcc_task \in ToSet(<<zcc_task>>)
      BY DEF ToSet
    <3>10. file["tasks"].list \in Seq(Entries("tasks"))
      BY <2>1, OrderOfFiles DEF FileTypes, IsText
    <3>11. QED
      BY <3>3, <3>8, <3>9, <3>10, Parts, OrderOfFiles
  <2>7. QED
    BY <2>2, <2>4, <2>5, <2>6 DEF Next, Begin, Backup, BackupEnd, ReadArray, ReadToRemove, Fail
<1>2. QED
  BY <1>1, InstallInvariant, PTL DEF Spec, NoDanglingBinding
=============================================================================
