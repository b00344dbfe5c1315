----------------------------- MODULE Progress_proof -----------------------------
(***************************************************************************)
(* What is proved of the four parts that must come to an end of what they  *)
(* do: the dataset files, the DuckDB cache built from one, a browser on a  *)
(* run's event stream, and the readiness probe.                            *)
(***************************************************************************)
EXTENDS DatasetFiles, SemanticCache, WebInteraction, WorkerReadiness,
        SequenceTheorems, FiniteSetTheorems, TLAPS

-----------------------------------------------------------------------------
(***************************************************************************)
(* DatasetFiles.                                                           *)
(***************************************************************************)
Pieces(S) == UNION {[1 .. n -> S] : n \in 0 .. Chunks}
Shown == {"right", "wrong", "hole"}
Came == {"right", "wrong"}

LEMMA FilesNumbers ==
    /\ Chunks \in Nat /\ Chunks > 0 /\ IsFiniteSet(Fetchers)
    /\ Cardinality(Fetchers) \in Nat /\ Inodes = 1 .. Cardinality(Fetchers) + 2
BY FilesAssumption, FS_CardinalityType DEF Inodes

(* The pieces of an object are a sequence that is not too long.            *)
LEMMA PiecesSeq ==
    ASSUME NEW S, NEW x
    PROVE  x \in Pieces(S) <=> x \in Seq(S) /\ Len(x) <= Chunks
<1>1. ASSUME x \in Pieces(S) PROVE x \in Seq(S) /\ Len(x) <= Chunks
  <2>1. PICK n \in 0 .. Chunks : x \in [1 .. n -> S]
    BY <1>1 DEF Pieces
  <2>2. n \in Nat /\ n <= Chunks
    BY FilesNumbers
  <2>3. x \in Seq(S) /\ Len(x) = n
    BY <2>1, <2>2, SeqDef, LenProperties
  <2>4. QED BY <2>2, <2>3
<1>2. ASSUME x \in Seq(S), Len(x) <= Chunks PROVE x \in Pieces(S)
  <2>1. Len(x) \in Nat /\ x \in [1 .. Len(x) -> S]
    BY <1>2, LenProperties
  <2>2. Len(x) \in 0 .. Chunks
    BY <1>2, <2>1, FilesNumbers
  <2>3. QED BY <2>1, <2>2 DEF Pieces
<1>3. QED BY <1>1, <1>2

(* A piece that is written where the content ends is appended to it, and   *)
(* wherever it is written the content stays one that an object can have.   *)
LEMMA WriteAtEnd ==
    ASSUME NEW S, NEW d \in Seq(S), NEW p \in S
    PROVE  WriteAt(d, Len(d) + 1, p) = Append(d, p)
<1>1. Len(d) \in Nat
  BY LenProperties
<1>2. WriteAt(d, Len(d) + 1, p) = [i \in 1 .. Len(d) + 1 |-> IF i = Len(d) + 1 THEN p ELSE d[i]]
  BY <1>1 DEF WriteAt
<1>3. /\ Append(d, p) \in Seq(S) /\ Len(Append(d, p)) = Len(d) + 1
      /\ \A i \in 1 .. Len(d) : Append(d, p)[i] = d[i]
      /\ Append(d, p)[Len(d) + 1] = p
  BY AppendProperties
<1>4. Append(d, p) \in [1 .. Len(d) + 1 -> S]
  BY <1>3, LenProperties
<1>5. QED BY <1>1, <1>2, <1>3, <1>4

LEMMA WriteTyped ==
    ASSUME NEW d \in Pieces(Shown), NEW k \in 1 .. Chunks, NEW p \in Came
    PROVE  WriteAt(d, k, p) \in Pieces(Shown)
<1>1. d \in Seq(Shown) /\ Len(d) <= Chunks
  BY PiecesSeq
<1>2. Len(d) \in Nat /\ d \in [1 .. Len(d) -> Shown]
  BY <1>1, LenProperties
<1> DEFINE n == IF k > Len(d) THEN k ELSE Len(d)
<1>3. n \in 0 .. Chunks
  BY <1>1, <1>2, FilesNumbers
<1>4. WriteAt(d, k, p) \in [1 .. n -> Shown]
  BY <1>2 DEF WriteAt, Shown, Came
<1>5. QED BY <1>3, <1>4 DEF Pieces

LEMMA FilesTypes == FilesTypeOK <=>
    /\ use \in Uses /\ file \in [Names -> 0 .. Cardinality(Fetchers) + 2]
    /\ data \in [Inodes -> Pieces(Shown)]
    /\ fetch \in [Fetchers -> {"idle", "look", "hash", "drop", "request", "write",
                               "replace", "returned", "raised"}]
    /\ fd \in [Fetchers -> 0 .. Cardinality(Fetchers) + 2]
    /\ sent \in [Fetchers -> Pieces(Came)]
    /\ ready \in BOOLEAN /\ crowded \in SUBSET Fetchers /\ mishaps \in [FilesMishaps -> Nat]
BY Zenon DEF FilesTypeOK, Pieces, Shown, Came

(* There are more inodes than names and descriptors in use: when the       *)
(* partial name is free, a new file finds one.                             *)
LEMMA UnusedThere ==
    ASSUME FilesTypeOK, file["partial"] = 0, NEW f \in Fetchers
    PROVE  Unused \in Inodes /\ Unused # file["final"] /\ \A g \in Fetchers : Unused # fd[g]
<1>1. PICK n \in Nat : n = Cardinality(Fetchers) /\ Inodes = 1 .. n + 2
  BY FilesNumbers
<1>2. fd \in [Fetchers -> 0 .. n + 2] /\ IsFiniteSet(Fetchers)
  BY <1>1, FilesTypes, FilesNumbers
<1> DEFINE U == {fd[g] : g \in Fetchers}
<1>3. IsFiniteSet(U) /\ Cardinality(U) <= n /\ Cardinality(U) \in Nat
  <2>1. fd \in Surjection(Fetchers, U)
    BY <1>2 DEF Surjection
  <2>2. IsFiniteSet(U) /\ Cardinality(U) <= Cardinality(Fetchers)
    BY <1>2, <2>1, FS_Surjection
  <2>3. QED BY <1>1, <2>2, FS_CardinalityType
<1> DEFINE V == U \cup {file["final"]}
<1>4. IsFiniteSet(V) /\ Cardinality(V) <= n + 1 /\ Cardinality(V) \in Nat
  <2>1. IsFiniteSet(V) /\ (Cardinality(V) = Cardinality(U) \/ Cardinality(V) = Cardinality(U) + 1)
    BY <1>3, FS_AddElement
  <2>2. QED BY <1>3, <2>1, FS_CardinalityType
<1> DEFINE W == V \cup {0}
<1>5. IsFiniteSet(W) /\ Cardinality(W) <= n + 2 /\ Cardinality(W) \in Nat
  <2>1. IsFiniteSet(W) /\ (Cardinality(W) = Cardinality(V) \/ Cardinality(W) = Cardinality(V) + 1)
    BY <1>4, FS_AddElement
  <2>2. QED BY <1>4, <2>1, FS_CardinalityType
<1>6. \E i \in Inodes : i \notin W
  <2> SUFFICES ASSUME \A i \in Inodes : i \in W PROVE FALSE
    OBVIOUS
  <2>1. 0 .. n + 2 \in SUBSET W
    <3>1. \A i \in 0 .. n + 2 : i = 0 \/ i \in Inodes
      BY <1>1
    <3>2. QED BY <3>1
  <2>2. Cardinality(0 .. n + 2) <= n + 2
    <3>1. Cardinality(0 .. n + 2) <= Cardinality(W) /\ IsFiniteSet(0 .. n + 2)
      BY <1>5, <2>1, FS_Subset
    <3>2. Cardinality(0 .. n + 2) \in Nat
      BY <3>1, FS_CardinalityType
    <3>3. QED BY <1>5, <3>1, <3>2
  <2>3. Cardinality(0 .. n + 2) = n + 3
    <3>1. 0 \in Int /\ n + 2 \in Int
      OBVIOUS
    <3>2. Cardinality(0 .. n + 2) = IF 0 <= n + 2 THEN n + 2 - 0 + 1 ELSE 0
      BY <3>1, FS_Interval
    <3>3. QED BY <3>2
  <2>4. QED BY <2>2, <2>3
<1>7. \E i \in Inodes : \A m \in Names, g \in Fetchers : i # file[m] /\ i # fd[g]
  <2>1. PICK i \in Inodes : i \notin W
    BY <1>6
  <2>2. i # 0 /\ i # file["final"] /\ \A g \in Fetchers : i # fd[g]
    BY <2>1
  <2>3. QED BY <2>2 DEF Names
<1>8. Unused \in Inodes /\ \A m \in Names, g \in Fetchers : Unused # file[m] /\ Unused # fd[g]
  BY <1>7 DEF Unused
<1>9. QED BY <1>8 DEF Names

Stages == {"idle", "look", "hash", "drop", "request", "write", "replace", "returned", "raised"}
FilesTyped ==
    /\ use \in Uses /\ file \in [Names -> 0 .. Cardinality(Fetchers) + 2]
    /\ data \in [Inodes -> Pieces(Shown)]
    /\ fetch \in [Fetchers -> Stages]
    /\ fd \in [Fetchers -> 0 .. Cardinality(Fetchers) + 2]
    /\ sent \in [Fetchers -> Pieces(Came)]
    /\ ready \in BOOLEAN /\ crowded \in SUBSET Fetchers /\ mishaps \in [FilesMishaps -> Nat]

(* What a fetcher does that moves no piece: it goes on, it gives up what it *)
(* had open, it frees a name or puts the one under the other.              *)
Freed == \/ file' = [file EXCEPT !["final"] = 0] \/ file' = [file EXCEPT !["partial"] = 0]
         \/ file' = [final |-> file["partial"], partial |-> 0] \/ file' = file
LEMMA MovesTyped ==
    ASSUME FilesTyped, NEW f \in Fetchers, NEW l \in Stages, FilesGoto(f, l), Freed,
           fd' = fd \/ fd' = [fd EXCEPT ![f] = 0],
           sent' = sent \/ sent' = [sent EXCEPT ![f] = <<>>],
           use' = use, data' = data, ready' \in BOOLEAN, crowded' \in SUBSET Fetchers,
           mishaps' = mishaps \/ \E k \in FilesMishaps : FilesMishap(k)
    PROVE  FilesTyped'
<1>1. <<>> \in Pieces(Came)
  <2>1. <<>> \in Seq(Came) /\ Len(<<>>) <= Chunks
    BY EmptySeq, FilesNumbers
  <2>2. QED BY <2>1, PiecesSeq
<1>2. 0 \in 0 .. Cardinality(Fetchers) + 2
  BY FilesNumbers
<1>3. file' \in [Names -> 0 .. Cardinality(Fetchers) + 2]
  <2>1. file \in [Names -> 0 .. Cardinality(Fetchers) + 2] /\ "final" \in Names /\ "partial" \in Names
    BY DEF FilesTyped, Names
  <2>2. CASE file' = [final |-> file["partial"], partial |-> 0]
    <3>1. file' = [n \in Names |-> IF n = "final" THEN file["partial"] ELSE 0]
      BY <2>2 DEF Names
    <3>2. QED BY <1>2, <2>1, <3>1
  <2>3. CASE file' # [final |-> file["partial"], partial |-> 0]
    BY <1>2, <2>1, <2>3 DEF Freed
  <2>4. QED BY <2>2, <2>3
<1>4. fetch' \in [Fetchers -> Stages]
  BY DEF FilesTyped, FilesGoto
<1>5. fd' \in [Fetchers -> 0 .. Cardinality(Fetchers) + 2]
  BY <1>2 DEF FilesTyped
<1>6. sent' \in [Fetchers -> Pieces(Came)]
  BY <1>1 DEF FilesTyped
<1>7. mishaps' \in [FilesMishaps -> Nat]
  BY DEF FilesTyped, FilesMishap
<1>8. QED BY <1>3, <1>4, <1>5, <1>6, <1>7 DEF FilesTyped

Writing(f) == fetch[f] \in {"write", "replace"}

(* A descriptor is open exactly while its fetcher writes or is about to    *)
(* replace, and it replaces only once it has received what it asked for;   *)
(* no file has both names; and, unless a fetcher was killed or the disk    *)
(* was full, a partial file is somebody's who will replace or discard it.  *)
Tidy ==
    /\ \A f \in Fetchers : Writing(f) => fd[f] # 0
    /\ \A f \in Fetchers : ~Writing(f) => fd[f] = 0 /\ sent[f] = <<>>
    /\ \A f \in Fetchers : fetch[f] = "replace" => sent[f] = Right
    /\ file["partial"] # 0 => file["partial"] # file["final"]
    /\ mishaps["crash"] = 0 /\ mishaps["disk"] = 0 /\ file["partial"] # 0
          => \E f \in Fetchers : Writing(f)
    /\ \A f \in Fetchers : ~FilesIdle(f) => f \in use.fetchers

(* A fetcher that nobody overlaps works alone, and what it has received is *)
(* what is on disk under the partial name.                                 *)
Sole(f) ==
    ~FilesIdle(f) /\ f \notin crowded =>
       /\ \A g \in Fetchers : g # f => FilesIdle(g)
       /\ Writing(f) => file["partial"] = fd[f] /\ data[fd[f]] = sent[f]

(* Where one fetcher at a time works, nobody is ever overlapped, and what   *)
(* is under the final name is right unless it was damaged.                 *)
Solo == ~Registered \/ Alone
OneFetch ==
    /\ crowded = {}
    /\ mishaps["damage"] = 0 /\ file["final"] # 0 => data[file["final"]] = Right

(* _ready is set only for the default dataset, once its file is there; no  *)
(* file of that dataset is dropped.                                        *)
ReadyThere ==
    /\ ready = TRUE => ~Registered /\ file["final"] # 0
    /\ ~Registered => \A f \in Fetchers : fetch[f] # "drop"
FilesInv == FilesTyped /\ Tidy /\ (\A f \in Fetchers : Sole(f)) /\ (Solo => OneFetch) /\ ReadyThere

(* The step of one fetcher leaves no other working alone: it did not.      *)
LEMMA OthersSole ==
    ASSUME FilesInv, NEW f \in Fetchers, ~FilesIdle(f), crowded' = crowded,
           \A g \in Fetchers : g # f => fetch'[g] = fetch[g]
    PROVE  \A g \in Fetchers : g # f => Sole(g)'
BY DEF FilesInv, Sole, FilesIdle

(* The only fetcher of a dataset is the only one.                          *)
LEMMA AloneOne ==
    ASSUME FilesTyped, Alone
    PROVE  \A g, h \in use.fetchers : g = h
<1>1. use.fetchers \in SUBSET Fetchers
  BY FilesAssumption DEF FilesTyped
<1>2. IsFiniteSet(use.fetchers) /\ Cardinality(use.fetchers) = 1
  BY <1>1, FilesNumbers, FS_Subset DEF Alone
<1>3. PICK x : use.fetchers = {x}
  BY <1>2, FS_Singleton
<1>4. QED BY <1>3

(* The step of a fetcher that neither was nor becomes a writer.            *)
LEMMA Strolls ==
    ASSUME FilesInv, NEW f \in Fetchers, NEW l \in Stages \ {"write", "replace"},
           ~Writing(f), ~FilesIdle(f), fetch' = [fetch EXCEPT ![f] = l],
           UNCHANGED <<use, data, fd, sent, crowded, mishaps>>,
           l = "drop" => Registered,
           file' = file \/ file' = [file EXCEPT !["final"] = 0],
           ready' \in BOOLEAN, ready' = TRUE => ~Registered /\ file'["final"] # 0
    PROVE  FilesInv'
<1>1. FilesTyped'
  <2>1. crowded' \in SUBSET Fetchers
    BY DEF FilesInv, FilesTyped
  <2>2. QED BY <2>1, MovesTyped DEF FilesInv, FilesGoto, Freed
<1>2. /\ file'["partial"] = file["partial"] /\ (file'["final"] = file["final"] \/ file'["final"] = 0)
      /\ fetch'[f] = l /\ \A g \in Fetchers : g # f => fetch'[g] = fetch[g]
  BY DEF FilesInv, FilesTyped, Names
<1>3. \A g \in Fetchers : Writing(g)' <=> Writing(g)
  BY <1>2 DEF Writing
<1>4. Tidy'
  <2>1. \A g \in Fetchers : ~FilesIdle(g)' => g \in use'.fetchers
    BY <1>2 DEF FilesInv, Tidy, FilesIdle
  <2>2. file'["partial"] # 0 => file'["partial"] # file'["final"]
    BY <1>2 DEF FilesInv, Tidy
  <2>3. mishaps'["crash"] = 0 /\ mishaps'["disk"] = 0 /\ file'["partial"] # 0
          => \E g \in Fetchers : Writing(g)'
    BY <1>2, <1>3 DEF FilesInv, Tidy
  <2>4. \A g \in Fetchers : fetch'[g] = "replace" => sent'[g] = Right
    BY <1>2 DEF FilesInv, Tidy
  <2>5. QED BY <1>3, <2>1, <2>2, <2>3, <2>4 DEF FilesInv, Tidy, Right
<1>5. \A g \in Fetchers : Sole(g)'
  <2>1. \A g \in Fetchers : g # f => Sole(g)'
    BY <1>2, OthersSole
  <2>2. Sole(f)'
    BY <1>2, <1>3 DEF FilesInv, Sole, FilesIdle
  <2>3. QED BY <2>1, <2>2
<1>6. Solo' => OneFetch'
  BY <1>2 DEF Solo, Registered, Alone, OneFetch, FilesInv, Right
<1>7. ReadyThere'
  BY <1>2 DEF FilesInv, ReadyThere, Registered
<1>8. QED BY <1>1, <1>4, <1>5, <1>6, <1>7 DEF FilesInv

(* A call of ensure: it overlaps whoever is busy.  Where one fetcher at a   *)
(* time works, nobody is.                                                  *)
LEMMA Enters ==
    ASSUME FilesInv, NEW f \in Fetchers, Ensure(f)
    PROVE  FilesInv'
<1>1. PICK l \in {"returned", "look"} :
        /\ f \in use.fetchers /\ FilesIdle(f) /\ Admitted(f) /\ fetch' = [fetch EXCEPT ![f] = l]
        /\ UNCHANGED <<use, file, data, fd, sent, ready, mishaps>>
  BY DEF Ensure, FilesGoto
<1>2. crowded' = IF Busy = {} THEN {} ELSE Busy \cup {f}
  BY DEF Ensure
<1>3. l \in Stages /\ crowded' \in SUBSET Fetchers
  BY <1>2 DEF Stages, Busy
<1>4. FilesTyped'
  BY <1>1, <1>3 DEF FilesInv, FilesTyped
<1>5. fetch'[f] = l /\ \A g \in Fetchers : g # f => fetch'[g] = fetch[g]
  BY <1>1 DEF FilesInv, FilesTyped
<1>6. \A g \in Fetchers : Writing(g)' <=> Writing(g)
  BY <1>1, <1>5 DEF Writing, FilesIdle
<1>7. Tidy'
  <2>1. \A g \in Fetchers : ~FilesIdle(g)' => g \in use'.fetchers
    BY <1>1, <1>5 DEF FilesInv, Tidy, FilesIdle
  <2>2. \A g \in Fetchers : fetch'[g] = "replace" => sent'[g] = Right
    BY <1>1, <1>5 DEF FilesInv, Tidy
  <2>3. QED BY <1>1, <1>6, <2>1, <2>2 DEF FilesInv, Tidy, Right
<1>8. \A g \in Fetchers : Sole(g)'
  <2>1. CASE Busy = {}
    <3>1. \A g \in Fetchers : FilesIdle(g)
      BY <2>1 DEF Busy
    <3>2. QED BY <1>1, <1>5, <1>6, <3>1 DEF Sole, FilesIdle, Writing
  <2>2. CASE Busy # {}
    <3>1. \A g \in Fetchers : ~FilesIdle(g)' => g \in crowded'
      BY <1>2, <1>5, <2>2 DEF Busy, FilesIdle
    <3>2. QED BY <3>1 DEF Sole
  <2>3. QED BY <2>1, <2>2
<1>9. Solo' => OneFetch'
  <2> SUFFICES ASSUME Solo PROVE OneFetch'
    BY <1>1 DEF Solo, Registered, Alone
  <2>1. Busy = {}
    <3>1. CASE Registered
      <4>1. \A g, h \in use.fetchers : g = h
        BY <3>1, AloneOne DEF Solo, FilesInv
      <4>2. \A g \in Fetchers : ~FilesIdle(g) => g \in use.fetchers
        BY DEF FilesInv, Tidy
      <4>3. QED BY <1>1, <4>1, <4>2 DEF Busy
    <3>2. CASE ~Registered
      BY <1>1, <3>2 DEF Admitted, Busy
    <3>3. QED BY <3>1, <3>2
  <2>2. QED BY <1>1, <1>2, <2>1 DEF FilesInv, OneFetch, Right
<1>10. ReadyThere'
  BY <1>1, <1>5 DEF FilesInv, ReadyThere, Registered
<1>11. QED BY <1>4, <1>7, <1>8, <1>9, <1>10 DEF FilesInv

(* A fetcher that leaves its file behind has freed the partial name, has   *)
(* put its file under the final one, or found the disk full.               *)
LEMMA Leaves ==
    ASSUME FilesInv, NEW f \in Fetchers, NEW l \in {"raised", "returned"}, Finish(f, l),
           ~FilesIdle(f), UNCHANGED <<use, data, crowded>>,
           \/ /\ file' = [file EXCEPT !["partial"] = 0] /\ ready' = ready
              /\ mishaps' = mishaps \/ FilesMishap("download")
           \/ file["partial"] = 0 /\ UNCHANGED <<file, ready, mishaps>>
           \/ UNCHANGED <<file, ready>> /\ FilesMishap("disk")
           \/ /\ fetch[f] = "replace" /\ file["partial"] # 0 /\ ready' = ~Registered
              /\ file' = [final |-> file["partial"], partial |-> 0] /\ mishaps' = mishaps
    PROVE  FilesInv'
<1>1. /\ fetch' = [fetch EXCEPT ![f] = l] /\ fd' = [fd EXCEPT ![f] = 0]
      /\ sent' = [sent EXCEPT ![f] = <<>>] /\ l \in Stages
  BY DEF Finish, FilesGoto, Stages
<1>2. FilesTyped'
  <2>1. mishaps' = mishaps \/ \E k \in FilesMishaps : FilesMishap(k)
    BY DEF FilesMishaps
  <2>2. ready' \in BOOLEAN /\ crowded' \in SUBSET Fetchers /\ Freed
    BY DEF FilesInv, FilesTyped, Freed
  <2>3. QED BY <1>1, <2>1, <2>2, MovesTyped DEF FilesInv, FilesGoto
<1>3. /\ fetch'[f] = l /\ fd'[f] = 0 /\ sent'[f] = <<>>
      /\ \A g \in Fetchers : g # f => fetch'[g] = fetch[g] /\ fd'[g] = fd[g] /\ sent'[g] = sent[g]
  BY <1>1 DEF FilesInv, FilesTyped
<1>4. file'["partial"] = 0 \/ (mishaps'["disk"] # 0 /\ file' = file)
  BY DEF FilesInv, FilesTyped, Names, FilesMishaps, FilesMishap
<1>5. mishaps'["crash"] = mishaps["crash"] /\ mishaps'["damage"] = mishaps["damage"]
  BY DEF FilesInv, FilesTyped, FilesMishaps, FilesMishap
<1>6. Tidy'
  <2>1. \A g \in Fetchers : Writing(g)' => fd'[g] # 0
    BY <1>3 DEF FilesInv, Tidy, Writing
  <2>2. \A g \in Fetchers : ~Writing(g)' => fd'[g] = 0 /\ sent'[g] = <<>>
    BY <1>3 DEF FilesInv, Tidy, Writing
  <2>3. \A g \in Fetchers : ~FilesIdle(g)' => g \in use'.fetchers
    BY <1>3 DEF FilesInv, Tidy, FilesIdle
  <2>4. \A g \in Fetchers : fetch'[g] = "replace" => sent'[g] = Right
    BY <1>3 DEF FilesInv, Tidy
  <2>5. file'["partial"] # 0 => file'["partial"] # file'["final"]
    BY <1>4 DEF FilesInv, Tidy
  <2>6. QED BY <1>4, <2>1, <2>2, <2>3, <2>4, <2>5 DEF Tidy, Right
<1>7. \A g \in Fetchers : Sole(g)'
  <2>1. \A g \in Fetchers : g # f => Sole(g)'
    BY <1>3, OthersSole
  <2>2. Sole(f)'
    BY <1>3 DEF Sole, FilesIdle
  <2>3. QED BY <2>1, <2>2
<1>8. Solo' => OneFetch'
  <2> SUFFICES ASSUME Solo PROVE OneFetch'
    BY DEF Solo, Registered, Alone
  <2>0. OneFetch
    BY DEF FilesInv
  <2>1. mishaps'["damage"] = 0 /\ file'["final"] # 0 => data'[file'["final"]] = Right
    <3> SUFFICES ASSUME mishaps["damage"] = 0, file'["final"] # 0 PROVE data[file'["final"]] = Right
      BY <1>5 DEF Right
    <3>1. CASE file'["final"] = file["final"]
      BY <2>0, <3>1 DEF OneFetch
    <3>2. CASE file'["final"] # file["final"]
      <4>1. fetch[f] = "replace" /\ file'["final"] = file["partial"]
        BY <3>2 DEF FilesInv, FilesTyped, Names
      <4>2. file["partial"] = fd[f] /\ data[fd[f]] = sent[f] /\ sent[f] = Right
        BY <2>0, <4>1 DEF OneFetch, FilesInv, Sole, Tidy, Writing
      <4>3. QED BY <4>1, <4>2
    <3>3. QED BY <3>1, <3>2
  <2>2. QED BY <2>0, <2>1 DEF OneFetch, Right
<1>9. ReadyThere'
  <2>1. file["final"] # 0 => file'["final"] # 0
    BY DEF FilesInv, FilesTyped, Names
  <2>2. ready' = TRUE => ~Registered /\ file'["final"] # 0
    <3>1. CASE ready' = ready
      BY <2>1, <3>1 DEF FilesInv, ReadyThere
    <3>2. CASE /\ fetch[f] = "replace" /\ file["partial"] # 0 /\ ready' = (~Registered)
               /\ file' = [final |-> file["partial"], partial |-> 0]
      BY <3>2
    <3>3. QED BY <3>1, <3>2
  <2>3. QED BY <1>3, <2>2 DEF FilesInv, ReadyThere, Registered
<1>10. QED BY <1>2, <1>6, <1>7, <1>8, <1>9 DEF FilesInv

(* A fetcher that opens the partial file empties it, whoever else had it    *)
(* open; no file under the final name is touched.                          *)
LEMMA Opens ==
    ASSUME FilesInv, NEW f \in Fetchers, OpenPartial(f)
    PROVE  FilesInv'
<1> DEFINE i == IF file["partial"] = 0 THEN Unused ELSE file["partial"]
<1>1. /\ fetch[f] = "request" /\ file' = [file EXCEPT !["partial"] = i]
      /\ data' = [data EXCEPT ![i] = <<>>] /\ fd' = [fd EXCEPT ![f] = i]
      /\ fetch' = [fetch EXCEPT ![f] = "write"] /\ UNCHANGED <<use, sent, ready, crowded, mishaps>>
  BY DEF OpenPartial, FilesGoto
<1>2. FilesTypeOK
  BY FilesTypes, Zenon DEF FilesInv, FilesTyped, Stages
<1>3. i \in Inodes /\ i # file["final"] /\ i # 0 /\ i \in 0 .. Cardinality(Fetchers) + 2
  <2>1. CASE file["partial"] = 0
    <3>1. i = Unused /\ Unused \in Inodes /\ Unused # file["final"]
      BY <1>2, <2>1, UnusedThere
    <3>2. QED BY <3>1, FilesNumbers
  <2>2. CASE file["partial"] # 0
    <3>1. i = file["partial"] /\ i \in 0 .. Cardinality(Fetchers) + 2 /\ i # file["final"]
      BY <2>2 DEF FilesInv, FilesTyped, Names, Tidy
    <3>2. QED BY <2>2, <3>1, FilesNumbers
  <2>3. QED BY <2>1, <2>2
<1> HIDE DEF i
<1>4. <<>> \in Pieces(Shown)
  <2>1. <<>> \in Seq(Shown) /\ Len(<<>>) <= Chunks
    BY EmptySeq, FilesNumbers
  <2>2. QED BY <2>1, PiecesSeq
<1>5. FilesTyped'
  BY <1>1, <1>3, <1>4 DEF FilesInv, FilesTyped, Names, Stages
<1>6. /\ fetch'[f] = "write" /\ fd'[f] = i /\ file'["partial"] = i /\ file'["final"] = file["final"]
      /\ data'[i] = <<>> /\ \A j \in Inodes : j # i => data'[j] = data[j]
      /\ \A g \in Fetchers : g # f => fetch'[g] = fetch[g] /\ fd'[g] = fd[g]
  BY <1>1, <1>3 DEF FilesInv, FilesTyped, Names
<1>7. sent[f] = <<>> /\ f \in use.fetchers /\ ~FilesIdle(f)
  BY <1>1 DEF FilesInv, Tidy, Writing, FilesIdle
<1>8. Tidy'
  <2>1. \A g \in Fetchers : Writing(g)' => fd'[g] # 0
    BY <1>3, <1>6 DEF FilesInv, Tidy, Writing
  <2>2. \A g \in Fetchers : ~Writing(g)' => fd'[g] = 0 /\ sent'[g] = <<>>
    BY <1>1, <1>6 DEF FilesInv, Tidy, Writing
  <2>3. \A g \in Fetchers : ~FilesIdle(g)' => g \in use'.fetchers
    BY <1>1, <1>6, <1>7 DEF FilesInv, Tidy, FilesIdle
  <2>4. file'["partial"] # file'["final"] /\ \E g \in Fetchers : Writing(g)'
    BY <1>3, <1>6 DEF Writing
  <2>5. \A g \in Fetchers : fetch'[g] = "replace" => sent'[g] = Right
    BY <1>1, <1>6 DEF FilesInv, Tidy
  <2>6. QED BY <2>1, <2>2, <2>3, <2>4, <2>5 DEF Tidy, Right
<1>9. \A g \in Fetchers : Sole(g)'
  <2>1. \A g \in Fetchers : g # f => Sole(g)'
    BY <1>1, <1>6, <1>7, OthersSole
  <2>2. file'["partial"] = fd'[f] /\ data'[fd'[f]] = sent'[f]
    BY <1>1, <1>6, <1>7
  <2>3. f \notin crowded => \A g \in Fetchers : g # f => FilesIdle(g)'
    BY <1>6, <1>7 DEF FilesInv, Sole, FilesIdle
  <2>4. Sole(f)'
    BY <1>1, <2>2, <2>3 DEF Sole
  <2>5. QED BY <2>1, <2>4
<1>10. Solo' => OneFetch'
  <2> SUFFICES ASSUME Solo PROVE OneFetch'
    BY <1>1 DEF Solo, Registered, Alone
  <2>1. mishaps'["damage"] = 0 /\ file'["final"] # 0 => data'[file'["final"]] = Right
    <3>1. file["final"] # 0 => file["final"] \in Inodes
      BY FilesNumbers DEF FilesInv, FilesTyped, Names
    <3>2. QED BY <1>1, <1>3, <1>6, <3>1 DEF FilesInv, OneFetch
  <2>2. QED BY <1>1, <2>1 DEF FilesInv, OneFetch, Right
<1>11. ReadyThere'
  BY <1>1, <1>6 DEF FilesInv, ReadyThere, Registered
<1>12. QED BY <1>5, <1>8, <1>9, <1>10, <1>11 DEF FilesInv

(* A piece goes to the end of what the fetcher has on disk.                *)
LEMMA Receives ==
    ASSUME FilesInv, NEW f \in Fetchers, ReceivePiece(f)
    PROVE  FilesInv'
<1>1. PICK p \in Came :
        /\ mishaps' = mishaps \/ FilesMishap("download")
        /\ sent' = [sent EXCEPT ![f] = Append(sent[f], p)]
        /\ data' = [data EXCEPT ![fd[f]] = WriteAt(data[fd[f]], Len(sent[f]) + 1, p)]
  BY DEF ReceivePiece, Came
<1>2. fetch[f] = "write" /\ Len(sent[f]) < Chunks /\ UNCHANGED <<use, file, fetch, fd, ready, crowded>>
  BY DEF ReceivePiece
<1>3. sent[f] \in Seq(Came) /\ Len(sent[f]) \in Nat /\ fd[f] \in Inodes
  <2>1. sent[f] \in Seq(Came)
    BY PiecesSeq DEF FilesInv, FilesTyped
  <2>2. fd[f] # 0 /\ fd[f] \in 0 .. Cardinality(Fetchers) + 2
    BY <1>2 DEF FilesInv, FilesTyped, Tidy, Writing
  <2>3. QED BY <2>1, <2>2, LenProperties, FilesNumbers
<1>4. Append(sent[f], p) \in Pieces(Came)
  <2>1. Append(sent[f], p) \in Seq(Came) /\ Len(Append(sent[f], p)) = Len(sent[f]) + 1
    BY <1>3, AppendProperties
  <2>2. Len(Append(sent[f], p)) <= Chunks
    BY <1>2, <1>3, <2>1, FilesNumbers
  <2>3. QED BY <2>1, <2>2, PiecesSeq
<1>5. WriteAt(data[fd[f]], Len(sent[f]) + 1, p) \in Pieces(Shown)
  <2>1. data[fd[f]] \in Pieces(Shown)
    BY <1>3 DEF FilesInv, FilesTyped
  <2>2. Len(sent[f]) + 1 \in 1 .. Chunks
    BY <1>2, <1>3, FilesNumbers
  <2>3. QED BY <2>1, <2>2, WriteTyped
<1>6. mishaps' \in [FilesMishaps -> Nat] /\ mishaps'["crash"] = mishaps["crash"]
      /\ mishaps'["damage"] = mishaps["damage"] /\ mishaps'["disk"] = mishaps["disk"]
  BY <1>1 DEF FilesInv, FilesTyped, FilesMishaps, FilesMishap
<1>7. FilesTyped'
  BY <1>1, <1>2, <1>4, <1>5, <1>6 DEF FilesInv, FilesTyped
<1>8. /\ sent'[f] = Append(sent[f], p) /\ \A g \in Fetchers : g # f => sent'[g] = sent[g]
      /\ data'[fd[f]] = WriteAt(data[fd[f]], Len(sent[f]) + 1, p)
      /\ \A j \in Inodes : j # fd[f] => data'[j] = data[j]
  BY <1>1, <1>3 DEF FilesInv, FilesTyped
<1>9. Tidy'
  <2>1. \A g \in Fetchers : ~Writing(g)' => sent'[g] = sent[g]
    BY <1>2, <1>8 DEF Writing
  <2>2. \A g \in Fetchers : fetch[g] = "replace" => sent'[g] = sent[g]
    BY <1>2, <1>8
  <2>3. QED BY <1>2, <1>6, <2>1, <2>2 DEF FilesInv, Tidy, Writing, FilesIdle, Right
<1>10. \A g \in Fetchers : Sole(g)'
  <2>1. \A g \in Fetchers : g # f => Sole(g)'
    BY <1>2, OthersSole DEF FilesIdle
  <2>2. ASSUME f \notin crowded
        PROVE  /\ file["partial"] = fd[f] /\ data[fd[f]] = sent[f]
               /\ \A g \in Fetchers : g # f => FilesIdle(g)
    BY <1>2, <2>2 DEF FilesInv, Sole, FilesIdle, Writing
  <2>3. f \notin crowded => data'[fd[f]] = sent'[f]
    BY <1>3, <1>8, <2>2, WriteAtEnd
  <2>4. Sole(f)'
    BY <1>2, <2>2, <2>3 DEF Sole, FilesIdle
  <2>5. QED BY <2>1, <2>4
<1>11. Solo' => OneFetch'
  <2> SUFFICES ASSUME Solo PROVE OneFetch'
    BY <1>2 DEF Solo, Registered, Alone
  <2>0. OneFetch
    BY DEF FilesInv
  <2>1. file["partial"] = fd[f]
    BY <1>2, <2>0 DEF OneFetch, FilesInv, Sole, FilesIdle, Writing
  <2>2. mishaps'["damage"] = 0 /\ file'["final"] # 0 => data'[file'["final"]] = Right
    <3>1. file["final"] # 0 => file["final"] \in Inodes
      BY FilesNumbers DEF FilesInv, FilesTyped, Names
    <3>2. file["final"] # fd[f]
      BY <1>3, <2>1, FilesNumbers DEF FilesInv, Tidy
    <3>3. QED BY <1>2, <1>6, <1>8, <2>0, <3>1, <3>2 DEF OneFetch
  <2>3. QED BY <1>2, <2>0, <2>2 DEF OneFetch, Right
<1>12. ReadyThere'
  BY <1>2 DEF FilesInv, ReadyThere, Registered
<1>13. QED BY <1>7, <1>9, <1>10, <1>11, <1>12 DEF FilesInv

LEMMA StepFiles == FilesInv /\ [FilesNext]_filesVars => FilesInv'
<1> SUFFICES ASSUME FilesInv, [FilesNext]_filesVars PROVE FilesInv'
  OBVIOUS
<1>1. ASSUME NEW f \in Fetchers, Ensure(f) PROVE FilesInv'
  BY <1>1, Enters
<1>2. ASSUME NEW f \in Fetchers, Look(f) PROVE FilesInv'
  <2>1. PICK l \in {"hash", "request"} :
          /\ fetch[f] = "look" /\ fetch' = [fetch EXCEPT ![f] = l]
          /\ UNCHANGED <<use, file, data, fd, sent, ready, crowded, mishaps>>
    BY <1>2 DEF Look, FilesGoto
  <2>2. l \in Stages \ {"write", "replace"} /\ l # "drop" /\ ~Writing(f) /\ ~FilesIdle(f)
    BY <2>1 DEF Stages, Writing, FilesIdle
  <2>3. ready' \in BOOLEAN /\ (ready' = TRUE => ~Registered /\ file'["final"] # 0)
    BY <2>1 DEF FilesInv, FilesTyped, ReadyThere
  <2>4. QED BY <2>1, <2>2, <2>3, Strolls
<1>3. ASSUME NEW f \in Fetchers, Hash(f) PROVE FilesInv'
  <2>1. PICK l \in {"raised", "returned", "drop"} :
          /\ fetch[f] = "hash" /\ fetch' = [fetch EXCEPT ![f] = l]
          /\ UNCHANGED <<use, file, data, fd, sent, crowded, mishaps>>
          /\ \/ ready' = ready
             \/ file["final"] # 0 /\ ready' = (~Registered)
          /\ l = "drop" => Registered
    <3>1. CASE FilesGoto(f, "returned") /\ ready' = (~Registered) /\ file["final"] # 0
      BY <1>3, <3>1 DEF Hash, FilesGoto
    <3>2. CASE (FilesGoto(f, "raised") \/ FilesGoto(f, Mismatch)) /\ UNCHANGED ready
      BY <1>3, <3>2 DEF Hash, FilesGoto, Mismatch
    <3>3. QED BY <1>3, <3>1, <3>2 DEF Hash
  <2>2. l \in Stages \ {"write", "replace"} /\ ~Writing(f) /\ ~FilesIdle(f)
    BY <2>1 DEF Stages, Writing, FilesIdle
  <2>3. ready' \in BOOLEAN /\ (ready' = TRUE => ~Registered /\ file'["final"] # 0)
    BY <2>1 DEF FilesInv, FilesTyped, ReadyThere
  <2>4. QED BY <2>1, <2>2, <2>3, Strolls
<1>4. ASSUME NEW f \in Fetchers, Drop(f) PROVE FilesInv'
  <2>1. /\ fetch[f] = "drop" /\ fetch' = [fetch EXCEPT ![f] = "request"]
        /\ file' = [file EXCEPT !["final"] = 0]
        /\ UNCHANGED <<use, data, fd, sent, ready, crowded, mishaps>>
    BY <1>4 DEF Drop, FilesGoto, Discard
  <2>2. "request" \in Stages \ {"write", "replace"} /\ ~Writing(f) /\ ~FilesIdle(f)
    BY <2>1 DEF Stages, Writing, FilesIdle
  <2>3. Registered /\ ready' \in BOOLEAN /\ ready' # TRUE
    BY <2>1 DEF FilesInv, FilesTyped, ReadyThere
  <2>4. QED BY <2>1, <2>2, <2>3, Strolls
<1>5. ASSUME NEW f \in Fetchers, BreakDownload(f) \/ FillDisk(f) PROVE FilesInv'
  <2>1. /\ fetch[f] \in {"request", "write"} /\ Finish(f, "raised")
        /\ UNCHANGED <<use, data, ready, crowded>>
        /\ \/ file' = [file EXCEPT !["partial"] = 0] /\ FilesMishap("download")
           \/ file' = file /\ FilesMishap("disk")
    BY <1>5 DEF BreakDownload, FillDisk, Discard
  <2>2. ~FilesIdle(f)
    BY <2>1 DEF FilesIdle
  <2>3. QED BY <2>1, <2>2, Leaves
<1>6. ASSUME NEW f \in Fetchers, CheckDigest(f) PROVE FilesInv'
  <2>1. fetch[f] = "write" /\ ~FilesIdle(f)
    BY <1>6 DEF CheckDigest, FilesIdle
  <2>2. CASE sent[f] = Right
    <3>1. /\ fetch' = [fetch EXCEPT ![f] = "replace"]
          /\ UNCHANGED <<use, file, data, fd, sent, ready, crowded, mishaps>>
      BY <1>6, <2>2 DEF CheckDigest, FilesGoto
    <3>2. FilesTyped'
      BY <3>1 DEF FilesInv, FilesTyped, Stages
    <3>3. fetch'[f] = "replace" /\ \A g \in Fetchers : g # f => fetch'[g] = fetch[g]
      BY <3>1 DEF FilesInv, FilesTyped
    <3>4. \A g \in Fetchers : (Writing(g)' <=> Writing(g)) /\ (FilesIdle(g)' <=> FilesIdle(g))
      BY <2>1, <3>3 DEF Writing, FilesIdle
    <3>5. Tidy'
      BY <2>2, <3>1, <3>3, <3>4 DEF FilesInv, Tidy, Right
    <3>6. \A g \in Fetchers : Sole(g)'
      BY <3>1, <3>4 DEF FilesInv, Sole
    <3>7. (Solo' => OneFetch') /\ ReadyThere'
      BY <3>1, <3>3 DEF FilesInv, Solo, Registered, Alone, OneFetch, Right, ReadyThere
    <3>8. QED BY <3>2, <3>5, <3>6, <3>7 DEF FilesInv
  <2>3. CASE sent[f] # Right
    <3>1. /\ file' = [file EXCEPT !["partial"] = 0] /\ Finish(f, "raised")
          /\ UNCHANGED <<use, data, ready, crowded, mishaps>>
      BY <1>6, <2>3 DEF CheckDigest, Discard
    <3>2. QED BY <2>1, <3>1, Leaves
  <2>4. QED BY <2>2, <2>3
<1>7. ASSUME NEW f \in Fetchers, Replace(f) PROVE FilesInv'
  <2>1. fetch[f] = "replace" /\ ~FilesIdle(f) /\ UNCHANGED <<use, data, crowded, mishaps>>
    BY <1>7 DEF Replace, FilesIdle
  <2>2. CASE file["partial"] = 0
    <3>1. Finish(f, "raised") /\ UNCHANGED <<file, ready>>
      BY <1>7, <2>2 DEF Replace
    <3>2. QED BY <2>1, <2>2, <3>1, Leaves
  <2>3. CASE file["partial"] # 0
    <3>1. /\ file' = [final |-> file["partial"], partial |-> 0]
          /\ Finish(f, "returned") /\ ready' = ~Registered
      BY <1>7, <2>3 DEF Replace
    <3>2. QED BY <2>1, <2>3, <3>1, Leaves
  <2>4. QED BY <2>2, <2>3
<1>8. CASE CrashFetchers
  <2>1. /\ mishaps' = [mishaps EXCEPT !["crash"] = mishaps["crash"] + 1]
        /\ fetch' = [f \in Fetchers |-> "idle"] /\ fd' = [f \in Fetchers |-> 0]
        /\ sent' = [f \in Fetchers |-> <<>>] /\ ready' = FALSE /\ UNCHANGED <<use, file, data, crowded>>
    BY <1>8 DEF CrashFetchers, FilesMishap
  <2>2. mishaps' \in [FilesMishaps -> Nat] /\ mishaps'["crash"] # 0
        /\ mishaps'["damage"] = mishaps["damage"]
    BY <2>1 DEF FilesInv, FilesTyped, FilesMishaps
  <2>3. <<>> \in Pieces(Came)
    <3>1. <<>> \in Seq(Came) /\ Len(<<>>) <= Chunks
      BY EmptySeq, FilesNumbers
    <3>2. QED BY <3>1, PiecesSeq
  <2>4. 0 \in 0 .. Cardinality(Fetchers) + 2
    BY FilesNumbers
  <2>5. FilesTyped'
    BY <2>1, <2>2, <2>3, <2>4 DEF FilesInv, FilesTyped, Stages
  <2>6. \A f \in Fetchers : FilesIdle(f)' /\ ~Writing(f)' /\ fetch'[f] # "replace"
    BY <2>1 DEF FilesIdle, Writing
  <2>7. Tidy'
    BY <2>1, <2>2, <2>6 DEF FilesInv, Tidy
  <2>8. (Solo' => OneFetch') /\ ReadyThere'
    BY <2>1, <2>2 DEF FilesInv, Solo, Registered, Alone, OneFetch, Right, ReadyThere
  <2>9. \A f \in Fetchers : Sole(f)'
    BY <2>6 DEF Sole
  <2>10. QED BY <2>5, <2>7, <2>8, <2>9 DEF FilesInv
<1>9. CASE DamageFile
  <2> DEFINE i == file["final"]
  <2>1. /\ i # 0 /\ data[i] = Right
        /\ mishaps' = [mishaps EXCEPT !["damage"] = mishaps["damage"] + 1]
        /\ data' = [data EXCEPT ![i] = [data[i] EXCEPT ![1] = "wrong"]]
        /\ UNCHANGED <<use, file, fetch, fd, sent, ready, crowded>>
    BY <1>9 DEF DamageFile, FilesMishap
  <2>2. i \in Inodes
    BY <2>1, FilesNumbers DEF FilesInv, FilesTyped, Names
  <2> HIDE DEF i
  <2>3. mishaps' \in [FilesMishaps -> Nat] /\ mishaps'["damage"] # 0
        /\ mishaps'["crash"] = mishaps["crash"] /\ mishaps'["disk"] = mishaps["disk"]
    BY <2>1 DEF FilesInv, FilesTyped, FilesMishaps
  <2>4. [data[i] EXCEPT ![1] = "wrong"] \in Pieces(Shown)
    <3>1. data[i] \in Seq(Shown) /\ Len(data[i]) <= Chunks
      BY <2>2, PiecesSeq DEF FilesInv, FilesTyped
    <3>2. PICK n \in 0 .. Chunks : data[i] \in [1 .. n -> Shown]
      BY <2>2 DEF FilesInv, FilesTyped, Pieces
    <3>3. [data[i] EXCEPT ![1] = "wrong"] \in [1 .. n -> Shown]
      BY <3>2 DEF Shown
    <3>4. QED BY <3>2, <3>3 DEF Pieces
  <2>5. FilesTyped'
    BY <2>1, <2>2, <2>3, <2>4 DEF FilesInv, FilesTyped
  <2>6. \A f \in Fetchers : (Writing(f)' <=> Writing(f)) /\ (FilesIdle(f)' <=> FilesIdle(f))
    BY <2>1 DEF Writing, FilesIdle
  <2>7. Tidy'
    BY <2>1, <2>3, <2>6 DEF FilesInv, Tidy
  <2>8. \A j \in Inodes : j # i => data'[j] = data[j]
    BY <2>1, <2>2 DEF FilesInv, FilesTyped
  <2>9. ASSUME NEW f \in Fetchers PROVE Sole(f)'
    <3> SUFFICES ASSUME ~FilesIdle(f), f \notin crowded, Writing(f)
                 PROVE  file["partial"] = fd[f] /\ data'[fd[f]] = sent[f]
      BY <2>1, <2>6 DEF FilesInv, Sole
    <3>1. fd[f] # 0 /\ fd[f] \in 0 .. Cardinality(Fetchers) + 2
          /\ file["partial"] = fd[f] /\ data[fd[f]] = sent[f]
      BY DEF FilesInv, FilesTyped, Tidy, Sole
    <3>2. fd[f] # i
      BY <3>1 DEF FilesInv, Tidy, i
    <3>3. QED BY <2>8, <3>1, <3>2, FilesNumbers
  <2>10. (Solo' => OneFetch') /\ ReadyThere'
    BY <2>1, <2>3 DEF FilesInv, Solo, Registered, Alone, OneFetch, ReadyThere
  <2>11. QED BY <2>5, <2>7, <2>9, <2>10 DEF FilesInv
<1>10. CASE UNCHANGED filesVars
  <2>1. UNCHANGED <<use, file, data, fetch, fd, sent, ready, crowded, mishaps>>
    BY <1>10 DEF filesVars
  <2>2. FilesTyped' /\ ReadyThere'
    BY <2>1 DEF FilesInv, FilesTyped, ReadyThere, Registered
  <2>3. Tidy' /\ (Solo' => OneFetch')
    BY <2>1 DEF FilesInv, Tidy, Solo, OneFetch, Writing, FilesIdle, Registered, Alone, Right
  <2>4. \A f \in Fetchers : Sole(f)'
    BY <2>1 DEF FilesInv, Sole, Writing, FilesIdle
  <2>5. QED BY <2>2, <2>3, <2>4 DEF FilesInv
<1>11. ASSUME NEW f \in Fetchers, OpenPartial(f) PROVE FilesInv'
  BY <1>11, Opens
<1>12. ASSUME NEW f \in Fetchers, ReceivePiece(f) PROVE FilesInv'
  BY <1>12, Receives
<1>13. QED BY <1>1, <1>2, <1>3, <1>4, <1>5, <1>6, <1>7, <1>8, <1>9, <1>10, <1>11, <1>12
           DEF FilesNext, FetchStep

LEMMA FilesFirst == FilesInit => FilesInv
<1> SUFFICES ASSUME FilesInit PROVE FilesInv
  OBVIOUS
<1>1. <<>> \in Pieces(Came) /\ <<>> \in Pieces(Shown)
  <2>1. <<>> \in Seq(Came) /\ <<>> \in Seq(Shown) /\ Len(<<>>) <= Chunks
    BY EmptySeq, FilesNumbers
  <2>2. QED BY <2>1, PiecesSeq
<1>2. 0 \in 0 .. Cardinality(Fetchers) + 2
  BY FilesNumbers
<1>3. FilesTyped
  BY <1>1, <1>2 DEF FilesInit, FilesTyped, Stages
<1>4. Tidy /\ OneFetch /\ (\A f \in Fetchers : Sole(f)) /\ ReadyThere
  BY DEF FilesInit, Tidy, OneFetch, Sole, ReadyThere, Writing, FilesIdle, Names
<1>5. QED BY <1>3, <1>4 DEF FilesInv

(* Whatever order threads open, replace and discard the partial file in,   *)
(* it is there only while somebody will finish it; and where one thread at *)
(* a time fetches, the cached file is right unless somebody damaged it.    *)
THEOREM FilesKept == FilesSpec => []FilesRight
<1>1. FilesInv => FilesRight
  <2> SUFFICES ASSUME FilesInv PROVE FilesRight
    OBVIOUS
  <2>1. FilesTypeOK
    BY FilesTypes, Zenon DEF FilesInv, FilesTyped, Stages
  <2>2. LockedRight
    BY DEF FilesInv, Solo, OneFetch, LockedRight, CacheRight, Whole
  <2>3. NoLitter
    <3>1. \A f \in Fetchers : FilesIdle(f) => ~Writing(f)
      BY DEF FilesIdle, Writing
    <3>2. QED BY <3>1 DEF FilesInv, Tidy, NoLitter, Busy
  <2>4. QED BY <2>1, <2>2, <2>3 DEF FilesRight
<1>2. QED BY <1>1, FilesFirst, StepFiles, PTL DEF FilesSpec

(* A fetcher whose call no other one's overlapped is handed the verified   *)
(* content, however many fetchers there are and whatever they did before;  *)
(* of the default dataset that is true until somebody damages its file.    *)
THEOREM HandedRight == FilesSpec => ReturnedRight
<1> DEFINE Handed == \A f \in Fetchers :
                       fetch[f] # "returned" /\ fetch'[f] = "returned" /\ f \notin crowded'
                       => Whole' \/ (ready /\ mishaps["damage"] > 0)
<1>1. ASSUME FilesInv, [FilesNext]_filesVars PROVE [Handed]_filesVars
  <2> SUFFICES ASSUME NEW f \in Fetchers, fetch[f] # "returned", fetch'[f] = "returned",
                      f \notin crowded', ~(ready /\ mishaps["damage"] > 0)
               PROVE  Whole'
    OBVIOUS
  <2>1. PICK g \in Fetchers : Ensure(g) \/ BreakDownload(g) \/ FillDisk(g) \/ FetchStep(g)
    <3>1. ~CrashFetchers
      BY DEF CrashFetchers
    <3>2. ~DamageFile /\ ~UNCHANGED filesVars
      BY DEF DamageFile, filesVars
    <3>3. QED BY <1>1, <3>1, <3>2 DEF FilesNext
  <2>2. ASSUME NEW l, FilesGoto(g, l) PROVE f = g /\ l = "returned"
    BY <1>1, <2>2 DEF FilesGoto, FilesInv, FilesTyped
  <2>3. Ensure(f) \/ Hash(f) \/ Replace(f)
    <3>1. CASE Ensure(g)
      <4>1. \E l : FilesGoto(g, l)
        BY <3>1 DEF Ensure
      <4>2. QED BY <2>2, <3>1, <4>1
    <3>2. CASE BreakDownload(g) \/ FillDisk(g)
      BY <2>2, <3>2 DEF BreakDownload, FillDisk, Finish
    <3>3. CASE Look(g)
      BY <2>2, <3>3 DEF Look
    <3>4. CASE Hash(g)
      <4>1. \E l : FilesGoto(g, l)
        BY <3>4 DEF Hash
      <4>2. QED BY <2>2, <3>4, <4>1
    <3>5. CASE Drop(g)
      BY <2>2, <3>5 DEF Drop
    <3>6. CASE OpenPartial(g)
      BY <2>2, <3>6 DEF OpenPartial
    <3>7. CASE ReceivePiece(g)
      BY <3>7 DEF ReceivePiece
    <3>8. CASE CheckDigest(g)
      BY <2>2, <3>8 DEF CheckDigest, Finish
    <3>9. CASE Replace(g)
      <4>1. \E l : FilesGoto(g, l)
        BY <3>9 DEF Replace, Finish
      <4>2. QED BY <2>2, <3>9, <4>1
    <3>10. QED BY <2>1, <3>1, <3>2, <3>3, <3>4, <3>5, <3>6, <3>7, <3>8, <3>9 DEF FetchStep
  <2>4. CASE Hash(f)
    <3>1. UNCHANGED <<file, data>>
      BY <2>4 DEF Hash
    <3>2. ~FilesGoto(f, "raised") /\ ~FilesGoto(f, Mismatch)
      BY <1>1 DEF FilesGoto, FilesInv, FilesTyped, Mismatch
    <3>3. file["final"] # 0 /\ data[file["final"]] = Right
      BY <2>4, <3>2 DEF Hash, Verified
    <3>4. QED BY <3>1, <3>3 DEF Whole, Right
  <2>7. CASE Ensure(f)
    <3>1. ready /\ ~Registered /\ UNCHANGED <<file, data>>
      <4>1. FilesGoto(f, IF ~Registered /\ ready THEN "returned" ELSE "look") /\ UNCHANGED <<file, data>>
        BY <2>7 DEF Ensure
      <4>2. QED BY <1>1, <4>1 DEF FilesGoto, FilesInv, FilesTyped
    <3>2. file["final"] # 0 /\ OneFetch
      BY <1>1, <3>1 DEF FilesInv, ReadyThere, Solo
    <3>3. mishaps["damage"] = 0
      <4>1. mishaps["damage"] \in Nat
        BY <1>1 DEF FilesInv, FilesTyped, FilesMishaps
      <4>2. QED BY <3>1, <4>1
    <3>4. QED BY <3>1, <3>2, <3>3 DEF OneFetch, Whole, Right
  <2>5. CASE Replace(f)
    <3>1. fetch[f] = "replace" /\ UNCHANGED <<data, crowded>>
      BY <2>5 DEF Replace
    <3>2. file["partial"] = fd[f] /\ data[fd[f]] = Right /\ fd[f] # 0
      BY <1>1, <3>1 DEF Sole, FilesIdle, Writing, FilesInv, Tidy
    <3>3. file' = [final |-> file["partial"], partial |-> 0]
      BY <2>5, <3>2 DEF Replace
    <3>4. QED BY <3>1, <3>2, <3>3 DEF Whole, Right
  <2>6. QED BY <2>3, <2>4, <2>5, <2>7
<1>2. QED BY <1>1, FilesFirst, StepFiles, PTL DEF FilesSpec, ReturnedRight

-----------------------------------------------------------------------------
(***************************************************************************)
(* SemanticCache.                                                          *)
(***************************************************************************)
LEMMA TablesNat == Tables \in Nat /\ Tables > 0
BY RowsAssumption

(* Tables that are all of one content are the full database.               *)
LEMMA IsFull ==
    ASSUME NEW S, NEW s \in Seq(S), NEW c, Len(s) = Tables, \A i \in 1 .. Tables : s[i] = c
    PROVE  s = Full(c)
<1>1. s \in [1 .. Tables -> S]
  BY LenProperties
<1>2. s = [i \in 1 .. Tables |-> s[i]]
  BY <1>1
<1>3. QED BY <1>2 DEF Full

(* A full database has every table.                                        *)
LEMMA FullShape ==
    ASSUME NEW S, NEW c \in S
    PROVE  Full(c) \in Seq(S) /\ Len(Full(c)) = Tables /\ \A i \in 1 .. Tables : Full(c)[i] = c
<1>1. Full(c) \in [1 .. Tables -> S] /\ DOMAIN Full(c) = 1 .. Tables
  BY DEF Full
<1>2. Full(c) \in Seq(S)
  BY <1>1, TablesNat, SeqDef
<1>3. Len(Full(c)) = Tables
  BY <1>1, <1>2, TablesNat, LenProperties
<1>4. QED BY <1>2, <1>3 DEF Full

Known == Contents \cup {NoContent}
SemanticTyped ==
    /\ source \in Contents
    /\ db \in [Contents -> Seq(Known)] /\ \A c \in Contents : Len(db[c]) \in {0, Tables}
    /\ stage \in [Processes -> {"idle", "digest", "check", "convert", "copy", "attach", "serving"}]
    /\ desc \in [Processes -> Known] /\ name \in [Processes -> Known] /\ input \in [Processes -> Known]
    /\ copied \in [Processes -> Seq(Known)] /\ \A p \in Processes : Len(copied[p]) <= Tables
    /\ served \in [Processes -> Seq(Known)]
    /\ semanticSpent \in [SemanticMishaps -> Nat]

(* Tables of content x, some of which may have been damaged.               *)
Mostly(t, x) == \A i \in 1 .. Len(t) : t[i] \in {x, NoContent}

(* Damaged or not, a full database that shows tables of x and has lost none *)
(* is all of x.                                                            *)
LEMMA MostlyFull ==
    ASSUME NEW c \in Contents, NEW x, Mostly(Full(c), x)
    PROVE  c = x
<1>1. 1 \in 1 .. Len(Full(c)) /\ Full(c)[1] = c
  BY TablesNat, FullShape
<1>2. QED BY <1>1, RowsAssumption DEF Mostly

(* A database keeps to one content, the one of its digest unless it was    *)
(* mislabelled.                                                            *)
Kept(c) == \E x \in Contents : Mostly(db[c], x) /\ (c \notin mislabelled => x = c)

(* What a process has read before it copies is of one content unless the   *)
(* file was replaced meanwhile; a partial file holds tables of the one file *)
(* that is open; what is about to be attached, and what is served, is      *)
(* whole.                                                                  *)
Tracked(p) ==
    /\ stage[p] \in {"digest", "check", "convert", "copy", "attach", "serving"} => desc[p] \in Contents
    /\ stage[p] \in {"check", "convert", "copy", "attach"} => name[p] \in Contents
    /\ stage[p] = "copy" => /\ input[p] \in Contents
                            /\ \A i \in 1 .. Len(copied[p]) : copied[p][i] = input[p]
    /\ p \notin overtaken =>
          /\ stage[p] \in {"digest", "check", "convert"} => desc[p] = source
          /\ stage[p] \in {"check", "convert"} => name[p] = source
          /\ stage[p] = "copy" => name[p] = desc[p] /\ input[p] = desc[p]
          /\ stage[p] = "attach" => name[p] = desc[p]
    /\ stage[p] = "attach" => \E c \in Contents : db[name[p]] = Full(c)
    /\ stage[p] = "serving" => \E c \in Contents : served[p] = Full(c) /\ (p \notin overtaken => c = desc[p])
WholeInv == SemanticTyped /\ (\A c \in Contents : Kept(c)) /\ \A p \in Processes : Tracked(p)

(* What a process does to its own stage and to its own notes leaves the    *)
(* others where they are.                                                  *)
LEMMA OthersTracked ==
    ASSUME WholeInv, NEW q \in Processes, source' = source, q \in overtaken' <=> q \in overtaken,
           stage'[q] = stage[q], desc'[q] = desc[q], name'[q] = name[q], input'[q] = input[q],
           copied'[q] = copied[q], served'[q] = served[q],
           stage[q] = "attach" => \E c \in Contents : db'[name[q]] = Full(c)
    PROVE  Tracked(q)'
BY DEF WholeInv, Tracked

LEMMA StepWhole == WholeInv /\ [SemanticNext]_semanticVars => WholeInv'
<1> SUFFICES ASSUME WholeInv, [SemanticNext]_semanticVars PROVE WholeInv'
  OBVIOUS
<1> USE DEF SemanticGoto
<1>0. SemanticTyped /\ (\A c \in Contents : Kept(c)) /\ \A p \in Processes : Tracked(p)
  BY DEF WholeInv
<1>a. <<>> \in Seq(Known) /\ Len(<<>>) = 0 /\ 0 <= Tables
  BY EmptySeq, TablesNat
<1>b. ASSUME UNCHANGED <<db, mislabelled>> PROVE \A c \in Contents : Kept(c)'
  BY <1>0, <1>b DEF Kept, Mostly
<1>c. \A q \in Processes : stage[q] = "attach" => \E c \in Contents : db[name[q]] = Full(c)
  BY <1>0 DEF Tracked
<1>1. ASSUME NEW p \in Processes, Describe(p) PROVE WholeInv'
  <2>1. /\ desc' = [desc EXCEPT ![p] = source] /\ stage' = [stage EXCEPT ![p] = "digest"]
        /\ overtaken' = overtaken \ {p}
        /\ UNCHANGED <<source, db, name, input, copied, served, mislabelled, semanticSpent>>
    BY <1>1 DEF Describe
  <2>2. SemanticTyped'
    BY <1>0, <2>1 DEF SemanticTyped, Known
  <2>3. Tracked(p)'
    BY <1>0, <2>1 DEF SemanticTyped, Tracked
  <2>4. ASSUME NEW q \in Processes, q # p PROVE Tracked(q)'
    BY <1>0, <1>c, <2>1, <2>4, OthersTracked DEF SemanticTyped
  <2>5. QED BY <1>b, <2>1, <2>2, <2>3, <2>4 DEF WholeInv
<1>2. ASSUME NEW p \in Processes, Digest(p) PROVE WholeInv'
  <2>1. /\ stage[p] = "digest" /\ name' = [name EXCEPT ![p] = source]
        /\ stage' = [stage EXCEPT ![p] = "check"]
        /\ UNCHANGED <<source, db, desc, input, copied, served, overtaken, mislabelled, semanticSpent>>
    BY <1>2 DEF Digest, doubts
  <2>2. SemanticTyped'
    BY <1>0, <2>1 DEF SemanticTyped, Known
  <2>3. Tracked(p)'
    BY <1>0, <2>1 DEF SemanticTyped, Tracked
  <2>4. ASSUME NEW q \in Processes, q # p PROVE Tracked(q)'
    BY <1>0, <1>c, <2>1, <2>4, OthersTracked DEF SemanticTyped
  <2>5. QED BY <1>b, <2>1, <2>2, <2>3, <2>4 DEF WholeInv
<1>3. ASSUME NEW p \in Processes, CheckRows(p) PROVE WholeInv'
  <2>1. /\ stage[p] = "check" /\ stage' = [stage EXCEPT ![p] = IF Intact(p) THEN "attach" ELSE "convert"]
        /\ UNCHANGED <<source, db, desc, name, input, copied, served, overtaken, mislabelled, semanticSpent>>
    BY <1>3 DEF CheckRows, Rebuild, local, doubts
  <2>2. SemanticTyped'
    BY <1>0, <2>1 DEF SemanticTyped
  <2>3. desc[p] \in Contents /\ name[p] \in Contents
    BY <1>0, <2>1 DEF Tracked
  <2>4. Intact(p) => \E c \in Contents : db[name[p]] = Full(c)
    <3> SUFFICES ASSUME Intact(p) PROVE \E c \in Contents : db[name[p]] = Full(c)
      OBVIOUS
    <3> DEFINE t == db[name[p]]
    <3>1. t \in Seq(Known) /\ Len(t) = Tables
      BY <1>0, <2>3 DEF Intact, CountsMatch, SemanticTyped
    <3>2. PICK x \in Contents : Mostly(t, x)
      BY <1>0, <2>3 DEF Kept
    <3>3. \A i \in 1 .. Tables : t[i] = x
      BY <3>1, <3>2 DEF Intact, CountsMatch, Mostly
    <3>4. QED BY <3>1, <3>3, IsFull
  <2>5. Tracked(p)'
    BY <1>0, <2>1, <2>3, <2>4 DEF SemanticTyped, Tracked
  <2>6. ASSUME NEW q \in Processes, q # p PROVE Tracked(q)'
    BY <1>0, <1>c, <2>1, <2>6, OthersTracked DEF SemanticTyped
  <2>7. QED BY <1>b, <2>1, <2>2, <2>5, <2>6 DEF WholeInv
<1>4. ASSUME NEW p \in Processes, Convert(p) PROVE WholeInv'
  <2>1. /\ stage[p] = "convert" /\ input' = [input EXCEPT ![p] = source]
        /\ copied' = [copied EXCEPT ![p] = <<>>] /\ stage' = [stage EXCEPT ![p] = "copy"]
        /\ UNCHANGED <<source, db, desc, name, served, overtaken, mislabelled, semanticSpent>>
    BY <1>4 DEF Convert, doubts
  <2>2. SemanticTyped'
    BY <1>0, <1>a, <2>1 DEF SemanticTyped, Known
  <2>3. copied'[p] = <<>> /\ input'[p] = source
    BY <1>0, <2>1 DEF SemanticTyped
  <2>4. Tracked(p)'
    BY <1>0, <1>a, <2>1, <2>3 DEF SemanticTyped, Tracked
  <2>5. ASSUME NEW q \in Processes, q # p PROVE Tracked(q)'
    BY <1>0, <1>c, <2>1, <2>5, OthersTracked DEF SemanticTyped
  <2>6. QED BY <1>b, <2>1, <2>2, <2>4, <2>5 DEF WholeInv
<1>5. ASSUME NEW p \in Processes, CopyTable(p) PROVE WholeInv'
  <2>1. /\ stage[p] = "copy" /\ Len(copied[p]) < Tables
        /\ UNCHANGED <<source, db, desc, name, input, served, overtaken, mislabelled, semanticSpent>>
    BY <1>5 DEF CopyTable, doubts
  <2>2. input[p] \in Contents /\ desc[p] \in Contents /\ name[p] \in Contents
    BY <1>0, <2>1 DEF Tracked
  <2>3. CASE Counted(p)
    <3>1. copied' = [copied EXCEPT ![p] = Append(copied[p], input[p])] /\ UNCHANGED stage
      BY <1>5, <2>3 DEF CopyTable
    <3>2. /\ Append(copied[p], input[p]) \in Seq(Known)
          /\ Len(Append(copied[p], input[p])) = Len(copied[p]) + 1
          /\ \A i \in 1 .. Len(copied[p]) : Append(copied[p], input[p])[i] = copied[p][i]
          /\ Append(copied[p], input[p])[Len(copied[p]) + 1] = input[p]
      BY <1>0, <2>2, AppendProperties DEF SemanticTyped, Known
    <3>3. Len(copied[p]) \in Nat
      BY <1>0, LenProperties DEF SemanticTyped
    <3>4. copied'[p] = Append(copied[p], input[p]) /\ Len(copied'[p]) <= Tables
      BY <1>0, <2>1, <3>1, <3>2, <3>3, TablesNat DEF SemanticTyped
    <3>5. SemanticTyped'
      BY <1>0, <2>1, <3>1, <3>2, <3>4 DEF SemanticTyped
    <3>6. \A i \in 1 .. Len(copied'[p]) : copied'[p][i] = input[p]
      BY <1>0, <2>1, <3>2, <3>3, <3>4 DEF Tracked
    <3>7. Tracked(p)'
      BY <1>0, <2>1, <2>2, <3>1, <3>6 DEF Tracked
    <3>8. ASSUME NEW q \in Processes, q # p PROVE Tracked(q)'
      BY <1>0, <1>c, <2>1, <3>1, <3>8, OthersTracked DEF SemanticTyped
    <3>9. QED BY <1>b, <2>1, <3>5, <3>7, <3>8 DEF WholeInv
  <2>4. CASE ~Counted(p)
    <3>1. copied' = [copied EXCEPT ![p] = <<>>] /\ stage' = [stage EXCEPT ![p] = "idle"]
      BY <1>5, <2>4 DEF CopyTable
    <3>2. SemanticTyped'
      BY <1>0, <1>a, <2>1, <3>1 DEF SemanticTyped
    <3>3. Tracked(p)'
      BY <1>0, <2>1, <3>1 DEF SemanticTyped, Tracked
    <3>4. ASSUME NEW q \in Processes, q # p PROVE Tracked(q)'
      BY <1>0, <1>c, <2>1, <3>1, <3>4, OthersTracked DEF SemanticTyped
    <3>5. QED BY <1>b, <2>1, <3>2, <3>3, <3>4 DEF WholeInv
  <2>5. QED BY <2>3, <2>4
<1>6. ASSUME NEW p \in Processes, Publish(p) PROVE WholeInv'
  <2>1. /\ stage[p] = "copy" /\ Len(copied[p]) = Tables
        /\ db' = [db EXCEPT ![name[p]] = copied[p]]
        /\ copied' = [copied EXCEPT ![p] = <<>>] /\ stage' = [stage EXCEPT ![p] = "attach"]
        /\ mislabelled' = IF p \in overtaken THEN mislabelled \cup {name[p]} ELSE mislabelled \ {name[p]}
        /\ UNCHANGED <<source, desc, name, input, served, overtaken, semanticSpent>>
    BY <1>6 DEF Publish, Ready
  <2>2. /\ input[p] \in Contents /\ desc[p] \in Contents /\ name[p] \in Contents
        /\ \A i \in 1 .. Tables : copied[p][i] = input[p]
    BY <1>0, <2>1 DEF Tracked
  <2>3. copied[p] = Full(input[p])
    BY <1>0, <2>1, <2>2, IsFull DEF SemanticTyped
  <2>4. SemanticTyped'
    BY <1>0, <1>a, <2>1, <2>2 DEF SemanticTyped
  <2>5. db'[name[p]] = Full(input[p]) /\ \A c \in Contents : c # name[p] => db'[c] = db[c]
    BY <1>0, <2>1, <2>2, <2>3 DEF SemanticTyped
  <2>6. ASSUME NEW c \in Contents PROVE Kept(c)'
    <3>1. CASE c = name[p]
      <4>1. Mostly(db'[c], input[p])
        <5>1. db'[c] = Full(input[p])
          BY <2>5, <3>1
        <5>2. Len(Full(input[p])) = Tables /\ \A i \in 1 .. Tables : Full(input[p])[i] = input[p]
          BY <2>2, FullShape
        <5>3. QED BY <5>1, <5>2 DEF Mostly
      <4>2. p \notin overtaken => input[p] = c
        BY <1>0, <2>1, <3>1 DEF Tracked
      <4>3. c \notin mislabelled' => p \notin overtaken
        BY <2>1, <3>1
      <4>4. QED BY <2>2, <4>1, <4>2, <4>3 DEF Kept, Mostly
    <3>2. CASE c # name[p]
      <4>1. Kept(c) /\ (c \in mislabelled' <=> c \in mislabelled)
        BY <1>0, <2>1, <3>2
      <4>2. QED BY <2>5, <3>2, <4>1 DEF Kept, Mostly
    <3>3. QED BY <3>1, <3>2
  <2>7. Tracked(p)'
    BY <1>0, <2>1, <2>2, <2>5 DEF SemanticTyped, Tracked
  <2>8. ASSUME NEW q \in Processes, q # p PROVE Tracked(q)'
    <3>1. stage[q] = "attach" => name[q] \in Contents
      BY <1>0 DEF Tracked
    <3>2. stage[q] = "attach" => \E c \in Contents : db'[name[q]] = Full(c)
      BY <1>c, <2>2, <2>5, <3>1
    <3>3. QED BY <1>0, <2>1, <2>8, <3>2, OthersTracked DEF SemanticTyped
  <2>9. QED BY <2>4, <2>6, <2>7, <2>8 DEF WholeInv
<1>7. ASSUME NEW p \in Processes, Attach(p) PROVE WholeInv'
  <2>1. /\ stage[p] = "attach" /\ served' = [served EXCEPT ![p] = db[name[p]]]
        /\ stage' = [stage EXCEPT ![p] = "serving"]
        /\ overtaken' = IF name[p] \in mislabelled THEN overtaken \cup {p} ELSE overtaken
        /\ UNCHANGED <<source, db, desc, name, input, copied, mislabelled, semanticSpent>>
    BY <1>7 DEF Attach
  <2>2. name[p] \in Contents /\ desc[p] \in Contents
    BY <1>0, <2>1 DEF Tracked
  <2>3. PICK c \in Contents : db[name[p]] = Full(c)
    BY <1>c, <2>1
  <2>4. SemanticTyped'
    BY <1>0, <2>1, <2>2 DEF SemanticTyped
  <2>5. p \notin overtaken' => c = desc[p]
    <3> SUFFICES ASSUME p \notin overtaken' PROVE c = desc[p]
      OBVIOUS
    <3>1. p \notin overtaken /\ name[p] \notin mislabelled
      BY <2>1
    <3>2. name[p] = desc[p] /\ Mostly(db[name[p]], name[p])
      BY <1>0, <2>1, <2>2, <3>1 DEF Tracked, Kept
    <3>3. QED BY <2>3, <3>2, MostlyFull
  <2>6. Tracked(p)'
    BY <1>0, <2>1, <2>2, <2>3, <2>5 DEF SemanticTyped, Tracked
  <2>7. ASSUME NEW q \in Processes, q # p PROVE Tracked(q)'
    BY <1>0, <1>c, <2>1, <2>7, OthersTracked DEF SemanticTyped
  <2>8. QED BY <1>b, <2>1, <2>4, <2>6, <2>7 DEF WholeInv
<1>8. ASSUME NEW p \in Processes, CrashProcess(p) PROVE WholeInv'
  <2>1. /\ stage' = [stage EXCEPT ![p] = "idle"] /\ copied' = [copied EXCEPT ![p] = <<>>]
        /\ served' = [served EXCEPT ![p] = <<>>]
        /\ semanticSpent' = [semanticSpent EXCEPT !["crash"] = semanticSpent["crash"] + 1]
        /\ UNCHANGED <<source, db, desc, name, input, overtaken, mislabelled>>
    BY <1>8 DEF CrashProcess, SemanticMishap, doubts
  <2>2. SemanticTyped'
    BY <1>0, <1>a, <2>1 DEF SemanticTyped, SemanticMishaps
  <2>3. Tracked(p)'
    BY <1>0, <2>1 DEF SemanticTyped, Tracked
  <2>4. ASSUME NEW q \in Processes, q # p PROVE Tracked(q)'
    BY <1>0, <1>c, <2>1, <2>4, OthersTracked DEF SemanticTyped
  <2>5. QED BY <1>b, <2>1, <2>2, <2>3, <2>4 DEF WholeInv
<1>9. CASE ReplaceSource
  <2>1. /\ source' \in Contents
        /\ semanticSpent' = [semanticSpent EXCEPT !["change"] = semanticSpent["change"] + 1]
        /\ overtaken' = overtaken \cup {p \in Processes : stage[p] \in {"digest", "check", "convert"}}
        /\ UNCHANGED <<db, stage, desc, name, input, copied, served, mislabelled>>
    BY <1>9 DEF ReplaceSource, SemanticMishap, local
  <2>2. SemanticTyped'
    BY <1>0, <2>1 DEF SemanticTyped, SemanticMishaps
  <2>3. ASSUME NEW q \in Processes PROVE Tracked(q)'
    <3>1. Tracked(q)
      BY <1>0
    <3>2. CASE q \in overtaken
      BY <2>1, <3>1, <3>2 DEF Tracked
    <3>3. CASE stage[q] \in {"digest", "check", "convert"}
      BY <2>1, <3>1, <3>3 DEF Tracked
    <3>4. CASE q \notin overtaken /\ stage[q] \notin {"digest", "check", "convert"}
      BY <2>1, <3>1, <3>4 DEF Tracked
    <3>5. QED BY <3>2, <3>3, <3>4
  <2>4. QED BY <1>b, <2>1, <2>2, <2>3 DEF WholeInv
<1>10. ASSUME NEW c \in Contents, DamageDb(c) PROVE WholeInv'
  <2>1. /\ db[c] # <<>> /\ db' = [db EXCEPT ![c] = [db[c] EXCEPT ![1] = NoContent]]
        /\ \A p \in Processes : stage[p] = "attach" => name[p] # c
        /\ semanticSpent' = [semanticSpent EXCEPT !["damage"] = semanticSpent["damage"] + 1]
        /\ UNCHANGED <<source, stage, desc, name, input, copied, served, overtaken, mislabelled>>
    BY <1>10 DEF DamageDb, SemanticMishap, local, doubts, Absent
  <2>2. db[c] \in Seq(Known) /\ Len(db[c]) = Tables
    BY <1>0, <2>1, EmptySeq DEF SemanticTyped
  <2>3. 1 \in 1 .. Len(db[c]) /\ NoContent \in Known
    BY <2>2, TablesNat DEF Known
  <2>4. /\ [db[c] EXCEPT ![1] = NoContent] \in Seq(Known) /\ Len([db[c] EXCEPT ![1] = NoContent]) = Tables
        /\ \A j \in 1 .. Len(db[c]) : [db[c] EXCEPT ![1] = NoContent][j] \in {NoContent, db[c][j]}
    BY <2>2, <2>3, ExceptSeq
  <2>5. db'[c] = [db[c] EXCEPT ![1] = NoContent] /\ \A d \in Contents : d # c => db'[d] = db[d]
    BY <1>0, <2>1 DEF SemanticTyped
  <2>6. SemanticTyped'
    BY <1>0, <2>1, <2>4 DEF SemanticTyped, SemanticMishaps
  <2>7. ASSUME NEW d \in Contents PROVE Kept(d)'
    <3>1. PICK x \in Contents : Mostly(db[d], x) /\ (d \notin mislabelled => x = d)
      BY <1>0 DEF Kept
    <3>2. Mostly(db'[d], x)
      BY <2>2, <2>4, <2>5, <3>1 DEF Mostly
    <3>3. QED BY <2>1, <3>1, <3>2 DEF Kept, Mostly
  <2>8. ASSUME NEW q \in Processes PROVE Tracked(q)'
    <3>1. stage[q] = "attach" => name[q] \in Contents /\ name[q] # c
      BY <1>0, <2>1 DEF Tracked
    <3>2. stage[q] = "attach" => \E d \in Contents : db'[name[q]] = Full(d)
      BY <1>c, <2>5, <3>1
    <3>3. QED BY <1>0, <2>1, <3>2 DEF Tracked
  <2>9. QED BY <2>6, <2>7, <2>8 DEF WholeInv
<1>11. CASE UNCHANGED semanticVars
  <2>1. UNCHANGED <<source, db, stage, desc, name, input, copied, served, overtaken, mislabelled, semanticSpent>>
    BY <1>11 DEF semanticVars, local, doubts
  <2>2. SemanticTyped'
    BY <1>0, <2>1 DEF SemanticTyped
  <2>3. ASSUME NEW q \in Processes PROVE Tracked(q)'
    BY <1>c, <2>1, OthersTracked
  <2>4. QED BY <1>b, <2>1, <2>2, <2>3 DEF WholeInv
<1>12. QED BY <1>1, <1>2, <1>3, <1>4, <1>5, <1>6, <1>7, <1>8, <1>9, <1>10, <1>11
           DEF SemanticNext, PrepareStep

LEMMA WholeFirst == SemanticInit => WholeInv
<1> SUFFICES ASSUME SemanticInit PROVE WholeInv
  OBVIOUS
<1>1. <<>> \in Seq(Known) /\ Len(<<>>) = 0 /\ 0 <= Tables
  BY EmptySeq, TablesNat
<1>2. SemanticTyped
  BY <1>1 DEF SemanticInit, SemanticTyped, Known, Absent
<1>3. \A p \in Processes : Tracked(p)
  BY DEF SemanticInit, Tracked
<1>4. ASSUME NEW c \in Contents PROVE Kept(c)
  <2>1. db[c] = <<>>
    BY DEF SemanticInit, Absent
  <2>2. Mostly(db[c], c)
    BY <1>1, <2>1 DEF Mostly
  <2>3. QED BY <2>2 DEF Kept
<1>5. QED BY <1>2, <1>3, <1>4 DEF WholeInv

(* However often the file is replaced, whoever dies and whatever is        *)
(* damaged: a process never serves a mixture, and it serves what it        *)
(* described unless the file was replaced before it opened it or the       *)
(* database it found was built by a process to which that happened.        *)
THEOREM ServedWhole == SemanticSpec => [](SemanticTypeOK /\ ServedTrue)
<1>1. WholeInv => SemanticTypeOK /\ ServedTrue
  BY DEF WholeInv, Tracked, SemanticTyped, SemanticTypeOK, ServedTrue, Known
<1>2. QED BY <1>1, WholeFirst, StepWhole, PTL DEF SemanticSpec

(* Until the file is replaced, whatever was read of it is what it is now,  *)
(* and no other digest has a database.  Afterwards a digest that is not    *)
(* the file's is that of the content which was described, and what is      *)
(* converted under the file's digest is the file.                          *)
Counts(p) ==
    /\ semanticSpent["change"] = 0 =>
          /\ stage[p] \in {"digest", "check", "convert", "copy", "attach"} => desc[p] = source
          /\ stage[p] \in {"check", "convert", "copy", "attach"} => name[p] = source
          /\ stage[p] = "copy" => input[p] = source
    /\ stage[p] \in {"check", "convert", "copy", "attach"} /\ name[p] # source => desc[p] = name[p]
    /\ stage[p] = "copy" /\ name[p] = source => input[p] = source
    /\ stage[p] = "copy" /\ copied[p] # <<>> => Rows[input[p]] = Rows[desc[p]]
    /\ stage[p] = "attach" => \E c \in Contents : db[name[p]] = Full(c) /\ Rows[c] = Rows[desc[p]]
    /\ stage[p] = "serving" => \E c \in Contents : served[p] = Full(c) /\ Rows[c] = Rows[desc[p]]
CountedInv ==
    /\ semanticSpent["change"] = 0 => \A c \in Contents \ {source} : db[c] = <<>>
    /\ Mostly(db[source], source)
    /\ \A p \in Processes : Counts(p)

(* What the others do leaves a process where it is: the file, and the      *)
(* count of its replacements, stay.                                        *)
LEMMA OthersCounts ==
    ASSUME CountedInv, NEW q \in Processes, source' = source,
           semanticSpent'["change"] = semanticSpent["change"],
           stage'[q] = stage[q], desc'[q] = desc[q], name'[q] = name[q], input'[q] = input[q],
           copied'[q] = copied[q], served'[q] = served[q],
           stage[q] = "attach" => \E c \in Contents : db'[name[q]] = Full(c) /\ Rows[c] = Rows[desc[q]]
    PROVE  Counts(q)'
BY DEF CountedInv, Counts

LEMMA StepCounted ==
    ASSUME SemanticLimit["change"] <= 1
    PROVE  WholeInv /\ CountedInv /\ [SemanticNext]_semanticVars => CountedInv'
<1> SUFFICES ASSUME WholeInv, CountedInv, [SemanticNext]_semanticVars PROVE CountedInv'
  OBVIOUS
<1> USE DEF SemanticGoto
<1>0. /\ SemanticTyped /\ (\A c \in Contents : Kept(c)) /\ (\A p \in Processes : Tracked(p))
      /\ \A p \in Processes : Counts(p)
  BY DEF WholeInv, CountedInv
<1>b. ASSUME UNCHANGED <<source, db>>, semanticSpent'["change"] = semanticSpent["change"]
      PROVE  /\ semanticSpent'["change"] = 0 => \A c \in Contents \ {source'} : db'[c] = <<>>
             /\ Mostly(db[source], source)'
  BY <1>b DEF CountedInv, Mostly
<1>c. \A q \in Processes : stage[q] = "attach" =>
         \E c \in Contents : db[name[q]] = Full(c) /\ Rows[c] = Rows[desc[q]]
  BY <1>0 DEF Counts
<1>1. ASSUME NEW p \in Processes, Describe(p) PROVE CountedInv'
  <2>1. /\ desc' = [desc EXCEPT ![p] = source] /\ stage' = [stage EXCEPT ![p] = "digest"]
        /\ UNCHANGED <<source, db, name, input, copied, served, semanticSpent>>
    BY <1>1 DEF Describe
  <2>2. Counts(p)'
    BY <1>0, <2>1 DEF SemanticTyped, Counts
  <2>3. ASSUME NEW q \in Processes, q # p PROVE Counts(q)'
    BY <1>0, <1>c, <2>1, <2>3, OthersCounts DEF SemanticTyped
  <2>4. QED BY <1>b, <2>1, <2>2, <2>3 DEF CountedInv
<1>2. ASSUME NEW p \in Processes, Digest(p) PROVE CountedInv'
  <2>1. /\ stage[p] = "digest" /\ name' = [name EXCEPT ![p] = source]
        /\ stage' = [stage EXCEPT ![p] = "check"]
        /\ UNCHANGED <<source, db, desc, input, copied, served, semanticSpent>>
    BY <1>2 DEF Digest
  <2>2. Counts(p)'
    BY <1>0, <2>1 DEF SemanticTyped, Counts
  <2>3. ASSUME NEW q \in Processes, q # p PROVE Counts(q)'
    BY <1>0, <1>c, <2>1, <2>3, OthersCounts DEF SemanticTyped
  <2>4. QED BY <1>b, <2>1, <2>2, <2>3 DEF CountedInv
<1>3. ASSUME NEW p \in Processes, CheckRows(p) PROVE CountedInv'
  <2>1. /\ stage[p] = "check" /\ UNCHANGED <<source, db, desc, name, input, copied, served, semanticSpent>>
        /\ stage' = [stage EXCEPT ![p] = IF Intact(p) THEN "attach" ELSE "convert"]
    BY <1>3 DEF CheckRows, Rebuild, local
  <2>2. desc[p] \in Contents /\ name[p] \in Contents
    BY <1>0, <2>1 DEF Tracked
  <2>3. Intact(p) => \E c \in Contents : db[name[p]] = Full(c) /\ Rows[c] = Rows[desc[p]]
    <3> SUFFICES ASSUME Intact(p)
                 PROVE  \E c \in Contents : db[name[p]] = Full(c) /\ Rows[c] = Rows[desc[p]]
      OBVIOUS
    <3> DEFINE t == db[name[p]]
    <3>1. t \in Seq(Known) /\ Len(t) = Tables
      BY <1>0, <2>2 DEF Intact, CountsMatch, SemanticTyped
    <3>2. PICK x \in Contents : Mostly(t, x)
      BY <1>0, <2>2 DEF Kept
    <3>3. \A i \in 1 .. Tables : t[i] = x /\ Rows[x] = Rows[desc[p]]
      BY <3>1, <3>2 DEF Intact, CountsMatch, Mostly
    <3>4. Rows[x] = Rows[desc[p]]
      BY <3>3, TablesNat
    <3>5. QED BY <3>1, <3>3, <3>4, IsFull
  <2>4. Counts(p)'
    BY <1>0, <2>1, <2>3 DEF SemanticTyped, Counts
  <2>5. ASSUME NEW q \in Processes, q # p PROVE Counts(q)'
    BY <1>0, <1>c, <2>1, <2>5, OthersCounts DEF SemanticTyped
  <2>6. QED BY <1>b, <2>1, <2>4, <2>5 DEF CountedInv
<1>4. ASSUME NEW p \in Processes, Convert(p) PROVE CountedInv'
  <2>1. /\ stage[p] = "convert" /\ input' = [input EXCEPT ![p] = source]
        /\ copied' = [copied EXCEPT ![p] = <<>>] /\ stage' = [stage EXCEPT ![p] = "copy"]
        /\ UNCHANGED <<source, db, desc, name, served, semanticSpent>>
    BY <1>4 DEF Convert
  <2>2. copied'[p] = <<>> /\ input'[p] = source
    BY <1>0, <2>1 DEF SemanticTyped
  <2>3. Counts(p)'
    BY <1>0, <2>1, <2>2 DEF SemanticTyped, Counts
  <2>4. ASSUME NEW q \in Processes, q # p PROVE Counts(q)'
    BY <1>0, <1>c, <2>1, <2>4, OthersCounts DEF SemanticTyped
  <2>5. QED BY <1>b, <2>1, <2>3, <2>4 DEF CountedInv
<1>5. ASSUME NEW p \in Processes, CopyTable(p) PROVE CountedInv'
  <2>1. /\ stage[p] = "copy" /\ UNCHANGED <<source, db, desc, name, input, served, semanticSpent>>
    BY <1>5 DEF CopyTable
  <2>2. CASE Counted(p)
    <3>1. copied' = [copied EXCEPT ![p] = Append(copied[p], input[p])] /\ UNCHANGED stage
      BY <1>5, <2>2 DEF CopyTable
    <3>2. Counts(p)'
      BY <1>0, <2>1, <2>2, <3>1 DEF Counts, Counted
    <3>3. ASSUME NEW q \in Processes, q # p PROVE Counts(q)'
      BY <1>0, <1>c, <2>1, <3>1, <3>3, OthersCounts DEF SemanticTyped
    <3>4. QED BY <1>b, <2>1, <3>2, <3>3 DEF CountedInv
  <2>3. CASE ~Counted(p)
    <3>1. copied' = [copied EXCEPT ![p] = <<>>] /\ stage' = [stage EXCEPT ![p] = "idle"]
      BY <1>5, <2>3 DEF CopyTable
    <3>2. Counts(p)'
      BY <1>0, <2>1, <3>1 DEF SemanticTyped, Counts
    <3>3. ASSUME NEW q \in Processes, q # p PROVE Counts(q)'
      BY <1>0, <1>c, <2>1, <3>1, <3>3, OthersCounts DEF SemanticTyped
    <3>4. QED BY <1>b, <2>1, <3>2, <3>3 DEF CountedInv
  <2>4. QED BY <2>2, <2>3
<1>6. ASSUME NEW p \in Processes, Publish(p) PROVE CountedInv'
  <2>1. /\ stage[p] = "copy" /\ Len(copied[p]) = Tables
        /\ db' = [db EXCEPT ![name[p]] = copied[p]]
        /\ copied' = [copied EXCEPT ![p] = <<>>] /\ stage' = [stage EXCEPT ![p] = "attach"]
        /\ UNCHANGED <<source, desc, name, input, served, semanticSpent>>
    BY <1>6 DEF Publish, Ready
  <2>2. /\ input[p] \in Contents /\ desc[p] \in Contents /\ name[p] \in Contents
        /\ \A i \in 1 .. Tables : copied[p][i] = input[p]
    BY <1>0, <2>1 DEF Tracked
  <2>3. copied[p] # <<>>
    BY <2>1, TablesNat, EmptySeq
  <2>4. /\ Rows[input[p]] = Rows[desc[p]]
        /\ name[p] = source => input[p] = source
        /\ name[p] # source => desc[p] = name[p] /\ semanticSpent["change"] # 0
    BY <1>0, <2>1, <2>3 DEF Counts
  <2>5. copied[p] = Full(input[p])
    BY <1>0, <2>1, <2>2, IsFull DEF SemanticTyped
  <2>6. db'[name[p]] = Full(input[p]) /\ \A c \in Contents : c # name[p] => db'[c] = db[c]
    BY <1>0, <2>1, <2>2, <2>5 DEF SemanticTyped
  <2>7. source \in Contents
    BY <1>0 DEF SemanticTyped
  <2>8. Mostly(db[source], source)'
    <3>1. CASE name[p] = source
      <4>1. db'[source'] = Full(source) /\ source' = source
        BY <2>1, <2>4, <2>6, <3>1
      <4>2. Len(Full(source)) = Tables /\ \A i \in 1 .. Tables : Full(source)[i] = source
        BY <2>7, FullShape
      <4>3. QED BY <4>1, <4>2 DEF Mostly
    <3>2. CASE name[p] # source
      BY <2>1, <2>6, <2>7, <3>2 DEF CountedInv, Mostly
    <3>3. QED BY <3>1, <3>2
  <2>9. semanticSpent'["change"] = 0 => \A c \in Contents \ {source'} : db'[c] = <<>>
    BY <2>1, <2>4, <2>6 DEF CountedInv
  <2>10. Counts(p)'
    BY <1>0, <2>1, <2>2, <2>4, <2>6 DEF SemanticTyped, Counts
  <2>11. ASSUME NEW q \in Processes, q # p PROVE Counts(q)'
    <3>1. stage[q] = "attach" => \E c \in Contents : db'[name[q]] = Full(c) /\ Rows[c] = Rows[desc[q]]
      <4> SUFFICES ASSUME stage[q] = "attach"
                   PROVE  \E c \in Contents : db'[name[q]] = Full(c) /\ Rows[c] = Rows[desc[q]]
        OBVIOUS
      <4>1. name[q] \in Contents
        BY <1>0 DEF Tracked
      <4>2. PICK c \in Contents : db[name[q]] = Full(c) /\ Rows[c] = Rows[desc[q]]
        BY <1>c
      <4>3. CASE name[q] # name[p]
        BY <2>6, <4>1, <4>2, <4>3
      <4>4. CASE name[q] = name[p] /\ name[p] = source
        <5>1. c = source
          BY <4>2, <4>4, MostlyFull DEF CountedInv
        <5>2. QED BY <2>2, <2>4, <2>6, <4>2, <4>4, <5>1
      <4>5. CASE name[q] = name[p] /\ name[p] # source
        <5>1. desc[q] = desc[p]
          BY <1>0, <2>4, <4>5 DEF Counts
        <5>2. QED BY <2>2, <2>4, <2>6, <4>5, <5>1
      <4>6. QED BY <4>3, <4>4, <4>5
    <3>2. QED BY <1>0, <2>1, <2>11, <3>1, OthersCounts DEF SemanticTyped
  <2>12. QED BY <2>8, <2>9, <2>10, <2>11 DEF CountedInv
<1>7. ASSUME NEW p \in Processes, Attach(p) PROVE CountedInv'
  <2>1. /\ stage[p] = "attach" /\ served' = [served EXCEPT ![p] = db[name[p]]]
        /\ stage' = [stage EXCEPT ![p] = "serving"]
        /\ UNCHANGED <<source, db, desc, name, input, copied, semanticSpent>>
    BY <1>7 DEF Attach
  <2>2. Counts(p)'
    BY <1>0, <1>c, <2>1 DEF SemanticTyped, Counts
  <2>3. ASSUME NEW q \in Processes, q # p PROVE Counts(q)'
    BY <1>0, <1>c, <2>1, <2>3, OthersCounts DEF SemanticTyped
  <2>4. QED BY <1>b, <2>1, <2>2, <2>3 DEF CountedInv
<1>8. ASSUME NEW p \in Processes, CrashProcess(p) PROVE CountedInv'
  <2>1. /\ stage' = [stage EXCEPT ![p] = "idle"] /\ copied' = [copied EXCEPT ![p] = <<>>]
        /\ served' = [served EXCEPT ![p] = <<>>]
        /\ semanticSpent' = [semanticSpent EXCEPT !["crash"] = semanticSpent["crash"] + 1]
        /\ UNCHANGED <<source, db, desc, name, input>>
    BY <1>8 DEF CrashProcess, SemanticMishap
  <2>2. semanticSpent'["change"] = semanticSpent["change"]
    BY <1>0, <2>1 DEF SemanticTyped, SemanticMishaps
  <2>3. Counts(p)'
    BY <1>0, <2>1 DEF SemanticTyped, Counts
  <2>4. ASSUME NEW q \in Processes, q # p PROVE Counts(q)'
    BY <1>0, <1>c, <2>1, <2>2, <2>4, OthersCounts DEF SemanticTyped
  <2>5. QED BY <1>b, <2>1, <2>2, <2>3, <2>4 DEF CountedInv
<1>9. CASE ReplaceSource
  <2>1. /\ semanticSpent["change"] < SemanticLimit["change"] /\ source' \in Contents \ {source}
        /\ semanticSpent' = [semanticSpent EXCEPT !["change"] = semanticSpent["change"] + 1]
        /\ UNCHANGED <<db, stage, desc, name, input, copied, served>>
    BY <1>9 DEF ReplaceSource, SemanticMishap, local
  <2>2. semanticSpent["change"] = 0 /\ semanticSpent'["change"] = 1
    BY <1>0, <2>1, RowsAssumption DEF SemanticTyped, SemanticMishaps
  <2>3. Mostly(db[source], source)'
    <3>1. db'[source'] = <<>>
      BY <2>1, <2>2 DEF CountedInv
    <3>2. QED BY <3>1, EmptySeq DEF Mostly
  <2>4. ASSUME NEW q \in Processes PROVE Counts(q)'
    <3>1. Counts(q)
      BY <1>0
    <3>2. stage[q] \in {"check", "convert", "copy", "attach"} => desc[q] = source /\ name[q] = source
      BY <2>2, <3>1 DEF Counts
    <3>3. QED BY <2>1, <2>2, <3>1, <3>2 DEF Counts
  <2>5. QED BY <2>2, <2>3, <2>4 DEF CountedInv
<1>10. ASSUME NEW c \in Contents, DamageDb(c) PROVE CountedInv'
  <2>1. /\ db[c] # <<>> /\ db' = [db EXCEPT ![c] = [db[c] EXCEPT ![1] = NoContent]]
        /\ \A p \in Processes : stage[p] = "attach" => name[p] # c
        /\ semanticSpent' = [semanticSpent EXCEPT !["damage"] = semanticSpent["damage"] + 1]
        /\ UNCHANGED <<source, stage, desc, name, input, copied, served>>
    BY <1>10 DEF DamageDb, SemanticMishap, local, Absent
  <2>2. semanticSpent'["change"] = semanticSpent["change"]
    BY <1>0, <2>1 DEF SemanticTyped, SemanticMishaps
  <2>3. db[c] \in Seq(Known) /\ Len(db[c]) = Tables
    BY <1>0, <2>1, EmptySeq DEF SemanticTyped
  <2>4. 1 \in 1 .. Len(db[c]) /\ NoContent \in Known
    BY <2>3, TablesNat DEF Known
  <2>5. /\ Len([db[c] EXCEPT ![1] = NoContent]) = Len(db[c])
        /\ \A j \in 1 .. Len(db[c]) : [db[c] EXCEPT ![1] = NoContent][j] \in {NoContent, db[c][j]}
    BY <2>3, <2>4, ExceptSeq
  <2>6. db'[c] = [db[c] EXCEPT ![1] = NoContent] /\ \A d \in Contents : d # c => db'[d] = db[d]
    BY <1>0, <2>1 DEF SemanticTyped
  <2>7. source \in Contents
    BY <1>0 DEF SemanticTyped
  <2>8. Mostly(db[source], source)'
    <3>1. CASE c = source
      BY <2>1, <2>5, <2>6, <3>1 DEF CountedInv, Mostly
    <3>2. CASE c # source
      BY <2>1, <2>6, <2>7, <3>2 DEF CountedInv, Mostly
    <3>3. QED BY <3>1, <3>2
  <2>9. semanticSpent'["change"] = 0 => \A d \in Contents \ {source'} : db'[d] = <<>>
    BY <2>1, <2>2, <2>6 DEF CountedInv
  <2>10. ASSUME NEW q \in Processes PROVE Counts(q)'
    <3>1. stage[q] = "attach" => name[q] \in Contents /\ name[q] # c
      BY <1>0, <2>1 DEF Tracked
    <3>2. stage[q] = "attach" => \E d \in Contents : db'[name[q]] = Full(d) /\ Rows[d] = Rows[desc[q]]
      BY <1>c, <2>6, <3>1
    <3>3. QED BY <2>1, <2>2, <3>2, OthersCounts
  <2>11. QED BY <2>8, <2>9, <2>10 DEF CountedInv
<1>11. CASE UNCHANGED semanticVars
  <2>1. UNCHANGED <<source, db, stage, desc, name, input, copied, served, semanticSpent>>
    BY <1>11 DEF semanticVars, local
  <2>2. ASSUME NEW q \in Processes PROVE Counts(q)'
    BY <1>c, <2>1, OthersCounts
  <2>3. QED BY <1>b, <2>1, <2>2 DEF CountedInv
<1>12. QED BY <1>1, <1>2, <1>3, <1>4, <1>5, <1>6, <1>7, <1>8, <1>9, <1>10, <1>11
           DEF SemanticNext, PrepareStep

(* While the dataset file is replaced at most once, the row counts see to  *)
(* it that even a process that was overtaken serves as many rows as it     *)
(* described; more they cannot do.  ServedWhole says the rest.             *)
THEOREM DescribedServed ==
    ASSUME SemanticLimit["change"] <= 1
    PROVE  SemanticSpec => []SemanticRight
<1>1. SemanticInit => CountedInv
  <2> SUFFICES ASSUME SemanticInit PROVE CountedInv
    OBVIOUS
  <2>1. \A c \in Contents : db[c] = <<>>
    BY DEF SemanticInit, Absent
  <2>2. Mostly(db[source], source)
    <3>1. db[source] = <<>>
      BY <2>1 DEF SemanticInit
    <3>2. QED BY <3>1, EmptySeq DEF Mostly
  <2>3. \A p \in Processes : Counts(p)
    BY DEF SemanticInit, Counts
  <2>4. QED BY <2>1, <2>2, <2>3 DEF CountedInv
<1>2. WholeInv /\ CountedInv => SemanticRight
  <2> SUFFICES ASSUME WholeInv, CountedInv PROVE SemanticRight
    OBVIOUS
  <2>1. SemanticTypeOK /\ ServedTrue
    BY DEF WholeInv, Tracked, SemanticTyped, SemanticTypeOK, ServedTrue, Known
  <2>2. ASSUME NEW p \in Processes, stage[p] = "serving", NEW i \in 1 .. Tables
        PROVE  Rows[served[p][i]] = Rows[desc[p]]
    <3>1. PICK c \in Contents : served[p] = Full(c) /\ Rows[c] = Rows[desc[p]]
      BY <2>2 DEF CountedInv, Counts
    <3>2. served[p][i] = c
      BY <3>1 DEF Full
    <3>3. QED BY <3>1, <3>2
  <2>3. QED BY <2>1, <2>2 DEF SemanticRight, ServedCounted
<1>3. QED BY <1>1, <1>2, WholeFirst, StepWhole, StepCounted, PTL DEF SemanticSpec

-----------------------------------------------------------------------------
(***************************************************************************)
(* WebInteraction.  A piece of the stream is the events behind the i-th up *)
(* to the j-th.                                                            *)
(***************************************************************************)
Piece(i, j) == [k \in 1 .. j - i |-> i + k]

(* A piece is a sequence of events: its entries and its length, and when it *)
(* is empty.                                                               *)
LEMMA PieceIn == \A i \in 0 .. 3 : \A j \in i .. 3 :
    Piece(i, j) \in [1 .. j - i -> 1 .. 3] /\ Piece(i, j) \in Seq(1 .. 3)
<1> SUFFICES ASSUME NEW i \in 0 .. 3, NEW j \in i .. 3
             PROVE  Piece(i, j) \in [1 .. j - i -> 1 .. 3] /\ Piece(i, j) \in Seq(1 .. 3)
  OBVIOUS
<1>1. \A k \in 1 .. j - i : i + k \in 1 .. 3
  OBVIOUS
<1>2. Piece(i, j) \in [1 .. j - i -> 1 .. 3] /\ j - i \in Nat
  BY <1>1 DEF Piece
<1>3. QED BY <1>2, SeqDef

LEMMA PieceLen == \A i \in 0 .. 3 : \A j \in i .. 3 : Len(Piece(i, j)) = j - i
<1> SUFFICES ASSUME NEW i \in 0 .. 3, NEW j \in i .. 3 PROVE Len(Piece(i, j)) = j - i
  OBVIOUS
<1>1. DOMAIN Piece(i, j) = 1 .. j - i /\ j - i \in Nat /\ Piece(i, j) \in Seq(1 .. 3)
  BY PieceIn DEF Piece
<1>2. QED BY <1>1, LenProperties

LEMMA PieceAt == \A i \in 0 .. 3 : \A j \in i .. 3 : \A k \in 1 .. j - i : Piece(i, j)[k] = i + k
BY DEF Piece

LEMMA PieceEmpty == \A i \in 0 .. 3 : \A j \in i .. 3 : Piece(i, j) = <<>> <=> i = j
<1> SUFFICES ASSUME NEW i \in 0 .. 3, NEW j \in i .. 3 PROVE Piece(i, j) = <<>> <=> i = j
  OBVIOUS
<1>1. Piece(i, j) \in Seq(1 .. 3) /\ Len(Piece(i, j)) = j - i
  BY PieceIn, PieceLen
<1>2. QED BY <1>1, EmptySeq

(* Two sequences of one length and with the same entries are equal. *)
LEMMA SameEntries ==
    ASSUME NEW S, NEW s \in Seq(S), NEW t \in Seq(S), Len(s) = Len(t),
           \A k \in 1 .. Len(s) : s[k] = t[k]
    PROVE  s = t
BY SeqEqual

(* The stream is a piece, and so is what a stream opened at a cursor yields. *)
LEMMA StreamPiece ==
    /\ Stream = Piece(0, 3)
    /\ \A c \in 0 .. 3 : SubSeq(Stream, c + 1, Len(Stream)) = Piece(c, 3)
    /\ SubSeq(Stream, 5, Len(Stream)) = <<>>
<1>1. Stream \in Seq(1 .. 3) /\ Len(Stream) = 3 /\ \A k \in 1 .. 3 : Stream[k] = k
  BY DEF Stream
<1>2. Stream = Piece(0, 3)
  <2>1. Piece(0, 3) \in Seq(1 .. 3) /\ Len(Piece(0, 3)) = 3 /\ \A k \in 1 .. 3 : Piece(0, 3)[k] = k
    BY PieceIn, PieceLen, PieceAt, PieceEmpty
  <2>2. QED BY <1>1, <2>1, SameEntries
<1>3. ASSUME NEW c \in 0 .. 3 PROVE SubSeq(Stream, c + 1, 3) = Piece(c, 3)
  <2>1. /\ SubSeq(Stream, c + 1, 3) \in Seq(1 .. 3)
        /\ Len(SubSeq(Stream, c + 1, 3)) = 3 - c
        /\ \A k \in 1 .. 3 - c : SubSeq(Stream, c + 1, 3)[k] = Stream[c + k]
    <3>1. \A k \in c + 1 .. 3 : Stream[k] \in 1 .. 3
      BY <1>1
    <3>2. c + 1 \in Int /\ 3 \in Int /\ (IF c + 1 <= 3 THEN 3 - (c + 1) + 1 ELSE 0) = 3 - c
          /\ 3 - (c + 1) + 1 = 3 - c /\ \A k \in 1 .. 3 - c : c + 1 + k - 1 = c + k
      OBVIOUS
    <3>3. QED BY <3>1, <3>2, SubSeqProperties
  <2>2. c \in 0 .. 3 /\ 3 \in c .. 3 /\ \A k \in 1 .. 3 - c : c + k \in 1 .. 3
    OBVIOUS
  <2>3. Piece(c, 3) \in Seq(1 .. 3)
    BY <2>2, PieceIn
  <2>4. Len(Piece(c, 3)) = 3 - c
    BY <2>2, PieceLen
  <2>5. \A k \in 1 .. 3 - c : Piece(c, 3)[k] = c + k
    BY <2>2, PieceAt
  <2>6. \A k \in 1 .. 3 - c : SubSeq(Stream, c + 1, 3)[k] = c + k
    BY <1>1, <2>1, <2>2
  <2>7. QED BY <2>1, <2>3, <2>4, <2>5, <2>6, SameEntries
<1>4. SubSeq(Stream, 5, 3) = <<>>
  BY SubSeqEmpty
<1>5. QED BY <1>1, <1>2, <1>3, <1>4

(* How pieces grow and shrink. *)
LEMMA PieceSteps ==
    ASSUME NEW i \in 0 .. 3, NEW j \in i .. 3
    PROVE  /\ j < 3 => Append(Piece(i, j), j + 1) = Piece(i, j + 1)
           /\ i < j => Head(Piece(i, j)) = i + 1 /\ Tail(Piece(i, j)) = Piece(i + 1, j)
<1>0. Piece(i, j) \in Seq(1 .. 3)
  BY PieceIn
<1>1. Len(Piece(i, j)) = j - i /\ j - i \in Nat
  <2>1. Len(Piece(i, j)) = j - i
    BY PieceLen
  <2>2. j - i \in Nat
    OBVIOUS
  <2>3. QED BY <2>1, <2>2
<1>2. \A k \in 1 .. j - i : Piece(i, j)[k] = i + k
  BY PieceAt
<1>3. ASSUME j < 3 PROVE Append(Piece(i, j), j + 1) = Piece(i, j + 1)
  <2>1. j + 1 \in i .. 3 /\ j + 1 \in 1 .. 3 /\ j + 1 - i = j - i + 1
    BY <1>3
  <2>2. Piece(i, j + 1) \in Seq(1 .. 3)
    BY <2>1, PieceIn
  <2>3. Len(Piece(i, j + 1)) = j - i + 1
    <3>1. \A m \in i .. 3 : Len(Piece(i, m)) = m - i
      BY PieceLen
    <3>2. QED BY <2>1, <3>1
  <2>4. \A k \in 1 .. j - i + 1 : Piece(i, j + 1)[k] = i + k
    <3>1. \A k \in 1 .. j + 1 - i : Piece(i, j + 1)[k] = i + k
      BY <2>1, PieceAt
    <3>2. QED BY <2>1, <3>1
  <2>5. /\ Append(Piece(i, j), j + 1) \in Seq(1 .. 3)
        /\ Len(Append(Piece(i, j), j + 1)) = Len(Piece(i, j)) + 1
        /\ \A k \in 1 .. Len(Piece(i, j)) : Append(Piece(i, j), j + 1)[k] = Piece(i, j)[k]
        /\ Append(Piece(i, j), j + 1)[Len(Piece(i, j)) + 1] = j + 1
    BY <1>0, <2>1, AppendProperties
  <2>6. i + (j - i + 1) = j + 1 /\ \A k \in 1 .. j - i + 1 : k \in 1 .. j - i \/ k = j - i + 1
    OBVIOUS
  <2>7. \A k \in 1 .. j - i + 1 : Append(Piece(i, j), j + 1)[k] = i + k
    BY <1>1, <1>2, <2>5, <2>6
  <2>8. Len(Append(Piece(i, j), j + 1)) = Len(Piece(i, j + 1))
    BY <1>1, <2>3, <2>5
  <2>9. \A k \in 1 .. Len(Append(Piece(i, j), j + 1)) :
           Append(Piece(i, j), j + 1)[k] = Piece(i, j + 1)[k]
    BY <2>3, <2>4, <2>7, <2>8
  <2>10. QED BY <2>2, <2>5, <2>8, <2>9, SameEntries
<1>4. ASSUME i < j PROVE Head(Piece(i, j)) = i + 1 /\ Tail(Piece(i, j)) = Piece(i + 1, j)
  <2>1. /\ i + 1 \in 0 .. 3 /\ j \in i + 1 .. 3 /\ j - i - 1 \in Nat /\ j - (i + 1) = j - i - 1
        /\ 1 \in 1 .. j - i /\ i # j
    BY <1>4
  <2>2. Piece(i, j) # <<>>
    BY <2>1, PieceEmpty
  <2>3. Piece(i + 1, j) \in Seq(1 .. 3)
    BY <2>1, PieceIn
  <2>4. Len(Piece(i + 1, j)) = j - i - 1
    BY <2>1, PieceLen
  <2>5. \A k \in 1 .. j - i - 1 : Piece(i + 1, j)[k] = i + k + 1
    <3>1. \A k \in 1 .. j - (i + 1) : Piece(i + 1, j)[k] = i + 1 + k
      BY <2>1, PieceAt
    <3>2. QED BY <2>1, <3>1
  <2>6. /\ Tail(Piece(i, j)) \in Seq(1 .. 3) /\ Len(Tail(Piece(i, j))) = Len(Piece(i, j)) - 1
        /\ \A k \in 1 .. Len(Tail(Piece(i, j))) : Tail(Piece(i, j))[k] = Piece(i, j)[k + 1]
        /\ Head(Piece(i, j)) = Piece(i, j)[1]
    BY <1>0, <2>2, HeadTailProperties
  <2>7. \A k \in 1 .. j - i - 1 : k + 1 \in 1 .. j - i /\ i + (k + 1) = i + k + 1
    OBVIOUS
  <2>8. \A k \in 1 .. j - i - 1 : Tail(Piece(i, j))[k] = i + k + 1
    BY <1>1, <1>2, <2>6, <2>7
  <2>9. Tail(Piece(i, j)) = Piece(i + 1, j)
    BY <1>1, <2>3, <2>4, <2>5, <2>6, <2>8, SameEntries
  <2>10. QED BY <1>2, <2>1, <2>6, <2>9
<1>5. QED BY <1>3, <1>4

(* What the browser has received is a piece from the beginning, its cursor *)
(* stands at the end of it, and what is on the wire and still to be sent   *)
(* are the pieces that follow; a browser whose action has been taken       *)
(* stands behind the last event and is sent nothing.                       *)
StreamInv ==
    /\ state \in {"new", "known", "streaming", "ended", "refused"}
    /\ \E j \in 0 .. 3 : sending = Piece(j, 3)
    /\ \E i \in 0 .. 3 : seen = Piece(0, i)
    /\ cursor \in 0 .. 4 \cup {NoCursor}
    /\ status = "succeeded" => cursor = LastEvent
    /\ status # "succeeded" /\ state \in {"known", "streaming", "ended"} =>
          cursor = Len(seen)
    /\ state = "streaming" =>
          IF status = "succeeded" THEN wire = <<>> /\ sending = <<>>
          ELSE \E i \in 0 .. 3 : \E j \in i .. 3 :
                  seen = Piece(0, i) /\ wire = Piece(i, j) /\ sending = Piece(j, 3)
    /\ state = "ended" => seen = Stream \/ status = "succeeded"

(* Nothing that StreamInv speaks of changes. *)
LEMMA StreamUnmoved ==
    ASSUME StreamInv, UNCHANGED <<state, cursor, sending, wire, seen, status>>
    PROVE  StreamInv'
BY DEF StreamInv

LEMMA StepStream == StreamInv /\ [WebNext]_webVars => StreamInv'
<1> SUFFICES ASSUME StreamInv, [WebNext]_webVars PROVE StreamInv'
  OBVIOUS
<1> USE DEF LastEvent
<1>0. /\ Piece(0, 0) = <<>> /\ Piece(3, 3) = <<>> /\ Len(<<>>) = 0
      /\ \A i \in 0 .. 3 : Len(Piece(0, i)) = i
  BY PieceIn, PieceLen, PieceAt, PieceEmpty, EmptySeq
<1>1. CASE GetRun
  <2>1. CASE ProviderEnabled /\ Authorized
    <3>1. /\ state' = "known" /\ cursor' = 0 /\ seen' = <<>> /\ status' = "running"
          /\ sending' = sending
      BY <1>1, <2>1 DEF GetRun
    <3>2. QED BY <1>0, <3>1 DEF StreamInv
  <2>2. CASE ~(ProviderEnabled /\ Authorized)
    <3>1. state' = "refused" /\ UNCHANGED <<cursor, sending, wire, seen, status>>
      BY <1>1, <2>2 DEF GetRun, Refuse
    <3>2. QED BY <3>1 DEF StreamInv
  <2>3. QED BY <2>1, <2>2
<1>2. CASE OpenStream
  <2>1. /\ state = "known" /\ state' = "streaming" /\ wire' = <<>>
        /\ sending' = Resumed(cursor) /\ UNCHANGED <<cursor, seen, status>>
    BY <1>2 DEF OpenStream
  <2>2. CASE status = "succeeded"
    <3>1. cursor = 4 /\ At(cursor) = 4
      BY <2>2, WebAssumption DEF StreamInv, At
    <3>2. sending' = <<>>
      BY <2>1, <3>1, StreamPiece DEF Resumed
    <3>3. QED BY <1>0, <2>1, <2>2, <3>2 DEF StreamInv
  <2>3. CASE status # "succeeded"
    <3>1. PICK i \in 0 .. 3 : seen = Piece(0, i)
      BY DEF StreamInv
    <3>2. cursor = i /\ At(cursor) = i
      <4>1. cursor = i
        BY <1>0, <2>1, <2>3, <3>1 DEF StreamInv
      <4>2. QED BY <4>1, WebAssumption DEF At
    <3>3. sending' = Piece(i, 3)
      BY <2>1, <3>2, StreamPiece DEF Resumed
    <3>4. wire' = Piece(i, i) /\ i \in i .. 3
      <4>1. i \in i .. 3
        OBVIOUS
      <4>2. QED BY <2>1, <4>1, PieceEmpty
    <3>5. QED BY <2>1, <2>3, <3>1, <3>2, <3>3, <3>4 DEF StreamInv
  <2>4. QED BY <2>2, <2>3
<1>3. CASE Send
  <2>1. /\ state = "streaming" /\ sending # <<>>
        /\ wire' = Append(wire, Head(sending)) /\ sending' = Tail(sending)
        /\ UNCHANGED <<state, cursor, seen, status>>
    BY <1>3 DEF Send
  <2>2. status # "succeeded"
    BY <2>1 DEF StreamInv
  <2>3. PICK i \in 0 .. 3 : \E j \in i .. 3 :
        seen = Piece(0, i) /\ wire = Piece(i, j) /\ sending = Piece(j, 3)
    BY <2>1, <2>2 DEF StreamInv
  <2>3a. PICK j \in i .. 3 : seen = Piece(0, i) /\ wire = Piece(i, j) /\ sending = Piece(j, 3)
    BY <2>3
  <2>4. j \in 0 .. 3 /\ 3 \in j .. 3
    OBVIOUS
  <2>5. j < 3
    BY <2>1, <2>3a, <2>4, PieceIn, PieceLen, PieceAt, PieceEmpty
  <2>6. Head(sending) = j + 1 /\ Tail(sending) = Piece(j + 1, 3)
    BY <2>3a, <2>4, <2>5, PieceSteps
  <2>7. wire' = Piece(i, j + 1)
    BY <2>1, <2>3a, <2>5, <2>6, PieceSteps
  <2>8. j + 1 \in i .. 3 /\ j + 1 \in 0 .. 3
    BY <2>5
  <2>9. QED BY <2>1, <2>2, <2>3a, <2>6, <2>7, <2>8 DEF StreamInv
<1>4. CASE ReceiveEvent
  <2>1. /\ state = "streaming" /\ wire # <<>>
        /\ seen' = Append(seen, Head(wire)) /\ cursor' = Head(wire) /\ wire' = Tail(wire)
        /\ UNCHANGED <<state, sending, status>>
    BY <1>4 DEF ReceiveEvent, CursorOf
  <2>2. status # "succeeded"
    BY <2>1 DEF StreamInv
  <2>3. PICK i \in 0 .. 3 : \E j \in i .. 3 :
        seen = Piece(0, i) /\ wire = Piece(i, j) /\ sending = Piece(j, 3)
    BY <2>1, <2>2 DEF StreamInv
  <2>3a. PICK j \in i .. 3 : seen = Piece(0, i) /\ wire = Piece(i, j) /\ sending = Piece(j, 3)
    BY <2>3
  <2>4. i < j
    BY <2>1, <2>3a, PieceEmpty
  <2>5. Head(wire) = i + 1 /\ Tail(wire) = Piece(i + 1, j)
    BY <2>3a, <2>4, PieceSteps
  <2>6. 0 \in 0 .. 3 /\ i \in 0 .. 3 /\ i < 3 /\ i + 1 \in 0 .. 3 /\ j \in i + 1 .. 3
    BY <2>4
  <2>7. seen' = Piece(0, i + 1)
    BY <2>1, <2>3a, <2>5, <2>6, PieceSteps
  <2>8. cursor' = i + 1 /\ Len(seen') = i + 1
    BY <1>0, <2>1, <2>5, <2>6, <2>7
  <2>9. QED BY <2>1, <2>2, <2>3a, <2>5, <2>6, <2>7, <2>8 DEF StreamInv
<1>5. CASE EndStream
  <2>1. /\ state = "streaming" /\ sending = <<>> /\ wire = <<>> /\ state' = "ended"
        /\ UNCHANGED <<cursor, sending, wire, seen, status>>
    BY <1>5 DEF EndStream
  <2>2. CASE status = "succeeded"
    BY <2>1, <2>2 DEF StreamInv
  <2>3. CASE status # "succeeded"
    <3>1. PICK i \in 0 .. 3 : \E j \in i .. 3 :
          seen = Piece(0, i) /\ wire = Piece(i, j) /\ sending = Piece(j, 3)
      BY <2>1, <2>3 DEF StreamInv
    <3>1a. PICK j \in i .. 3 : seen = Piece(0, i) /\ wire = Piece(i, j) /\ sending = Piece(j, 3)
      BY <3>1
    <3>2. i = j /\ j = 3
      <4>1. i = j
        BY <2>1, <3>1a, PieceEmpty
      <4>2. j \in 0 .. 3 /\ 3 \in j .. 3
        OBVIOUS
      <4>3. j = 3
        BY <2>1, <3>1a, <4>2, PieceEmpty
      <4>4. QED BY <4>1, <4>3
    <3>3. QED BY <2>1, <2>3, <3>1a, <3>2, StreamPiece DEF StreamInv
  <2>4. QED BY <2>2, <2>3
<1>6. CASE OpenRejected
  BY <1>6, StreamUnmoved DEF OpenRejected
<1>7. CASE BreakStream
  <2>1. state = "streaming" /\ state' = "known" /\ UNCHANGED <<cursor, sending, seen, status>>
    BY <1>7 DEF BreakStream
  <2>2. QED BY <2>1 DEF StreamInv
<1>8. CASE Submit
  <2>1. /\ state \in {"known", "ended"} /\ UNCHANGED <<state, sending, wire, seen>>
        /\ \/ cursor' = 4 /\ status' = "succeeded"
           \/ UNCHANGED <<cursor, status>>
    BY <1>8 DEF Submit
  <2>2. QED BY <2>1 DEF StreamInv
<1>9. CASE UNCHANGED webVars
  BY <1>9, StreamUnmoved DEF webVars
<1>10. QED BY <1>1, <1>2, <1>3, <1>4, <1>5, <1>6, <1>7, <1>8, <1>9 DEF WebNext, Browse

(* Wherever streams break and whenever the action is submitted, the browser *)
(* receives the events of the run in order, once, and all of them before   *)
(* its stream ends.                                                        *)
THEOREM StreamKept == WebSpec => []StreamRight
<1>1. WebInit => StreamInv
  <2> SUFFICES ASSUME WebInit PROVE StreamInv
    OBVIOUS
  <2>1. <<>> = Piece(0, 0) /\ <<>> = Piece(3, 3)
    BY PieceIn, PieceLen, PieceAt, PieceEmpty
  <2>2. sending = Piece(3, 3) /\ seen = Piece(0, 0)
    <3>1. sending = <<>> /\ seen = <<>>
      BY DEF WebInit
    <3>2. QED BY <2>1, <3>1
  <2>3. state = "new" /\ cursor = NoCursor /\ status = "none"
    BY DEF WebInit
  <2>4. QED BY <2>2, <2>3 DEF StreamInv
<1>2. StreamInv => StreamRight
  <2> SUFFICES ASSUME StreamInv PROVE StreamRight
    OBVIOUS
  <2>1. WebTypeOK
    <3>1. PICK j \in 0 .. 3 : sending = Piece(j, 3)
      BY DEF StreamInv
    <3>2. 3 \in j .. 3 /\ 3 - j \in 0 .. 3
      OBVIOUS
    <3>3. sending \in [1 .. 3 - j -> 1 .. 3]
      BY <3>1, <3>2, PieceIn, PieceLen, PieceAt, PieceEmpty
    <3>4. QED BY <3>2, <3>3 DEF StreamInv, WebTypeOK, Ids
  <2>2. InOrderOnce
    <3>1. PICK i \in 0 .. 3 : seen = Piece(0, i)
      BY DEF StreamInv
    <3>2. /\ Len(seen) = i /\ Len(Stream) = 3 /\ seen \in Seq(1 .. 3) /\ Stream \in Seq(1 .. 3)
          /\ \A k \in 1 .. i : seen[k] = k /\ Stream[k] = k
      <4>0. 0 \in 0 .. 3 /\ i \in 0 .. 3 /\ i - 0 = i
        OBVIOUS
      <4>1. seen \in Seq(1 .. 3)
        BY <3>1, <4>0, PieceIn
      <4>2. Len(seen) = i
        BY <3>1, <4>0, PieceLen
      <4>3. \A k \in 1 .. i : seen[k] = k
        <5>1. \A k \in 1 .. i - 0 : seen[k] = 0 + k
          BY <3>1, <4>0, PieceAt
        <5>2. QED BY <4>0, <5>1
      <4>4. Stream \in Seq(1 .. 3) /\ Len(Stream) = 3 /\ \A k \in 1 .. i : Stream[k] = k
        BY DEF Stream
      <4>5. QED BY <4>1, <4>2, <4>3, <4>4
    <3>3. /\ SubSeq(seen, 1, i) \in Seq(1 .. 3) /\ Len(SubSeq(seen, 1, i)) = i
          /\ \A k \in 1 .. i : SubSeq(seen, 1, i)[k] = k
      BY <3>2, SubSeqProperties
    <3>4. /\ SubSeq(Stream, 1, i) \in Seq(1 .. 3) /\ Len(SubSeq(Stream, 1, i)) = i
          /\ \A k \in 1 .. i : SubSeq(Stream, 1, i)[k] = k
      BY <3>2, SubSeqProperties
    <3>5. SubSeq(seen, 1, i) = SubSeq(Stream, 1, i)
      BY <3>3, <3>4, SameEntries
    <3>6. QED BY <3>2, <3>5 DEF InOrderOnce, IsPrefix
  <2>3. QED BY <2>1, <2>2 DEF StreamRight, StreamInv, EndsComplete
<1>3. QED BY <1>1, <1>2, StepStream, PTL DEF WebSpec


-----------------------------------------------------------------------------
(***************************************************************************)
(* WorkerReadiness.                                                        *)
(***************************************************************************)
Phases == {"idle", "connect", "queues", "judge_queues", "tasks", "judge_tasks"}

(* What was seen of the workers since the probe began is remembered, and   *)
(* what the probe still has to judge is an answer of such a moment; a      *)
(* worker that has been right all along has given the right answer, and    *)
(* no time has passed.                                                     *)
ProbeInv ==
    /\ DOMAIN probe = {"pc", "reply", "asked"} /\ probe.pc \in Phases
    /\ elapsed \in 0 .. Budget /\ probe.asked \in Nat
    /\ result \in {"none", "ready", "not_ready"}
    /\ consumed \in BOOLEAN /\ registered \in BOOLEAN /\ right \in BOOLEAN
    /\ elapsed > 0 => right = FALSE
    /\ probe.pc # "idle" /\ (\E w \in Workers : Exactly(w)) => consumed = TRUE
    /\ probe.pc # "idle" /\ (\E w \in Workers : HasTasks(w)) => registered = TRUE
    /\ probe.pc # "idle" /\ right = TRUE =>
          \A w \in Workers : Exactly(w) /\ HasTasks(w) /\ Answers(w)
    /\ probe.pc = "judge_queues" =>
          /\ probe.reply = {Configured} => consumed = TRUE
          /\ right = TRUE => probe.reply = {Configured}
    /\ probe.pc \in {"tasks", "judge_tasks"} => consumed = TRUE
    /\ probe.pc = "judge_tasks" =>
          /\ Required \subseteq probe.reply => registered = TRUE
          /\ right = TRUE => Required \subseteq probe.reply
    /\ result = "ready" => consumed = TRUE /\ registered = TRUE
    /\ result = "not_ready" => right = FALSE

(* The bounds of the probe are numbers greater than 0.                     *)
LEMMA ProbeNumbers == Budget \in Nat /\ Budget > 0 /\ ReplyTimeout \in Nat /\ ReplyTimeout > 0
                      /\ 0 \in 0 .. Budget
BY ProbeAssumption

(* A probe that ends with a verdict the ghosts support.                    *)
LEMMA ProbeEnds ==
    ASSUME ProbeInv, NEW v \in {"ready", "not_ready"}, EndProbe(v),
           v = "ready" => consumed = TRUE /\ registered = TRUE,
           v = "not_ready" => right = FALSE
    PROVE  ProbeInv'
<1>1. /\ probe' = [pc |-> "idle", reply |-> None, asked |-> 0] /\ elapsed' = 0 /\ result' = v
      /\ UNCHANGED <<settings, worker, changes, consumed, registered, right>>
  BY DEF EndProbe, NoProbe
<1>2. probe'.pc = "idle" /\ probe'.asked = 0 /\ DOMAIN probe' = {"pc", "reply", "asked"}
  BY <1>1
<1>3. 0 \in 0 .. Budget
  BY ProbeNumbers
<1>4. QED BY <1>1, <1>2, <1>3 DEF ProbeInv, Phases

(* A probe that goes on with its broadcast.                                *)
LEMMA ProbeAsks ==
    ASSUME ProbeInv, NEW pc, NEW next \in {"queues", "tasks"}, Ask(pc, next), probe.pc # "idle",
           next = "tasks" => consumed = TRUE
    PROVE  ProbeInv'
<1>1. /\ probe' = [pc |-> next, reply |-> None, asked |-> elapsed]
      /\ UNCHANGED <<settings, worker, elapsed, result, consumed, registered, right>>
  BY DEF Ask
<1>2. probe'.pc = next /\ probe'.asked = elapsed /\ DOMAIN probe' = {"pc", "reply", "asked"}
  BY <1>1
<1>3. elapsed \in Nat
  BY ProbeNumbers DEF ProbeInv
<1>4. /\ \A w \in Workers : (Exactly(w)' <=> Exactly(w)) /\ (HasTasks(w)' <=> HasTasks(w))
                            /\ (Answers(w)' <=> Answers(w))
  BY <1>1 DEF Exactly, HasTasks, Answers, Configured, Queue
<1>5. QED BY <1>1, <1>2, <1>3, <1>4 DEF ProbeInv, Phases

LEMMA StepProbe == ProbeInv /\ [ProbeNext]_probeVars => ProbeInv'
<1> SUFFICES ASSUME ProbeInv, [ProbeNext]_probeVars PROVE ProbeInv'
  OBVIOUS
<1>0. ASSUME UNCHANGED <<settings, worker>>
      PROVE  /\ Configured' = Configured
             /\ \A w \in Workers : (Exactly(w)' <=> Exactly(w)) /\ (HasTasks(w)' <=> HasTasks(w))
                                   /\ (Answers(w)' <=> Answers(w))
  BY <1>0 DEF Exactly, HasTasks, Answers, Configured, Queue
<1>1. CASE Start
  <2>1. /\ probe' = [pc |-> "connect", reply |-> None, asked |-> 0] /\ elapsed' = 0
        /\ result' = "none" /\ UNCHANGED <<settings, worker>>
    BY <1>1 DEF Start
  <2>2. probe'.pc = "connect" /\ probe'.asked = 0 /\ DOMAIN probe' = {"pc", "reply", "asked"}
    BY <2>1
  <2>3. /\ consumed' \in BOOLEAN /\ registered' \in BOOLEAN /\ right' \in BOOLEAN
        /\ (\E w \in Workers : Exactly(w)) => consumed' = TRUE
        /\ (\E w \in Workers : HasTasks(w)) => registered' = TRUE
        /\ right' = TRUE => \A w \in Workers : Exactly(w) /\ HasTasks(w) /\ Answers(w)
    BY <1>1, Zenon DEF Start
  <2>4. 0 \in 0 .. Budget
    BY ProbeNumbers
  <2>5. QED BY <1>0, <2>1, <2>2, <2>3, <2>4 DEF ProbeInv, Phases
<1>2. CASE Ask("connect", "queues")
  <2>1. probe.pc = "connect"
    BY <1>2 DEF Ask
  <2>2. QED BY <1>2, <2>1, ProbeAsks
<1>3. CASE BrokerFails
  <2>1. /\ probe' = [pc |-> "idle", reply |-> None, asked |-> 0] /\ elapsed' = 0
        /\ result' = "not_ready" /\ right' = FALSE /\ UNCHANGED <<consumed, registered>>
    BY <1>3 DEF BrokerFails, NoProbe
  <2>2. probe'.pc = "idle" /\ probe'.asked = 0 /\ DOMAIN probe' = {"pc", "reply", "asked"}
    BY <2>1
  <2>3. 0 \in 0 .. Budget
    BY ProbeNumbers
  <2>4. QED BY <2>1, <2>2, <2>3 DEF ProbeInv, Phases
<1>4. CASE Silence
  <2>1. elapsed - probe.asked >= ReplyTimeout /\ EndProbe("not_ready")
    BY <1>4 DEF Silence
  <2>2. elapsed > 0
    BY <2>1, ProbeNumbers DEF ProbeInv
  <2>3. right = FALSE
    BY <2>2 DEF ProbeInv
  <2>4. QED BY <2>1, <2>3, ProbeEnds
<1>5. CASE JudgeQueues
  <2>1. probe.pc = "judge_queues"
    BY <1>5 DEF JudgeQueues
  <2>2. CASE QueuesRight(probe.reply)
    <3>1. consumed = TRUE
      BY <2>1, <2>2 DEF QueuesRight, ProbeInv
    <3>2. Ask("judge_queues", "tasks")
      BY <1>5, <2>2 DEF JudgeQueues
    <3>3. QED BY <2>1, <3>1, <3>2, ProbeAsks
  <2>3. CASE ~QueuesRight(probe.reply)
    <3>1. right = FALSE
      BY <2>1, <2>3 DEF QueuesRight, ProbeInv
    <3>2. EndProbe("not_ready")
      BY <1>5, <2>3 DEF JudgeQueues
    <3>3. QED BY <3>1, <3>2, ProbeEnds
  <2>4. QED BY <2>2, <2>3
<1>6. CASE JudgeTasks
  <2>1. probe.pc = "judge_tasks" /\ consumed = TRUE
    BY <1>6 DEF JudgeTasks, ProbeInv
  <2>2. CASE TasksRight(probe.reply)
    <3>1. registered = TRUE
      BY <2>1, <2>2 DEF TasksRight, ProbeInv
    <3>2. EndProbe("ready")
      BY <1>6, <2>2 DEF JudgeTasks
    <3>3. QED BY <2>1, <3>1, <3>2, ProbeEnds
  <2>3. CASE ~TasksRight(probe.reply)
    <3>1. right = FALSE
      BY <2>1, <2>3 DEF TasksRight, ProbeInv
    <3>2. EndProbe("not_ready")
      BY <1>6, <2>3 DEF JudgeTasks
    <3>3. QED BY <3>1, <3>2, ProbeEnds
  <2>4. QED BY <2>2, <2>3
<1>7. CASE ProbeTick
  <2>1. /\ elapsed < Budget /\ elapsed' = elapsed + 1 /\ right' = FALSE
        /\ UNCHANGED <<settings, worker, probe, result, consumed, registered>>
    BY <1>7, ProbeNumbers DEF ProbeTick, Overdue, ProbeInv
  <2>2. elapsed' \in 0 .. Budget
    BY <2>1, ProbeNumbers DEF ProbeInv
  <2>3. QED BY <1>0, <2>1, <2>2 DEF ProbeInv
<1>8. CASE Kill
  <2>1. elapsed >= Budget /\ EndProbe("not_ready")
    BY <1>8 DEF Kill, Overdue
  <2>2. elapsed > 0
    BY <2>1, ProbeNumbers DEF ProbeInv
  <2>3. right = FALSE
    BY <2>2 DEF ProbeInv
  <2>4. QED BY <2>1, <2>3, ProbeEnds
<1>9. ASSUME NEW w \in Workers, Reply(w) PROVE ProbeInv'
  <2>1. /\ probe.pc \in {"queues", "tasks"} /\ Answers(w)
        /\ UNCHANGED <<settings, worker, elapsed, result, consumed, registered, right>>
    BY <1>9 DEF Reply
  <2>2. CASE probe.pc = "queues"
    <3>1. probe' = [probe EXCEPT !.reply = worker[w].queues, !.pc = "judge_queues"]
      BY <1>9, <2>2 DEF Reply
    <3>2. /\ probe'.pc = "judge_queues" /\ probe'.reply = worker[w].queues
          /\ probe'.asked = probe.asked /\ DOMAIN probe' = DOMAIN probe
      BY <3>1 DEF ProbeInv
    <3>3. probe'.reply = {Configured} => Exactly(w)
      BY <2>1, <3>2 DEF Exactly, Answers
    <3>4. Exactly(w) => probe'.reply = {Configured}
      BY <3>2 DEF Exactly
    <3>5. QED BY <1>0, <2>1, <2>2, <3>2, <3>3, <3>4 DEF ProbeInv, Phases
  <2>3. CASE probe.pc = "tasks"
    <3>1. probe' = [probe EXCEPT !.reply = worker[w].tasks, !.pc = "judge_tasks"]
      BY <1>9, <2>3 DEF Reply
    <3>2. /\ probe'.pc = "judge_tasks" /\ probe'.reply = worker[w].tasks
          /\ probe'.asked = probe.asked /\ DOMAIN probe' = DOMAIN probe
      BY <3>1 DEF ProbeInv
    <3>3. Required \subseteq probe'.reply => HasTasks(w)
      BY <2>1, <3>2 DEF HasTasks, Answers
    <3>4. HasTasks(w) => Required \subseteq probe'.reply
      BY <3>2 DEF HasTasks
    <3>5. QED BY <1>0, <2>1, <2>3, <3>2, <3>3, <3>4 DEF ProbeInv, Phases
  <2>4. QED BY <2>1, <2>2, <2>3
<1>10. ASSUME NEW w \in Workers, ChangeWorker(w) PROVE ProbeInv'
  <2>1. UNCHANGED <<settings, probe, elapsed, result>> /\ Watch
    BY <1>10 DEF ChangeWorker
  <2>2. /\ consumed' \in BOOLEAN /\ registered' \in BOOLEAN /\ right' \in BOOLEAN
        /\ consumed = TRUE \/ (\E v \in Workers : Exactly(v)') => consumed' = TRUE
        /\ registered = TRUE \/ (\E v \in Workers : HasTasks(v)') => registered' = TRUE
        /\ right' = TRUE => \A v \in Workers : Exactly(v)' /\ HasTasks(v)' /\ Answers(v)'
        /\ right = FALSE => right' = FALSE
    BY <2>1, Zenon DEF Watch
  <2>3. Configured' = Configured
    BY <2>1 DEF Configured, Queue
  <2>4. QED BY <2>1, <2>2, <2>3 DEF ProbeInv
<1>11. CASE UNCHANGED probeVars
  BY <1>0, <1>11 DEF probeVars, ProbeInv
<1>12. QED BY <1>1, <1>2, <1>3, <1>4, <1>5, <1>6, <1>7, <1>8, <1>9, <1>10, <1>11
           DEF ProbeNext, Probe

(* What the probe says of a worker is true: "ready" of a moment at which it *)
(* consumed exactly the configured queue and one at which it had every     *)
(* task, "not_ready" of none that was right and answered at once.          *)
THEOREM ProbeTrue == ProbeSpec => []ProbeRight
<1>1. ProbeInit => ProbeInv
  <2> SUFFICES ASSUME ProbeInit PROVE ProbeInv
    OBVIOUS
  <2>1. /\ probe = [pc |-> "idle", reply |-> None, asked |-> 0] /\ elapsed = 0
        /\ result = "none" /\ consumed = FALSE /\ registered = FALSE /\ right = FALSE
    BY DEF ProbeInit, NoProbe
  <2>2. probe.pc = "idle" /\ probe.asked = 0 /\ DOMAIN probe = {"pc", "reply", "asked"}
    BY <2>1
  <2>3. 0 \in 0 .. Budget
    BY ProbeNumbers
  <2>4. QED BY <2>1, <2>2, <2>3 DEF ProbeInv, Phases
<1>2. ProbeInv => ProbeRight
  <2> SUFFICES ASSUME ProbeInv PROVE ProbeRight
    OBVIOUS
  <2>1. ProbeTypeOK
    BY DEF ProbeInv, ProbeTypeOK, Phases
  <2>2. ReadyWasTrue /\ NoFalseAlarm
    BY Zenon DEF ProbeInv, ReadyWasTrue, NoFalseAlarm
  <2>3. QED BY <2>1, <2>2 DEF ProbeRight
<1>3. QED BY <1>1, <1>2, StepProbe, PTL DEF ProbeSpec
=============================================================================
