---------------------------- MODULE Answers_proof ----------------------------
(***************************************************************************)
(* Machine-checked proofs about the parts that answer questions: retrieval *)
(* of evidence, for every request, provider and set of versions; queries   *)
(* by metric name, for every table and request; and the catalogue of a     *)
(* dataset, for every set of versions, registrations and readers and every *)
(* time to live.                                                           *)
(***************************************************************************)
EXTENDS DatasetCatalog, MetricQuery, Retrieval, WellFoundedInduction, FiniteSetTheorems,
        SequenceTheorems, TLAPS

-----------------------------------------------------------------------------
(* A set of naturals has a least member.                                   *)
LEMMA LeastMember ==
  ASSUME NEW T \in SUBSET Nat, T # {}
  PROVE  \E x \in T : \A y \in T : x <= y
<1>1. IsWellFoundedOn(OpToRel(<, Nat), Nat)
  BY NatLessThanWellFounded
<1>2. PICK x \in T : \A y \in T : <<y, x>> \notin OpToRel(<, Nat)
  BY <1>1, WFMin
<1>3. ASSUME NEW y \in T, y < x PROVE FALSE
  <2>1. <<y, x>> \in Nat \X Nat
    OBVIOUS
  <2>2. <<y, x>>[1] < <<y, x>>[2]
    BY <1>3
  <2>3. <<y, x>> \in OpToRel(<, Nat)
    BY <2>1, <2>2, Zenon DEF OpToRel
  <2>4. QED BY <1>2, <2>3
<1>4. QED BY <1>3

(* A bounded set of naturals has a greatest one.                           *)
LEMMA GreatestMember ==
  ASSUME NEW n \in Nat, NEW T \in SUBSET (1..n), T # {}
  PROVE  Max(T) \in T /\ \A y \in T : y <= Max(T)
<1> DEFINE U == {n - y : y \in T}
<1>1. U \in SUBSET Nat /\ U # {}
  <2>1. \A y \in T : n - y \in Nat
    OBVIOUS
  <2>2. PICK y \in T : TRUE
    OBVIOUS
  <2>3. n - y \in U
    OBVIOUS
  <2>4. QED BY <2>1, <2>3
<1>2. PICK u \in U : \A w \in U : u <= w
  BY <1>1, LeastMember
<1>3. PICK x \in T : u = n - x
  OBVIOUS
<1>4. \A y \in T : x >= y
  <2>1. ASSUME NEW y \in T PROVE x >= y
    <3>1. n - y \in U
      OBVIOUS
    <3>2. n - x <= n - y
      BY <1>2, <1>3, <3>1
    <3>3. QED BY <3>2
  <2>2. QED BY <2>1
<1>5. Max(T) \in T /\ \A y \in T : Max(T) >= y
  BY <1>4 DEF Max
<1>6. QED BY <1>5

-----------------------------------------------------------------------------
(* What is kept of a text for which there is room.                         *)
LEMMA FittedText ==
  ASSUME NEW text \in Seq({0, 1}), text # <<>>, left \in Nat, left > 0
  PROVE  /\ Fitted(text) \in Seq({0, 1}) /\ Fitted(text) # <<>>
         /\ Len(Fitted(text)) \in Nat /\ Len(Fitted(text)) <= left
         /\ IsPrefix(Fitted(text), text)
         /\ (Len(text) > left) <=> (Fitted(text) # text)
<1>0. Len(text) \in Nat /\ Len(text) > 0
  OBVIOUS
<1>1. CASE Len(text) > left
  <2> DEFINE ink == {i \in 1..left : text[i] = 1}
  <2>1. PICK m \in 1..left : Fitted(text) = SubSeq(text, 1, m)
    <3>1. Fitted(text) = SubSeq(text, 1, IF ink = {} THEN left ELSE Max(ink))
      BY <1>1 DEF Fitted, Trimmed
    <3>2. left \in 1..left
      OBVIOUS
    <3>3. CASE ink = {}
      BY <3>1, <3>2, <3>3
    <3>4. CASE ink # {}
      <4>1. ink \in SUBSET (1..left)
        OBVIOUS
      <4>2. Max(ink) \in 1..left
        BY <3>4, <4>1, GreatestMember
      <4>3. QED BY <3>1, <3>4, <4>2
    <3>5. QED BY <3>3, <3>4
  <2>2. /\ \A i \in 1..m : text[i] \in {0, 1}
        /\ m \in Nat /\ m >= 1 /\ m <= left /\ m < Len(text)
    BY <1>0, <1>1
  <2>3. /\ Fitted(text) \in Seq({0, 1}) /\ Len(Fitted(text)) = m
        /\ \A i \in 1..m : Fitted(text)[i] = text[i]
    BY <2>1, <2>2, SubSeqProperties
  <2>4. SubSeq(Fitted(text), 1, m) = Fitted(text) /\ SubSeq(text, 1, m) = Fitted(text)
    BY <2>1, <2>3
  <2>5. IsPrefix(Fitted(text), text)
    BY <2>2, <2>3, <2>4 DEF IsPrefix
  <2>6. Fitted(text) # <<>> /\ Fitted(text) # text
    BY <2>2, <2>3
  <2>7. QED BY <1>1, <2>2, <2>3, <2>5, <2>6
<1>2. CASE ~(Len(text) > left)
  <2>1. Fitted(text) = text
    BY <1>2 DEF Fitted
  <2>2. IsPrefix(text, text)
    BY <1>0 DEF IsPrefix
  <2>3. QED BY <1>0, <1>2, <2>1, <2>2
<1>3. QED BY <1>1, <1>2

(* The characters of a sequence of pieces, and how many one more adds.     *)
Pieces == [chunk : Nat, version : DOMAIN DocumentVersions, text : Seq({0, 1}), rank : Nat, truncated : BOOLEAN]
Letters(ev) == UNION {{i} \X DOMAIN ev[i].text : i \in DOMAIN ev}

LEMMA LettersAdd ==
  ASSUME NEW ev \in Seq(Pieces), NEW p \in Pieces, IsFiniteSet(Letters(ev))
  PROVE  /\ IsFiniteSet(Letters(Append(ev, p)))
         /\ Cardinality(Letters(Append(ev, p))) = Cardinality(Letters(ev)) + Len(p.text)
<1> DEFINE n == Len(ev)
<1> DEFINE new == {n + 1} \X (1..Len(p.text))
<1>1. /\ n \in Nat /\ Len(Append(ev, p)) = n + 1
      /\ Append(ev, p)[n + 1] = p /\ \A i \in 1..n : Append(ev, p)[i] = ev[i]
  BY AppendProperties
<1>2. Len(p.text) \in Nat /\ DOMAIN p.text = 1..Len(p.text)
  BY DEF Pieces
<1>3. Letters(Append(ev, p)) = Letters(ev) \cup new
  <2>1. DOMAIN ev = 1..n /\ DOMAIN Append(ev, p) = 1..(n + 1) /\ 1..(n + 1) = 1..n \cup {n + 1}
    BY <1>1
  <2>2. ASSUME NEW z PROVE z \in Letters(Append(ev, p)) <=> z \in Letters(ev) \cup new
    <3>1. z \in Letters(Append(ev, p)) <=> \E i \in 1..(n + 1) : z \in {i} \X DOMAIN Append(ev, p)[i].text
      BY <2>1 DEF Letters
    <3>2. z \in Letters(ev) <=> \E i \in 1..n : z \in {i} \X DOMAIN ev[i].text
      BY <2>1 DEF Letters
    <3>3. z \in new <=> z \in {n + 1} \X DOMAIN Append(ev, p)[n + 1].text
      BY <1>1, <1>2
    <3>4. QED BY <1>1, <2>1, <3>1, <3>2, <3>3
  <2>3. QED BY <2>2
<1>4. IsFiniteSet(new) /\ Cardinality(new) = Len(p.text)
  <2>1. PICK k \in Int : k = Len(p.text)
    BY <1>2
  <2>2. IsFiniteSet(1..k) /\ Cardinality(1..k) = IF 1 > k THEN 0 ELSE k - 1 + 1
    BY FS_Interval
  <2>3. IsFiniteSet({n + 1}) /\ Cardinality({n + 1}) = 1
    BY FS_Singleton
  <2>4. IsFiniteSet({n + 1} \X (1..k)) /\ Cardinality({n + 1} \X (1..k)) = Cardinality({n + 1}) * Cardinality(1..k)
    BY <2>2, <2>3, FS_Product
  <2>5. Cardinality(1..k) = k /\ 1 * k = k
    BY <1>2, <2>1, <2>2
  <2>6. QED BY <2>1, <2>3, <2>4, <2>5
<1>5. Letters(ev) \cap new = {}
  <2>1. ASSUME NEW z \in Letters(ev), z \in new PROVE FALSE
    <3>1. PICK i \in 1..n : z \in {i} \X DOMAIN ev[i].text
      BY <1>1, <2>1 DEF Letters
    <3>2. z[1] = i /\ z[1] = n + 1
      BY <2>1, <3>1
    <3>3. QED BY <1>1, <3>1, <3>2
  <2>2. QED BY <2>1
<1> HIDE DEF new
<1>6. /\ IsFiniteSet(Letters(ev) \cup new)
      /\ Cardinality(Letters(ev) \cup new) = Cardinality(Letters(ev)) + Cardinality(new) - Cardinality({})
  BY <1>4, <1>5, FS_Union
<1>7. Cardinality({}) = 0 /\ Cardinality(Letters(ev)) \in Nat
  BY FS_EmptySet, FS_CardinalityType
<1>8. QED BY <1>2, <1>3, <1>4, <1>6, <1>7
-----------------------------------------------------------------------------
(* The loops are over, or under way.                                       *)
Gathering == pc = "assemble" \/ (pc = "answered" /\ outcome.kind = "answer" /\ versions # {})
Kinds == {"none", "answer", "forbidden", "timeout", "bad gateway", "unavailable"}
Outcomes == [kind : Kinds, candidates : Nat, truncated : BOOLEAN]

RetrievalTyped ==
  /\ stored \subseteq DOMAIN DocumentVersions /\ request \in Requests /\ versions \subseteq stored
  /\ pc \in {"read", "ask", "map", "assemble", "answered"}
  /\ chunks \in Seq(Chunks) /\ total \in Nat /\ next \in Nat \ {0} /\ mapped \in Seq(Nat)
  /\ evidence \in Seq(Pieces) /\ left \in Nat /\ cut \in BOOLEAN /\ outcome \in Outcomes
  /\ pc # "answered" => outcome.kind = "none"

(* Only what may be cited has been read.                                   *)
ReadRight == /\ pc = "read" => versions = {}
             /\ pc \in {"ask", "map", "assemble"} => versions # {}
             /\ versions # {} => Allowed
             /\ \A v \in versions : Eligible(v)

(* Before the loops nothing is found, and while chunks are mapped.         *)
NotYet == /\ pc \in {"read", "ask"} => next = 1 /\ mapped = <<>>
          /\ ~Gathering => evidence = <<>> /\ left = request.budget /\ cut = FALSE

(* mapped lists, in their order, the chunks passed that belong to a        *)
(* version read.                                                           *)
Increasing(s) == \A i, j \in 1..Len(s) : i < j => s[i] < s[j]
MappedRight ==
  /\ \A i \in 1..Len(mapped) : mapped[i] \in 1..Len(chunks) /\ Belongs(chunks[mapped[i]])
  /\ Increasing(mapped)
  /\ pc = "map" => /\ next <= Len(chunks) + 1
                   /\ \A i \in 1..Len(mapped) : mapped[i] < next
                   /\ \A c \in 1..(next - 1) : Belongs(chunks[c]) => \E i \in 1..Len(mapped) : mapped[i] = c
  /\ Gathering => \A c \in 1..Len(chunks) : Belongs(chunks[c]) => \E i \in 1..Len(mapped) : mapped[i] = c

(* Each piece is the start of a chunk of its version.                      *)
PieceRight(e) ==
  /\ e.chunk \in 1..Len(chunks) /\ e.version \in Sources(chunks[e.chunk])
  /\ e.text # <<>> /\ IsPrefix(e.text, chunks[e.chunk].text)
  /\ e.truncated <=> e.text # chunks[e.chunk].text
  /\ e.truncated => cut
EvidenceRight ==
  /\ \A i \in 1..Len(evidence) : PieceRight(evidence[i]) /\ evidence[i].rank = i
  /\ \A i, j \in 1..Len(evidence) : i < j => evidence[i].chunk < evidence[j].chunk
  /\ Len(evidence) <= request.topK
  /\ IsFiniteSet(Letters(evidence)) /\ left + Cardinality(Letters(evidence)) = request.budget

(* The evidence comes of the mapped chunks passed; where it is as long as  *)
(* they are, it is all of them.                                            *)
PassedRight == Gathering =>
  /\ Len(evidence) <= next - 1 /\ next - 1 <= Len(mapped)
  /\ \A i \in 1..Len(evidence) : \A j \in next..Len(mapped) : evidence[i].chunk < mapped[j]
  /\ Len(evidence) = next - 1 => \A i \in 1..Len(evidence) : evidence[i].chunk = mapped[i]
  /\ pc = "answered" /\ ~outcome.truncated => ~cut /\ Len(evidence) >= Len(mapped) /\ total <= Len(chunks)

RetrievalInv == RetrievalTyped /\ ReadRight /\ NotYet /\ MappedRight /\ EvidenceRight /\ PassedRight

-----------------------------------------------------------------------------
(* Initially.                                                              *)
LEMMA RetrievalStarts == RetrievalAssumption /\ RetrievalInit => RetrievalInv
<1> SUFFICES ASSUME RetrievalAssumption, RetrievalInit PROVE RetrievalInv
  OBVIOUS
<1>1. /\ <<>> \in Seq(Chunks) /\ <<>> \in Seq(Nat) /\ <<>> \in Seq(Pieces)
      /\ Len(<<>>) = 0 /\ 1..0 = {}
  OBVIOUS
<1>2. RetrievalTyped
  <2>1. outcome \in Outcomes /\ outcome.kind = "none"
    BY DEF RetrievalInit, NoOutcome, Outcomes, Kinds
  <2>2. request.budget \in Nat
    BY DEF RetrievalInit, RetrievalAssumption
  <2>3. /\ stored \in SUBSET DOMAIN DocumentVersions /\ request \in Requests
        /\ pc = "read" /\ versions = {} /\ chunks = <<>> /\ total = 0 /\ next = 1
        /\ mapped = <<>> /\ evidence = <<>> /\ left = request.budget /\ cut = FALSE
    BY DEF RetrievalInit
  <2>4. total \in Nat /\ next \in Nat \ {0} /\ left \in Nat
    BY <2>2, <2>3
  <2>a. versions \subseteq stored /\ cut \in BOOLEAN
    BY <2>3, Zenon
  <2>b. stored \subseteq DOMAIN DocumentVersions
    BY <2>3, Zenon
  <2>5. chunks \in Seq(Chunks) /\ mapped \in Seq(Nat) /\ evidence \in Seq(Pieces)
    BY <1>1, <2>3
  <2>6. QED BY <2>1, <2>3, <2>4, <2>a, <2>b, <2>5 DEF RetrievalTyped
<1>3. ReadRight /\ NotYet
  BY DEF RetrievalInit, ReadRight, NotYet
<1>4. MappedRight /\ PassedRight
  BY <1>1 DEF RetrievalInit, MappedRight, Gathering, PassedRight, Increasing
<1>5. EvidenceRight
  <2>1. Letters(evidence) = {} /\ left = request.budget
    BY DEF Letters, RetrievalInit
  <2>2. IsFiniteSet({}) /\ Cardinality({}) = 0
    BY FS_EmptySet
  <2>3. request.topK \in Nat /\ request.budget \in Nat /\ evidence = <<>>
    BY DEF RetrievalInit, RetrievalAssumption
  <2>4. QED BY <1>1, <2>1, <2>2, <2>3 DEF EvidenceRight
<1>6. QED BY <1>2, <1>3, <1>4, <1>5 DEF RetrievalInv

(* Pieces and mapped chunks stay right while what they rest on is kept.    *)
LEMMA PiecesStay ==
  ASSUME RetrievalInv, UNCHANGED <<request, versions, chunks, evidence, left, cut>>
  PROVE  EvidenceRight'
<1>1. EvidenceRight
  BY DEF RetrievalInv
<1>2. \A i \in 1..Len(evidence) : PieceRight(evidence[i]) => PieceRight(evidence[i])'
  BY DEF PieceRight, Sources
<1>3. Letters(evidence)' = Letters(evidence)
  BY DEF Letters
<1>4. QED BY <1>1, <1>2, <1>3 DEF EvidenceRight

(* A refusal, a failure, or no version: the answer is given without chunks. *)
LEMMA EndsKeep ==
  ASSUME RetrievalAssumption, RetrievalInv, Refuse \/ ReadVersions \/ ProviderFails
  PROVE  RetrievalInv'
<1>0. RetrievalTyped /\ ReadRight /\ NotYet /\ MappedRight /\ EvidenceRight
  BY DEF RetrievalInv
<1>1. /\ UNCHANGED <<stored, request, chunks, total, next, mapped, evidence, left, cut>>
      /\ pc \in {"read", "ask"}
  BY DEF Refuse, ReadVersions, ProviderFails, assembly
<1>2. /\ \/ pc' = "ask" /\ outcome' = outcome
         \/ pc' = "answered" /\ \E kind \in Kinds : outcome' = [NoOutcome EXCEPT !.kind = kind]
      /\ pc' = "answered" => (outcome'.kind = "answer" => versions' = {})
      /\ pc' = "ask" => versions' # {}
  BY DEF Refuse, ReadVersions, ProviderFails, Fail, Kinds, NoOutcome
<1>3. versions' \in SUBSET stored /\ (versions' # {} => Allowed) /\ \A v \in versions' : Eligible(v)
  BY <1>0 DEF Refuse, ReadVersions, ProviderFails, RetrievalTyped, ReadRight
<1>4. Allowed' = Allowed /\ \A v : Eligible(v)' = Eligible(v)
  BY <1>1 DEF Allowed, Eligible
<1>5. outcome' \in Outcomes
  <2>1. CASE outcome' = outcome
    BY <1>0, <2>1 DEF RetrievalTyped
  <2>2. ASSUME NEW kind \in Kinds, outcome' = [NoOutcome EXCEPT !.kind = kind] PROVE outcome' \in Outcomes
    BY <2>2 DEF NoOutcome, Outcomes
  <2>3. QED BY <1>2, <2>1, <2>2
<1>6. ~Gathering' /\ ~Gathering /\ pc' # "map" /\ pc' # "read"
  BY <1>1, <1>2 DEF Gathering
<1>7. mapped = <<>> /\ evidence = <<>> /\ Len(<<>>) = 0 /\ 1..0 = {}
  BY <1>0, <1>1, <1>6 DEF NotYet
<1>8. RetrievalTyped'
  BY <1>0, <1>1, <1>2, <1>3, <1>5 DEF RetrievalTyped
<1>9. ReadRight' /\ NotYet'
  BY <1>0, <1>1, <1>2, <1>3, <1>4, <1>6 DEF ReadRight, NotYet
<1>10. MappedRight' /\ PassedRight'
  BY <1>1, <1>6, <1>7 DEF MappedRight, PassedRight, Increasing
<1>11. EvidenceRight'
  <2>1. Letters(evidence)' = Letters(evidence)
    BY <1>1 DEF Letters
  <2>2. QED BY <1>0, <1>1, <1>7, <2>1 DEF EvidenceRight
<1>12. QED BY <1>8, <1>9, <1>10, <1>11 DEF RetrievalInv

(* The provider answers.                                                   *)
LEMMA AskKeeps ==
  ASSUME RetrievalAssumption, RetrievalInv, AskProvider
  PROVE  RetrievalInv'
<1>0. RetrievalTyped /\ ReadRight /\ NotYet /\ MappedRight /\ EvidenceRight
  BY DEF RetrievalInv
<1>1. /\ UNCHANGED <<stored, request, versions, next, mapped, evidence, left, cut, outcome>>
      /\ pc = "ask" /\ pc' = "map"
      /\ chunks' \in SeqOf(Chunks, MaxChunks) /\ total' \in Totals
  BY DEF AskProvider, assembly
<1>2. chunks' \in Seq(Chunks) /\ total' \in Nat
  <2>1. PICK m \in 0..MaxChunks : chunks' \in [1..m -> Chunks]
    BY <1>1 DEF SeqOf
  <2>2. QED BY <1>1, <2>1 DEF RetrievalAssumption
<1>3. ~Gathering' /\ ~Gathering
  BY <1>1 DEF Gathering
<1>4. mapped = <<>> /\ evidence = <<>> /\ next = 1 /\ Len(<<>>) = 0 /\ 1..0 = {}
  BY <1>0, <1>1, <1>3 DEF NotYet
<1>5. RetrievalTyped'
  BY <1>0, <1>1, <1>2 DEF RetrievalTyped
<1>6. ReadRight' /\ NotYet'
  BY <1>0, <1>1, <1>3 DEF ReadRight, NotYet, Allowed, Eligible
<1>7. MappedRight' /\ PassedRight'
  <2>1. Len(chunks') \in Nat
    BY <1>2
  <2>2. QED BY <1>1, <1>3, <1>4, <2>1 DEF MappedRight, PassedRight, Increasing
<1>8. EvidenceRight'
  <2>1. Letters(evidence)' = Letters(evidence)
    BY <1>1 DEF Letters
  <2>2. QED BY <1>0, <1>1, <1>4, <2>1 DEF EvidenceRight
<1>9. QED BY <1>5, <1>6, <1>7, <1>8 DEF RetrievalInv

(* A chunk is passed over or listed.                                       *)
LEMMA MapKeeps ==
  ASSUME RetrievalAssumption, RetrievalInv, MapChunk
  PROVE  RetrievalInv'
<1>0. RetrievalTyped /\ ReadRight /\ NotYet /\ MappedRight /\ EvidenceRight
  BY DEF RetrievalInv
<1>1. /\ UNCHANGED <<stored, request, pc, versions, chunks, total, evidence, left, cut, outcome>>
      /\ pc = "map" /\ next <= Len(chunks) /\ next' = next + 1
      /\ mapped' = IF Belongs(chunks[next]) THEN Append(mapped, next) ELSE mapped
  BY DEF MapChunk
<1>2. /\ Len(chunks) \in Nat /\ Len(mapped) \in Nat /\ next \in Nat /\ next >= 1
      /\ mapped \in Seq(Nat) /\ Append(mapped, next) \in Seq(Nat)
  BY <1>0 DEF RetrievalTyped
<1>3. ~Gathering' /\ ~Gathering
  BY <1>1 DEF Gathering
<1>4. \A c : Belongs(c)' = Belongs(c)
  BY <1>1 DEF Belongs, Sources
<1>5. RetrievalTyped'
  BY <1>0, <1>1, <1>2 DEF RetrievalTyped
<1>6. ReadRight' /\ NotYet' /\ PassedRight'
  BY <1>0, <1>1, <1>3 DEF ReadRight, NotYet, Allowed, Eligible, PassedRight
<1>7. EvidenceRight'
  BY <1>1, PiecesStay
<1>8. MappedRight'
  <2>0. /\ \A i \in 1..Len(mapped) : /\ mapped[i] \in 1..Len(chunks) /\ Belongs(chunks[mapped[i]])
                                     /\ mapped[i] < next
        /\ \A i, j \in 1..Len(mapped) : i < j => mapped[i] < mapped[j]
        /\ \A c \in 1..(next - 1) : Belongs(chunks[c]) => \E i \in 1..Len(mapped) : mapped[i] = c
    BY <1>0, <1>1 DEF MappedRight, Increasing
  <2>1. 1..(next' - 1) = 1..(next - 1) \cup {next}
    BY <1>1, <1>2
  <2>2. CASE ~Belongs(chunks[next])
    <3>1. mapped' = mapped
      BY <1>1, <2>2
    <3>2. \A i \in 1..Len(mapped) : mapped[i] < next + 1
      BY <1>2, <2>0
    <3>3. QED BY <1>1, <1>2, <1>3, <1>4, <2>0, <2>1, <2>2, <3>1, <3>2 DEF MappedRight, Increasing
  <2>3. CASE Belongs(chunks[next])
    <3>1. /\ mapped' \in Seq(Nat) /\ Len(mapped') = Len(mapped) + 1
          /\ mapped'[Len(mapped) + 1] = next /\ \A i \in 1..Len(mapped) : mapped'[i] = mapped[i]
      BY <1>1, <1>2, <2>3, AppendProperties
    <3>2. 1..Len(mapped') = 1..Len(mapped) \cup {Len(mapped) + 1}
      BY <1>2, <3>1
    <3>3. \A i \in 1..Len(mapped') : mapped'[i] \in 1..Len(chunks) /\ Belongs(chunks[mapped'[i]]) /\ mapped'[i] < next + 1
      BY <1>1, <1>2, <2>0, <2>3, <3>1, <3>2
    <3>4. \A i, j \in 1..Len(mapped') : i < j => mapped'[i] < mapped'[j]
      <4>1. ASSUME NEW i \in 1..Len(mapped'), NEW j \in 1..Len(mapped'), i < j PROVE mapped'[i] < mapped'[j]
        <5>1. i \in 1..Len(mapped)
          BY <1>2, <3>1, <4>1
        <5>2. CASE j \in 1..Len(mapped)
          BY <2>0, <3>1, <4>1, <5>1, <5>2
        <5>3. CASE j = Len(mapped) + 1
          BY <2>0, <3>1, <5>1, <5>3
        <5>4. QED BY <3>2, <5>2, <5>3
      <4>2. QED BY <4>1
    <3>5. \A c \in 1..(next' - 1) : Belongs(chunks[c]) => \E i \in 1..Len(mapped') : mapped'[i] = c
      BY <2>0, <2>1, <3>1, <3>2
    <3>6. QED BY <1>1, <1>2, <1>3, <1>4, <3>3, <3>4, <3>5 DEF MappedRight, Increasing
  <2>4. QED BY <2>2, <2>3
<1>9. QED BY <1>5, <1>6, <1>7, <1>8 DEF RetrievalInv

(* All chunks are mapped.                                                  *)
LEMMA AllMappedKeeps ==
  ASSUME RetrievalAssumption, RetrievalInv, AllMapped
  PROVE  RetrievalInv'
<1>0. RetrievalTyped /\ ReadRight /\ NotYet /\ MappedRight /\ EvidenceRight
  BY DEF RetrievalInv
<1>1. /\ UNCHANGED <<stored, request, versions, chunks, total, mapped, evidence, left, cut, outcome>>
      /\ pc = "map" /\ next > Len(chunks) /\ next' = 1 /\ pc' = "assemble"
  BY DEF AllMapped
<1>2. Len(chunks) \in Nat /\ Len(mapped) \in Nat /\ next \in Nat
  BY <1>0 DEF RetrievalTyped
<1>3. ~Gathering /\ Gathering'
  BY <1>1 DEF Gathering
<1>4. \A c : Belongs(c)' = Belongs(c)
  BY <1>1 DEF Belongs, Sources
<1>5. RetrievalTyped'
  BY <1>0, <1>1 DEF RetrievalTyped
<1>6. ReadRight' /\ NotYet'
  BY <1>0, <1>1, <1>3 DEF ReadRight, NotYet, Allowed, Eligible
<1>7. EvidenceRight'
  BY <1>1, PiecesStay
<1>8. MappedRight'
  <2>1. \A c \in 1..Len(chunks) : c \in 1..(next - 1)
    BY <1>1, <1>2
  <2>2. QED BY <1>0, <1>1, <1>4, <2>1 DEF MappedRight, Increasing
<1>9. PassedRight'
  <2>1. evidence = <<>> /\ Len(<<>>) = 0 /\ 1..0 = {}
    BY <1>0, <1>3 DEF NotYet
  <2>2. QED BY <1>1, <1>2, <2>1 DEF PassedRight
<1>10. QED BY <1>5, <1>6, <1>7, <1>8, <1>9 DEF RetrievalInv

(* The answer is given.                                                    *)
LEMMA RespondKeeps ==
  ASSUME RetrievalAssumption, RetrievalInv, Respond
  PROVE  RetrievalInv'
<1>0. RetrievalTyped /\ ReadRight /\ NotYet /\ MappedRight /\ EvidenceRight /\ PassedRight
  BY DEF RetrievalInv
<1>1. /\ UNCHANGED <<stored, request, versions, chunks, total, next, mapped, evidence, left, cut>>
      /\ pc = "assemble" /\ pc' = "answered"
      /\ outcome' = [kind |-> "answer", candidates |-> Len(mapped), truncated |-> Shortened]
  BY DEF Respond, assembly
<1>2. Len(mapped) \in Nat /\ Len(evidence) \in Nat /\ Len(chunks) \in Nat /\ total \in Nat
  BY <1>0 DEF RetrievalTyped
<1>3. Shortened \in BOOLEAN /\ (~Shortened => ~cut /\ Len(evidence) >= Len(mapped) /\ total <= Len(chunks))
  BY <1>2 DEF Shortened
<1>4. outcome' \in Outcomes /\ outcome'.kind = "answer" /\ outcome'.truncated = Shortened
  BY <1>1, <1>2, <1>3 DEF Outcomes, Kinds
<1>5. Gathering
  BY <1>1 DEF Gathering
<1>6. \A c : Belongs(c)' = Belongs(c)
  BY <1>1 DEF Belongs, Sources
<1>7. RetrievalTyped'
  BY <1>0, <1>1, <1>4 DEF RetrievalTyped
<1>8. ReadRight'
  BY <1>0, <1>1 DEF ReadRight, Allowed, Eligible
<1>9. EvidenceRight'
  BY <1>1, PiecesStay
<1>10. MappedRight'
  BY <1>0, <1>1, <1>5, <1>6 DEF MappedRight, Increasing
<1>11. PassedRight'
  BY <1>0, <1>1, <1>3, <1>4, <1>5 DEF PassedRight
<1>12. NotYet'
  BY <1>0, <1>1, <1>4 DEF NotYet, ReadRight, Gathering
<1>13. QED BY <1>7, <1>8, <1>9, <1>10, <1>11, <1>12 DEF RetrievalInv

(* A piece is put into the answer, or an empty chunk is passed over.       *)
LEMMA PlaceKeeps ==
  ASSUME RetrievalAssumption, RetrievalInv, Place
  PROVE  RetrievalInv'
<1>0. RetrievalTyped /\ ReadRight /\ NotYet /\ MappedRight /\ EvidenceRight /\ PassedRight
  BY DEF RetrievalInv
<1>1. /\ UNCHANGED <<stored, request, pc, versions, chunks, total, mapped, outcome>>
      /\ pc = "assemble" /\ next <= Len(mapped) /\ next' = next + 1
      /\ Len(evidence) < request.topK /\ left > 0
  BY DEF Place, HasRoom
<1>2. /\ Len(mapped) \in Nat /\ Len(evidence) \in Nat /\ Len(chunks) \in Nat /\ next \in Nat /\ next >= 1
      /\ left \in Nat /\ request.topK \in Nat /\ request.budget \in Nat /\ cut \in BOOLEAN
      /\ evidence \in Seq(Pieces)
  BY <1>0 DEF RetrievalTyped, RetrievalAssumption
<1>3. Gathering /\ Gathering'
  BY <1>1 DEF Gathering
<1>4. \A c : Belongs(c)' = Belongs(c) /\ Sources(c)' = Sources(c)
  BY <1>1 DEF Belongs, Sources
<1>5. ReadRight' /\ NotYet'
  BY <1>0, <1>1, <1>3 DEF ReadRight, NotYet, Allowed, Eligible
<1>6. MappedRight'
  BY <1>0, <1>1, <1>3, <1>4 DEF MappedRight, Increasing
<1> DEFINE at == mapped[next]
<1>7. /\ at \in 1..Len(chunks) /\ chunks[at] \in Chunks /\ Belongs(chunks[at])
      /\ chunks[at].text \in Seq({0, 1})
  BY <1>0, <1>1, <1>2 DEF MappedRight, RetrievalTyped, RetrievalAssumption
<1>8. /\ Len(evidence) <= next - 1
      /\ \A i \in 1..Len(evidence) : \A j \in next..Len(mapped) : evidence[i].chunk < mapped[j]
      /\ Len(evidence) = next - 1 => \A i \in 1..Len(evidence) : evidence[i].chunk = mapped[i]
      /\ \A i, j \in 1..Len(mapped) : i < j => mapped[i] < mapped[j]
  BY <1>0, <1>3 DEF PassedRight, MappedRight, Increasing
<1>9. CASE Text = <<>>
  <2>1. UNCHANGED <<evidence, left, cut>>
    BY <1>9 DEF Place
  <2>2. RetrievalTyped'
    BY <1>0, <1>1, <2>1 DEF RetrievalTyped
  <2>3. EvidenceRight'
    BY <1>1, <2>1, PiecesStay
  <2>4. PassedRight'
    <3>1. \A j \in next'..Len(mapped') : j \in next..Len(mapped)
      BY <1>1, <1>2
    <3>2. /\ Len(evidence') <= next' - 1 /\ next' - 1 <= Len(mapped') /\ Len(evidence') # next' - 1
      BY <1>1, <1>2, <1>8, <2>1
    <3>3. \A i \in 1..Len(evidence') : \A j \in next'..Len(mapped') : evidence'[i].chunk < mapped'[j]
      BY <1>1, <1>8, <2>1, <3>1
    <3>4. QED BY <1>1, <3>2, <3>3 DEF PassedRight
  <2>5. QED BY <1>5, <1>6, <2>2, <2>3, <2>4 DEF RetrievalInv
<1>10. CASE Text # <<>>
  <2> DEFINE text == chunks[at].text
  <2> DEFINE fit == Fitted(text)
  <2>1. /\ fit \in Seq({0, 1}) /\ fit # <<>> /\ Len(fit) \in Nat /\ Len(fit) <= left
        /\ IsPrefix(fit, text) /\ ((Len(text) > left) <=> (fit # text))
    BY <1>1, <1>2, <1>7, <1>10, FittedText DEF Text
  <2>2. /\ evidence' = Append(evidence, Piece) /\ left' = left - Len(fit)
        /\ cut' = (cut \/ Len(text) > left)
    BY <1>10 DEF Place, Text
  <2>3. PICK s \in Sources(chunks[at]) : s = CHOOSE v \in Sources(chunks[at]) : TRUE
    BY <1>7 DEF Belongs
  <2>4. s \in DOMAIN DocumentVersions
    BY <1>0, <2>3 DEF Sources, RetrievalTyped
  <2>5. PICK b \in BOOLEAN : b = (Len(text) > left)
    <3>1. CASE Len(text) > left
      <4>1. TRUE = (Len(text) > left)
        BY <3>1
      <4>2. QED BY <4>1
    <3>2. CASE ~(Len(text) > left)
      <4>1. FALSE = (Len(text) > left)
        BY <3>2
      <4>2. QED BY <4>1
    <3>3. QED BY <3>1, <3>2
  <2>6. PICK p \in Pieces : /\ p.chunk = at /\ p.version = s /\ p.text = fit /\ p.rank = Len(evidence) + 1
                            /\ p.truncated = b /\ p = Piece
    <3>1. Piece = [chunk |-> at, version |-> s, text |-> fit, rank |-> Len(evidence) + 1, truncated |-> b]
      BY <2>3, <2>5 DEF Piece, Text
    <3>2. at \in Nat /\ Len(evidence) + 1 \in Nat
      BY <1>2, <1>7
    <3>3. Piece \in Pieces
      BY <2>1, <2>4, <3>1, <3>2 DEF Pieces
    <3>4. QED BY <3>1, <3>3
  <2> HIDE DEF fit, text
  <2>7. /\ evidence' \in Seq(Pieces) /\ Len(evidence') = Len(evidence) + 1
        /\ evidence'[Len(evidence) + 1] = p /\ \A i \in 1..Len(evidence) : evidence'[i] = evidence[i]
        /\ 1..Len(evidence') = 1..Len(evidence) \cup {Len(evidence) + 1}
    <3>1. evidence' = Append(evidence, p)
      BY <2>2, <2>6
    <3>2. /\ evidence' \in Seq(Pieces) /\ Len(evidence') = Len(evidence) + 1
          /\ evidence'[Len(evidence) + 1] = p /\ \A i \in 1..Len(evidence) : evidence'[i] = evidence[i]
      BY <1>2, <3>1, AppendProperties
    <3>3. QED BY <1>2, <3>2
  <2>8. left' \in Nat /\ cut' \in BOOLEAN
    BY <1>2, <2>1, <2>2
  <2>9. RetrievalTyped'
    BY <1>0, <1>1, <1>2, <2>7, <2>8 DEF RetrievalTyped
  <2>10. EvidenceRight'
    <3>1. \A i \in 1..Len(evidence) : PieceRight(evidence[i])' /\ evidence'[i].rank = i
      <4>1. cut => cut'
        BY <2>2
      <4>2. QED BY <1>0, <1>1, <1>4, <2>7, <4>1 DEF EvidenceRight, PieceRight
    <3>2. PieceRight(p)'
      <4>1. p.truncated => cut'
        BY <2>2, <2>5, <2>6
      <4>2. p.truncated <=> p.text # text
        BY <2>1, <2>5, <2>6
      <4>3. QED BY <1>1, <1>4, <1>7, <2>1, <2>3, <2>6, <4>1, <4>2 DEF PieceRight, text
    <3>3. \A i \in 1..Len(evidence') : PieceRight(evidence[i])' /\ evidence'[i].rank = i
      BY <2>6, <2>7, <3>1, <3>2
    <3>4. \A i, j \in 1..Len(evidence') : i < j => evidence'[i].chunk < evidence'[j].chunk
      <4>1. ASSUME NEW i \in 1..Len(evidence'), NEW j \in 1..Len(evidence'), i < j
            PROVE  evidence'[i].chunk < evidence'[j].chunk
        <5>1. i \in 1..Len(evidence)
          BY <1>2, <2>7, <4>1
        <5>2. CASE j \in 1..Len(evidence)
          BY <1>0, <2>7, <4>1, <5>1, <5>2 DEF EvidenceRight
        <5>3. CASE j = Len(evidence) + 1
          <6>1. next \in next..Len(mapped)
            BY <1>1, <1>2
          <6>2. evidence[i].chunk < mapped[next]
            BY <1>8, <5>1, <6>1
          <6>3. QED BY <2>6, <2>7, <5>1, <5>3, <6>2
        <5>4. QED BY <2>7, <5>2, <5>3
      <4>2. QED BY <4>1
    <3>5. Len(evidence') <= request'.topK
      BY <1>1, <1>2, <2>7
    <3>6. IsFiniteSet(Letters(evidence')) /\ left' + Cardinality(Letters(evidence')) = request'.budget
      <4>1. evidence' = Append(evidence, p) /\ IsFiniteSet(Letters(evidence))
        BY <1>0, <2>2, <2>6 DEF EvidenceRight
      <4>2. /\ IsFiniteSet(Letters(evidence'))
            /\ Cardinality(Letters(evidence')) = Cardinality(Letters(evidence)) + Len(p.text)
        BY <1>2, <4>1, LettersAdd
      <4>3. Cardinality(Letters(evidence)) \in Nat /\ left + Cardinality(Letters(evidence)) = request.budget
        BY <1>0, <4>1, FS_CardinalityType DEF EvidenceRight
      <4>4. QED BY <1>1, <1>2, <2>1, <2>2, <2>6, <4>2, <4>3
    <3>7. QED BY <3>3, <3>4, <3>5, <3>6 DEF EvidenceRight
  <2>11. PassedRight'
    <3>1. Len(evidence') <= next' - 1 /\ next' - 1 <= Len(mapped')
      BY <1>1, <1>2, <1>8, <2>7
    <3>2. \A i \in 1..Len(evidence') : \A j \in next'..Len(mapped') : evidence'[i].chunk < mapped'[j]
      <4>1. ASSUME NEW i \in 1..Len(evidence'), NEW j \in next'..Len(mapped')
            PROVE  evidence'[i].chunk < mapped[j]
        <5>1. j \in next..Len(mapped) /\ j \in 1..Len(mapped) /\ next \in 1..Len(mapped) /\ next < j
          BY <1>1, <1>2, <4>1
        <5>2. CASE i \in 1..Len(evidence)
          BY <1>8, <2>7, <5>1, <5>2
        <5>3. CASE i = Len(evidence) + 1
          BY <1>8, <2>6, <2>7, <5>1, <5>3
        <5>4. QED BY <2>7, <5>2, <5>3
      <4>2. QED BY <1>1, <4>1
    <3>3. Len(evidence') = next' - 1 => \A i \in 1..Len(evidence') : evidence'[i].chunk = mapped'[i]
      <4>1. ASSUME Len(evidence') = next' - 1, NEW i \in 1..Len(evidence') PROVE evidence'[i].chunk = mapped[i]
        <5>1. Len(evidence) = next - 1 /\ Len(evidence) + 1 = next
          BY <1>1, <1>2, <2>7, <4>1
        <5>2. CASE i \in 1..Len(evidence)
          BY <1>8, <2>7, <5>1, <5>2
        <5>3. CASE i = Len(evidence) + 1
          BY <2>6, <2>7, <5>1, <5>3
        <5>4. QED BY <2>7, <5>2, <5>3
      <4>2. QED BY <1>1, <4>1
    <3>4. QED BY <1>1, <3>1, <3>2, <3>3 DEF PassedRight
  <2>12. QED BY <1>5, <1>6, <2>9, <2>10, <2>11 DEF RetrievalInv
<1>11. QED BY <1>9, <1>10

(* A version is stored, or nothing happens.                                *)
LEMMA StoredKeeps ==
  ASSUME RetrievalInv, UNCHANGED retrievalVars \/ VersionIndexed
  PROVE  RetrievalInv'
<1>0. RetrievalTyped /\ ReadRight /\ NotYet /\ MappedRight /\ EvidenceRight /\ PassedRight
  BY DEF RetrievalInv
<1>1. /\ UNCHANGED <<request, pc, versions, chunks, total, next, mapped, evidence, left, cut, outcome>>
      /\ stored' \subseteq DOMAIN DocumentVersions /\ stored \subseteq stored'
  BY <1>0 DEF VersionIndexed, retrievalVars, assembly, RetrievalTyped
<1>2. Gathering' = Gathering
  BY <1>1 DEF Gathering
<1>3. \A c : Belongs(c)' = Belongs(c)
  BY <1>1 DEF Belongs, Sources
<1>4. RetrievalTyped'
  BY <1>0, <1>1 DEF RetrievalTyped
<1>5. ReadRight'
  BY <1>0, <1>1 DEF ReadRight, Allowed, Eligible
<1>6. NotYet' /\ PassedRight'
  BY <1>0, <1>1, <1>2 DEF NotYet, PassedRight
<1>7. MappedRight'
  BY <1>0, <1>1, <1>2, <1>3 DEF MappedRight, Increasing
<1>8. EvidenceRight'
  BY <1>1, PiecesStay
<1>9. QED BY <1>4, <1>5, <1>6, <1>7, <1>8 DEF RetrievalInv

(* What holds of every state.                                              *)
LEMMA RetrievalStates ==
  ASSUME RetrievalAssumption, RetrievalInv
  PROVE  RetrievalRight
<1>0. RetrievalTyped /\ ReadRight /\ NotYet /\ MappedRight /\ EvidenceRight /\ PassedRight
  BY DEF RetrievalInv
<1>1. /\ DOMAIN evidence = 1..Len(evidence) /\ DOMAIN chunks = 1..Len(chunks)
      /\ Len(evidence) \in Nat /\ Len(mapped) \in Nat /\ left \in Nat /\ request.budget \in Nat
  BY <1>0 DEF RetrievalTyped, RetrievalAssumption
<1>2. \A i \in 1..Len(evidence) : PieceRight(evidence[i])
  BY <1>0 DEF EvidenceRight
<1>3. RetrievalTypeOK
  BY <1>0, <1>1 DEF RetrievalTypeOK, RetrievalTyped, EvidenceRight, PieceRight
<1>4. CitedOpenly
  <2>1. ASSUME NEW i \in 1..Len(evidence)
        PROVE  /\ evidence[i].version \in versions /\ Allowed /\ Eligible(evidence[i].version)
    BY <1>0, <1>2 DEF PieceRight, Sources, ReadRight
  <2>2. QED BY <1>1, <2>1 DEF CitedOpenly, Of, Allowed, Eligible
<1>5. WithinBudget
  <2>1. Characters = Letters(evidence)
    BY DEF Characters, Letters
  <2>2. Cardinality(Letters(evidence)) \in Nat
    BY <1>0, FS_CardinalityType DEF EvidenceRight
  <2>3. Cardinality(Characters) <= request.budget
    BY <1>0, <1>1, <2>1, <2>2 DEF EvidenceRight
  <2>4. \A i \in 1..Len(evidence) :
          /\ evidence[i].chunk \in DOMAIN chunks /\ chunks[evidence[i].chunk].binding = Of(i).binding
          /\ IsPrefix(evidence[i].text, chunks[evidence[i].chunk].text)
          /\ evidence[i].truncated <=> evidence[i].text # chunks[evidence[i].chunk].text
    BY <1>1, <1>2 DEF PieceRight, Sources, Of
  <2>5. QED BY <1>0, <1>1, <2>3, <2>4 DEF WithinBudget, EvidenceRight
<1>6. NothingLeftOut
  <2>1. SUFFICES ASSUME outcome.kind = "answer", versions # {}, ~outcome.truncated
        PROVE  /\ total <= Len(chunks)
               /\ {evidence[i].chunk : i \in DOMAIN evidence} = {c \in DOMAIN chunks : Belongs(chunks[c])}
               /\ \A i \in DOMAIN evidence : evidence[i].text = chunks[evidence[i].chunk].text
    BY DEF NothingLeftOut
  <2>2. pc = "answered" /\ Gathering
    BY <1>0, <2>1 DEF RetrievalTyped, Gathering
  <2>3. /\ ~cut /\ total <= Len(chunks) /\ Len(evidence) = Len(mapped)
        /\ \A i \in 1..Len(evidence) : evidence[i].chunk = mapped[i]
    <3>1. /\ Len(evidence) <= next - 1 /\ next - 1 <= Len(mapped) /\ Len(evidence) >= Len(mapped)
          /\ ~cut /\ total <= Len(chunks) /\ next \in Nat
          /\ Len(evidence) = next - 1 => \A i \in 1..Len(evidence) : evidence[i].chunk = mapped[i]
      BY <1>0, <2>1, <2>2 DEF PassedRight, RetrievalTyped
    <3>2. Len(evidence) = next - 1 /\ Len(evidence) = Len(mapped)
      BY <1>1, <3>1
    <3>3. QED BY <3>1, <3>2
  <2>4. \A i \in DOMAIN evidence : evidence[i].text = chunks[evidence[i].chunk].text
    BY <1>1, <1>2, <2>3 DEF PieceRight
  <2>5. ASSUME NEW c \in 1..Len(chunks), Belongs(chunks[c]) PROVE \E i \in 1..Len(evidence) : evidence[i].chunk = c
    <3>1. PICK i \in 1..Len(mapped) : mapped[i] = c
      BY <1>0, <2>2, <2>5 DEF MappedRight
    <3>2. QED BY <2>3, <3>1
  <2>6. ASSUME NEW i \in 1..Len(evidence) PROVE evidence[i].chunk \in 1..Len(chunks) /\ Belongs(chunks[evidence[i].chunk])
    BY <1>0, <2>3 DEF MappedRight
  <2>7. QED BY <1>1, <2>3, <2>4, <2>5, <2>6
<1>7. QED BY <1>3, <1>4, <1>5, <1>6 DEF RetrievalRight

(* Whatever the provider returns: evidence cites what may be seen, within  *)
(* the budget, and is complete or says that it is not.                     *)
THEOREM RetrievalKept == RetrievalSpec => []RetrievalRight
<1>1. RetrievalInit => RetrievalInv
  BY RetrievalStarts, RetrievalAssumption
<1>2. RetrievalInv /\ [RetrievalNext]_retrievalVars => RetrievalInv'
  BY RetrievalAssumption, EndsKeep, AskKeeps, MapKeeps, AllMappedKeeps, PlaceKeeps, RespondKeeps, StoredKeeps
     DEF RetrievalNext
<1>3. RetrievalInv => RetrievalRight
  BY RetrievalStates, RetrievalAssumption
<1>4. QED BY <1>1, <1>2, <1>3, PTL DEF RetrievalSpec

-----------------------------------------------------------------------------
(* MetricQuery.  An element of SetToSeqs lists its set, each member once.  *)
LEMMA Enumerates ==
  ASSUME NEW S, IsFiniteSet(S), NEW s \in SetToSeqs(S)
  PROVE  /\ s \in Seq(S) /\ Len(s) \in Nat
         /\ \A i, j \in 1..Len(s) : s[i] = s[j] => i = j
         /\ \A x \in S : \E i \in 1..Len(s) : s[i] = x
<1> DEFINE n == Cardinality(S)
<1>1. n \in Nat
  BY FS_CardinalityType
<1>2. s \in [1..n -> S] /\ \A i, j \in 1..n : i # j => s[i] # s[j]
  BY DEF SetToSeqs
<1>3. s \in Injection(1..n, S)
  BY <1>2 DEF Injection, IsInjective
<1>4. IsFiniteSet(1..n) /\ Cardinality(1..n) = n
  BY <1>1, FS_Interval
<1>5. s \in Surjection(1..n, S)
  BY <1>3, <1>4, FS_Injection
<1>6. \A x \in S : \E i \in 1..n : s[i] = x
  BY <1>5 DEF Surjection
<1>7. s \in Seq(S) /\ Len(s) = n
  BY <1>1, <1>2
<1>8. QED BY <1>1, <1>2, <1>6, <1>7

(* Two listings of a set agree where neither puts a member behind one that *)
(* comes ahead of it, when of two members one always comes ahead: at the   *)
(* first place where they differ each would have the other's member later. *)
LEMMA OneListing ==
  ASSUME NEW S, IsFiniteSet(S), NEW s \in SetToSeqs(S), NEW t \in SetToSeqs(S), NEW R,
         \A a, b \in S : a # b => <<a, b>> \in R \/ <<b, a>> \in R,
         \A i, j \in 1..Len(s) : i < j => <<s[j], s[i]>> \notin R,
         \A i, j \in 1..Len(t) : i < j => <<t[j], t[i]>> \notin R
  PROVE  s = t
<1>1. /\ s \in Seq(S) /\ \A i, j \in 1..Len(s) : s[i] = s[j] => i = j
      /\ \A x \in S : \E i \in 1..Len(s) : s[i] = x
  BY Enumerates
<1>2. /\ t \in Seq(S) /\ \A i, j \in 1..Len(t) : t[i] = t[j] => i = j
      /\ \A x \in S : \E i \in 1..Len(t) : t[i] = x
  BY Enumerates
<1>3. Len(s) = Len(t) /\ Len(s) \in Nat
  <2>1. Cardinality(S) \in Nat
    BY FS_CardinalityType
  <2>2. s \in [1..Cardinality(S) -> S] /\ t \in [1..Cardinality(S) -> S]
    BY DEF SetToSeqs
  <2>3. QED BY <1>1, <1>2, <2>1, <2>2
<1> DEFINE Differ == {i \in 1..Len(s) : s[i] # t[i]}
<1>4. CASE Differ = {}
  BY <1>1, <1>2, <1>3, <1>4, SeqEqual
<1>5. CASE Differ # {}
  <2>1. Differ \in SUBSET Nat
    BY <1>3
  <2>2. PICK k \in Differ : \A y \in Differ : k <= y
    BY <1>5, <2>1, LeastMember
  <2>3. k \in 1..Len(s) /\ s[k] # t[k] /\ s[k] \in S /\ t[k] \in S
    BY <1>1, <1>2, <1>3, <2>2
  <2>4. \A i \in 1..Len(s) : i < k => s[i] = t[i]
    BY <1>3, <2>2, <2>3
  <2>5. PICK m \in 1..Len(t) : t[m] = s[k]
    BY <1>2, <2>3
  <2>6. k < m
    <3>1. m # k
      BY <2>3, <2>5
    <3>2. ASSUME m < k PROVE FALSE
      BY <1>1, <1>3, <2>3, <2>4, <2>5, <3>2
    <3>3. QED BY <1>3, <2>3, <2>5, <3>1, <3>2
  <2>7. PICK l \in 1..Len(s) : s[l] = t[k]
    BY <1>1, <2>3
  <2>8. k < l
    <3>1. l # k
      BY <2>3, <2>7
    <3>2. ASSUME l < k PROVE FALSE
      BY <1>2, <1>3, <2>3, <2>4, <2>7, <3>2
    <3>3. QED BY <1>3, <2>3, <2>7, <3>1, <3>2
  <2>9. <<s[k], t[k]>> \notin R
    BY <1>3, <2>3, <2>5, <2>6
  <2>10. <<t[k], s[k]>> \notin R
    BY <2>3, <2>7, <2>8
  <2>11. QED BY <2>3, <2>9, <2>10
<1>6. QED BY <1>4, <1>5

-----------------------------------------------------------------------------
(* The values that rows are ordered by, and that of two different ones one *)
(* comes before the other in either direction.                             *)
Ordered == Int \cup {Null}
TableTyped == table \in BaseTables /\ query \in Queries

LEMMA RowTyped ==
  ASSUME TableTyped, NEW n \in RowIds
  PROVE  /\ table[n].key \in Int \X Int /\ table[n].label \in Ordered /\ table[n].input \in Ordered
         /\ table[n].matches \in Nat
BY MetricAssumption DEF TableTyped, Ordered

LEMMA BeforeTotal ==
  ASSUME NEW x \in Ordered, NEW y \in Ordered, x # y, NEW d
  PROVE  Before(x, y, d) \/ Before(y, x, d)
<1>1. CASE x = Null
  BY <1>1 DEF Before
<1>2. CASE y = Null
  BY <1>2 DEF Before
<1>3. CASE x # Null /\ y # Null
  <2>1. x \in Int /\ y \in Int
    BY <1>3 DEF Ordered
  <2>2. x > y \/ x < y
    BY <2>1
  <2>3. x > y => y < x
    BY <2>1
  <2>4. x < y => y > x
    BY <2>1
  <2>5. QED BY <1>3, <2>2, <2>3, <2>4 DEF Before
<1>4. QED BY <1>1, <1>2, <1>3

LEMMA SortTyped ==
  ASSUME TableTyped, NEW r, r.row \in RowIds, NEW by
  PROVE  /\ Sort(r, by) \in Ordered
         /\ by = "code" => Sort(r, by) = table[r.row].key[1]
         /\ by = "period" => Sort(r, by) = table[r.row].key[2]
<1>1. /\ table[r.row].key[1] \in Int /\ table[r.row].key[2] \in Int
      /\ table[r.row].label \in Ordered /\ table[r.row].input \in Ordered
  BY RowTyped
<1>2. CASE by \in Columns
  BY <1>1, <1>2 DEF Sort, Column, Columns, Ordered
<1>3. CASE by \notin Columns
  <2>1. Sort(r, by) = Value(Named(by), r)
    BY <1>3 DEF Sort
  <2>2. Value(Named(by), r) \in {table[r.row].input, Null}
    BY DEF Value, Input
  <2>3. QED BY <1>1, <1>3, <2>1, <2>2 DEF Ordered, Columns
<1>4. QED BY <1>2, <1>3

(* Sequences over a larger set; a sequence of one member at most.          *)
LEMMA SeqWidens == ASSUME NEW A, NEW B, A \subseteq B, NEW s \in Seq(A) PROVE s \in Seq(B)
OBVIOUS

LEMMA SeqShort == ASSUME NEW A, NEW x \in A, NEW s, s = <<>> \/ s = <<x>> PROVE s \in Seq(A)
<1>1. CASE s = <<>>
  BY <1>1
<1>2. CASE s = <<x>>
  BY <1>2
<1>3. QED BY <1>1, <1>2

(* The order of a query names both key columns.                            *)
LEMMA OrderNames ==
  ASSUME NEW q \in Queries
  PROVE  /\ Len(Order(q)) \in Nat /\ DOMAIN Order(q) = 1..Len(Order(q))
         /\ \E i \in DOMAIN Order(q) : Order(q)[i].by = "code"
         /\ \E i \in DOMAIN Order(q) : Order(q)[i].by = "period"
<1> DEFINE T == [by : STRING \cup {"code", "period"}, desc : BOOLEAN]
           o == q.order
           c == Completing(q, "code")
           p == Completing(q, "period")
<1>1. o \in Seq(T)
  <2>1. o \in Seq([by : STRING, desc : BOOLEAN])
    BY MetricAssumption
  <2>2. [by : STRING, desc : BOOLEAN] \subseteq T
    OBVIOUS
  <2>3. QED BY <2>1, <2>2, SeqWidens
<1>2. c \in Seq(T) /\ p \in Seq(T)
  <2>1. c = <<>> \/ c = <<[by |-> "code", desc |-> FALSE]>>
    BY DEF Completing
  <2>2. p = <<>> \/ p = <<[by |-> "period", desc |-> FALSE]>>
    BY DEF Completing
  <2>3. [by |-> "code", desc |-> FALSE] \in T /\ [by |-> "period", desc |-> FALSE] \in T
    OBVIOUS
  <2> HIDE DEF T, c, p
  <2>4. c \in Seq(T)
    BY <2>1, <2>3, SeqShort
  <2>5. p \in Seq(T)
    BY <2>2, <2>3, SeqShort
  <2>6. QED BY <2>4, <2>5
<1>3. /\ (\E i \in DOMAIN o : o[i].by = "code") \/ (Len(c) = 1 /\ c[1].by = "code")
      /\ (\E i \in DOMAIN o : o[i].by = "period") \/ (Len(p) = 1 /\ p[1].by = "period")
  BY DEF Completing
<1>4. Order(q) = (o \o c) \o p
  BY DEF Order
<1> HIDE DEF T, o, c, p
<1>5. /\ o \o c \in Seq(T) /\ Len(o \o c) = Len(o) + Len(c)
      /\ \A i \in 1..Len(o) : (o \o c)[i] = o[i]
      /\ \A i \in 1..Len(c) : (o \o c)[Len(o) + i] = c[i]
  BY <1>1, <1>2
<1> DEFINE oc == o \o c
<1> HIDE DEF oc
<1>6. /\ oc \o p \in Seq(T) /\ Len(oc \o p) = Len(oc) + Len(p)
      /\ \A i \in 1..Len(oc) : (oc \o p)[i] = oc[i]
      /\ \A i \in 1..Len(p) : (oc \o p)[Len(oc) + i] = p[i]
  BY <1>2, <1>5 DEF oc
<1>7. Order(q) = oc \o p
  BY <1>4 DEF oc
<1>8. Len(o) \in Nat /\ Len(c) \in Nat /\ Len(p) \in Nat /\ DOMAIN o = 1..Len(o)
  BY <1>1, <1>2
<1>9. \A i \in DOMAIN o : i \in 1..Len(oc \o p) /\ (oc \o p)[i] = o[i]
  BY <1>5, <1>6, <1>8 DEF oc
<1>10. Len(c) = 1 => Len(o) + 1 \in 1..Len(oc \o p) /\ (oc \o p)[Len(o) + 1] = c[1]
  BY <1>5, <1>6, <1>8 DEF oc
<1>11. Len(p) = 1 => Len(oc) + 1 \in 1..Len(oc \o p) /\ (oc \o p)[Len(oc) + 1] = p[1]
  BY <1>5, <1>6, <1>8 DEF oc
<1>12. DOMAIN (oc \o p) = 1..Len(oc \o p) /\ Len(oc \o p) \in Nat
  BY <1>6
<1>13. QED BY <1>3, <1>7, <1>9, <1>10, <1>11, <1>12

(* Of two rows with different keys one comes ahead of the other.           *)
LEMMA AheadTotal ==
  ASSUME TableTyped, NEW a, a.row \in RowIds, NEW b, b.row \in RowIds, table[a.row].key # table[b.row].key
  PROVE  Ahead(a, b, Order(query)) \/ Ahead(b, a, Order(query))
<1> DEFINE o == Order(query)
           Apart == {i \in DOMAIN o : Sort(a, o[i].by) # Sort(b, o[i].by)}
<1>1. /\ Len(o) \in Nat /\ DOMAIN o = 1..Len(o)
      /\ \E i \in DOMAIN o : o[i].by = "code"
      /\ \E i \in DOMAIN o : o[i].by = "period"
  BY OrderNames DEF TableTyped
<1> HIDE DEF o
<1>2. table[a.row].key[1] # table[b.row].key[1] \/ table[a.row].key[2] # table[b.row].key[2]
  <2>1. table[a.row].key \in Int \X Int /\ table[b.row].key \in Int \X Int
    BY RowTyped
  <2>2. QED BY <2>1
<1>3. Apart # {}
  BY <1>1, <1>2, SortTyped
<1>4. Apart \in SUBSET Nat
  BY <1>1
<1>5. PICK i \in Apart : \A j \in Apart : i <= j
  BY <1>3, <1>4, LeastMember
<1>6. i \in DOMAIN o /\ Sort(a, o[i].by) # Sort(b, o[i].by)
  BY <1>5
<1>7. \A j \in 1..(i - 1) : Sort(a, o[j].by) = Sort(b, o[j].by)
  BY <1>1, <1>5, <1>6
<1>8. Sort(a, o[i].by) \in Ordered /\ Sort(b, o[i].by) \in Ordered
  BY SortTyped
<1>9. \/ Before(Sort(a, o[i].by), Sort(b, o[i].by), o[i].desc)
      \/ Before(Sort(b, o[i].by), Sort(a, o[i].by), o[i].desc)
  BY <1>6, <1>8, BeforeTotal
<1>10. QED BY <1>6, <1>7, <1>9 DEF Ahead, o

-----------------------------------------------------------------------------
(* The rows of a result are of matching rows of the base table, and there  *)
(* are finitely many.                                                      *)
LEMMA JoinedFinite == ASSUME TableTyped, NEW n \in RowIds PROVE IsFiniteSet(JoinedRows(query, n))
<1> DEFINE M == IF LinkedTo(query) = {} \/ table[n].matches = 0 THEN {0} ELSE 1..table[n].matches
           f == [i \in M |-> [row |-> n, match |-> i]]
<1>1. JoinedRows(query, n) = {[row |-> n, match |-> i] : i \in M}
  BY DEF JoinedRows
<1>2. IsFiniteSet(M)
  <2>1. IsFiniteSet({0})
    BY FS_Singleton
  <2>2. 1 \in Int /\ table[n].matches \in Int
    BY RowTyped
  <2>3. IsFiniteSet(1..table[n].matches)
    BY <2>2, FS_Interval
  <2>4. QED BY <2>1, <2>3
<1> HIDE DEF M
<1>3. f \in Surjection(M, JoinedRows(query, n))
  BY <1>1 DEF Surjection
<1>4. QED BY <1>2, <1>3, FS_Surjection

LEMMA ResultFinite ==
  ASSUME TableTyped
  PROVE  /\ Matching \subseteq RowIds /\ IsFiniteSet(Matching) /\ IsFiniteSet(Result(query))
         /\ \A r : r \in Result(query) <=> \E n \in Matching : r \in JoinedRows(query, n)
<1> DEFINE J == {JoinedRows(query, n) : n \in Matching}
           f == [n \in Matching |-> JoinedRows(query, n)]
<1>1. Matching = {n \in RowIds : \A g \in query.filters : Passes(n, g)}
  BY DEF Matching, Passes
<1>2. Result(query) = UNION J
  BY <1>1 DEF Result
<1>3. Matching \subseteq RowIds
  BY DEF Matching
<1>4. IsFiniteSet(Matching)
  BY <1>3, MetricAssumption, FS_Subset
<1>5. IsFiniteSet(J)
  <2>1. f \in Surjection(Matching, J)
    BY DEF Surjection
  <2> HIDE DEF f, J
  <2>2. QED BY <1>4, <2>1, FS_Surjection
<1>6. \A T \in J : IsFiniteSet(T)
  BY <1>3, JoinedFinite
<1>7. IsFiniteSet(UNION J)
  <2> HIDE DEF J
  <2>1. QED BY <1>5, <1>6, FS_UNION
<1>8. QED BY <1>2, <1>3, <1>4, <1>7

(* Where a linked table has one matching row at most, a row of the base    *)
(* table has one in the result, and the result has one for each that       *)
(* matches.                                                                *)
MatchOf(n) == IF LinkedTo(query) = {} \/ table[n].matches = 0 THEN 0 ELSE 1
RowOf(n) == [row |-> n, match |-> MatchOf(n)]

LEMMA OneRow == ASSUME TableTyped, OneMatch, NEW n \in RowIds PROVE JoinedRows(query, n) = {RowOf(n)}
<1>1. table[n].matches \in {0, 1}
  BY RowTyped DEF OneMatch
<1>2. CASE LinkedTo(query) = {} \/ table[n].matches = 0
  BY <1>2 DEF JoinedRows, RowOf, MatchOf
<1>3. CASE LinkedTo(query) # {} /\ table[n].matches = 1
  <2>1. 1..table[n].matches = {1}
    BY <1>3
  <2>2. JoinedRows(query, n) = {[row |-> n, match |-> i] : i \in {1}}
    BY <1>3, <2>1 DEF JoinedRows
  <2>3. QED BY <1>3, <2>2 DEF RowOf, MatchOf
<1>4. QED BY <1>1, <1>2, <1>3

LEMMA ResultRows ==
  ASSUME TableTyped, OneMatch
  PROVE  Result(query) = {RowOf(n) : n \in Matching}
<1>1. \A r : r \in Result(query) <=> \E n \in Matching : r = RowOf(n)
  BY ResultFinite, OneRow
<1>2. QED BY <1>1

(* So a query has one ordering.                                            *)
LEMMA OneOrdering ==
  ASSUME TableTyped, OneMatch, UniqueKeys, NEW s \in Orderings(query), NEW t \in Orderings(query)
  PROVE  s = t
<1> DEFINE R == {x \in Result(query) \X Result(query) : Ahead(x[1], x[2], Order(query))}
<1>1. /\ s \in SetToSeqs(Result(query)) /\ t \in SetToSeqs(Result(query))
      /\ \A i, j \in DOMAIN s : i < j => ~Ahead(s[j], s[i], Order(query))
      /\ \A i, j \in DOMAIN t : i < j => ~Ahead(t[j], t[i], Order(query))
  BY DEF Orderings
<1>2. \A a, b \in Result(query) : a # b => <<a, b>> \in R \/ <<b, a>> \in R
  <2> TAKE a, b \in Result(query)
  <2> HAVE a # b
  <2>1. PICK m \in Matching, n \in Matching : a = RowOf(m) /\ b = RowOf(n)
    BY ResultRows
  <2>2. a.row = m /\ b.row = n /\ m # n /\ m \in RowIds /\ n \in RowIds
    BY <2>1, ResultFinite DEF RowOf
  <2>3. table[a.row].key # table[b.row].key
    BY <2>2 DEF UniqueKeys
  <2>4. Ahead(a, b, Order(query)) \/ Ahead(b, a, Order(query))
    BY <2>2, <2>3, AheadTotal
  <2>5. QED BY <2>4
<1>3. s \in Seq(Result(query)) /\ t \in Seq(Result(query)) /\ IsFiniteSet(Result(query))
  BY <1>1, ResultFinite, Enumerates
<1>4. DOMAIN s = 1..Len(s) /\ DOMAIN t = 1..Len(t)
  BY <1>3
<1>5. \A i, j \in 1..Len(s) : i < j => <<s[j], s[i]>> \notin R
  BY <1>1, <1>4
<1>6. \A i, j \in 1..Len(t) : i < j => <<t[j], t[i]>> \notin R
  BY <1>1, <1>4
<1> HIDE DEF R
<1>7. QED BY <1>1, <1>2, <1>3, <1>5, <1>6, OneListing

-----------------------------------------------------------------------------
(* What a page shows of an ordering.                                       *)
Shown(s) == IF Len(s) < Cap(query) THEN Len(s) ELSE Cap(query)

LEMMA CapTyped ==
  ASSUME Accepts(query) PROVE Cap(query) \in Nat /\ Cap(query) <= query.max /\ Cap(query) <= MaxRows
BY MetricAssumption DEF Cap, Accepts

LEMMA PageShows ==
  ASSUME Accepts(query), NEW R, NEW s \in Seq(R)
  PROVE  /\ Page(query, s).kind = "rows"
         /\ Page(query, s).rows = [i \in 1..Shown(s) |-> Shape(query, s[i])]
         /\ Page(query, s).truncated = (Len(s) > Cap(query))
<1> DEFINE n == IF Len(s) < Fetch(query) THEN Len(s) ELSE Fetch(query)
           fetched == SubSeq(s, 1, n)
<1>1. Cap(query) \in Nat /\ Fetch(query) = Cap(query) + 1 /\ Len(s) \in Nat
  BY CapTyped DEF Fetch
<1>2. n \in Nat /\ n <= Len(s)
  BY <1>1
<1>3. Len(fetched) = n /\ \A i \in 1..n : fetched[i] = s[i]
  BY <1>2
<1>4. (IF n < Cap(query) THEN n ELSE Cap(query)) = Shown(s) /\ (n > Cap(query)) = (Len(s) > Cap(query))
  BY <1>1 DEF Shown
<1>5. \A i \in 1..Shown(s) : i \in 1..n
  BY <1>1 DEF Shown
<1>6. Page(query, s) = [kind |-> "rows",
                        rows |-> [i \in 1..(IF Len(fetched) < Cap(query) THEN Len(fetched) ELSE Cap(query))
                                    |-> Shape(query, fetched[i])],
                        truncated |-> Len(fetched) > Cap(query)]
  BY DEF Page
<1> HIDE DEF n, fetched
<1>7. Page(query, s).rows = [i \in 1..Shown(s) |-> Shape(query, fetched[i])]
  BY <1>3, <1>4, <1>6
<1>8. [i \in 1..Shown(s) |-> Shape(query, fetched[i])] = [i \in 1..Shown(s) |-> Shape(query, s[i])]
  BY <1>3, <1>5
<1>9. QED BY <1>3, <1>4, <1>6, <1>7, <1>8

-----------------------------------------------------------------------------
(* An answer is a refusal, a time out, or the page of an ordering.         *)
RowAnswers == {Page(query, s) : s \in {t \in Orderings(query) : Accepts(query)}}
Refusals == {Rejected("rejected"), Rejected("cancelled"), Rejected("failed")}
Possible == Refusals \cup RowAnswers
MetricInv == TableTyped /\ answers \in Seq(Possible)

LEMMA PagesStay == ASSUME table' = table, query' = query PROVE Possible' = Possible
<1>1. \A r, by : Sort(r, by)' = Sort(r, by)
  BY DEF Sort, Column, Value, Applicable, Input
<1>2. \A a, b, o : Ahead(a, b, o)' <=> Ahead(a, b, o)
  BY <1>1 DEF Ahead
<1>3. Result(query)' = Result(query)
  BY DEF Result, JoinedRows, Passes, Column
<1>4. Orderings(query)' = Orderings(query)
  BY <1>2, <1>3 DEF Orderings
<1>5. \A s : Page(query, s)' = Page(query, s)
  BY DEF Page, Shape, Cell, Value, Normalize, Applicable, Input
<1>6. Accepts(query)' <=> Accepts(query)
  OBVIOUS
<1>7. QED BY <1>4, <1>5, <1>6 DEF Possible, Refusals, RowAnswers

LEMMA AskingKeeps == MetricInv /\ [MetricNext]_metricVars => MetricInv'
<1> SUFFICES ASSUME MetricInv, [MetricNext]_metricVars PROVE MetricInv'
  OBVIOUS
<1>1. table' = table /\ query' = query
  BY DEF MetricNext, metricVars, RefuseQuery, Run, TimeOut, QueryFails, Answer
<1>2. answers' = answers \/ \E a \in Possible : answers' = Append(answers, a)
  BY DEF MetricNext, metricVars, RefuseQuery, Run, TimeOut, QueryFails, Answer, Possible, Refusals, RowAnswers
<1>3. answers' \in Seq(Possible)
  BY <1>2 DEF MetricInv
<1>4. Possible' = Possible
  BY <1>1, PagesStay
<1>5. QED BY <1>1, <1>3, <1>4 DEF MetricInv, TableTyped

(* Of an answer with rows: the ordering it is the page of.                 *)
LEMMA RowsOf ==
  ASSUME MetricInv, NEW i \in Rows
  PROVE  /\ Accepts(query)
         /\ \E s \in Orderings(query) : answers[i] = Page(query, s)
<1>1. answers[i] \in Possible /\ answers[i].kind = "rows"
  BY DEF MetricInv, Rows
<1>2. \A a \in Refusals : a.kind # "rows"
  BY DEF Refusals, Rejected
<1>3. answers[i] \in RowAnswers
  BY <1>1, <1>2 DEF Possible
<1>4. QED BY <1>3 DEF RowAnswers

(* Of an ordering: its rows, and what its page has of them.                *)
LEMMA PageOf ==
  ASSUME MetricInv, Accepts(query), NEW s \in Orderings(query)
  PROVE  LET a == Page(query, s) IN
         /\ Len(s) \in Nat /\ Shown(s) \in Nat /\ Shown(s) <= Len(s) /\ Shown(s) <= Cap(query)
         /\ \A k \in 1..Len(s) : s[k] \in Result(query)
         /\ \A k, l \in 1..Len(s) : s[k] = s[l] => k = l
         /\ \A r \in Result(query) : \E k \in 1..Len(s) : s[k] = r
         /\ a.kind = "rows" /\ Len(a.rows) = Shown(s) /\ DOMAIN a.rows = 1..Shown(s)
         /\ \A k \in 1..Shown(s) : a.rows[k] = Shape(query, s[k])
         /\ a.truncated = (Len(s) > Cap(query))
<1>1. s \in SetToSeqs(Result(query)) /\ TableTyped
  BY DEF Orderings, MetricInv
<1>2. /\ s \in Seq(Result(query)) /\ Len(s) \in Nat
      /\ \A k, l \in 1..Len(s) : s[k] = s[l] => k = l
      /\ \A r \in Result(query) : \E k \in 1..Len(s) : s[k] = r
  BY <1>1, ResultFinite, Enumerates
<1>3. Shown(s) \in Nat /\ Shown(s) <= Len(s) /\ Shown(s) <= Cap(query)
  BY <1>2, CapTyped DEF Shown
<1>4. /\ Page(query, s).kind = "rows"
      /\ Page(query, s).rows = [k \in 1..Shown(s) |-> Shape(query, s[k])]
      /\ Page(query, s).truncated = (Len(s) > Cap(query))
  BY <1>2, PageShows
<1>5. Len([k \in 1..Shown(s) |-> Shape(query, s[k])]) = Shown(s)
  BY <1>3
<1>6. QED BY <1>2, <1>3, <1>4, <1>5

(* Where links match once, it has each matching row of the base table once. *)
LEMMA RowsOnce ==
  ASSUME MetricInv, OneMatch, Accepts(query), NEW s \in Orderings(query)
  PROVE  /\ \A k \in 1..Len(s) : s[k].row \in Matching
         /\ \A k, l \in 1..Len(s) : s[k].row = s[l].row => k = l
         /\ \A n \in Matching : \E k \in 1..Len(s) : s[k].row = n
<1>1. Result(query) = {RowOf(n) : n \in Matching}
  BY ResultRows DEF MetricInv
<1>2. \A n : RowOf(n).row = n
  BY DEF RowOf
<1>3. \A k \in 1..Len(s) : s[k].row \in Matching /\ s[k] = RowOf(s[k].row)
  BY <1>1, <1>2, PageOf
<1>4. \A k, l \in 1..Len(s) : s[k].row = s[l].row => k = l
  BY <1>3, PageOf
<1>5. \A n \in Matching : \E k \in 1..Len(s) : s[k].row = n
  <2> TAKE n \in Matching
  <2>1. RowOf(n) \in Result(query)
    BY <1>1
  <2>2. PICK k \in 1..Len(s) : s[k] = RowOf(n)
    BY <2>1, PageOf
  <2>3. QED BY <1>2, <2>2
<1>6. QED BY <1>3, <1>4, <1>5

-----------------------------------------------------------------------------
(* What an answer may say.  Asking again gives the same page.              *)
LEMMA AskingRepeats == ASSUME MetricInv PROVE Repeatable
<1> SUFFICES ASSUME UniqueKeys, OneMatch, NEW i \in Rows, NEW j \in Rows PROVE answers[i] = answers[j]
  BY DEF Repeatable
<1>1. PICK s \in Orderings(query) : answers[i] = Page(query, s)
  BY RowsOf
<1>2. PICK t \in Orderings(query) : answers[j] = Page(query, t)
  BY RowsOf
<1>3. QED BY <1>1, <1>2, OneOrdering DEF MetricInv

LEMMA AnswersTyped == ASSUME MetricInv PROVE MetricTypeOK
<1> SUFFICES ASSUME NEW i \in DOMAIN answers
             PROVE  answers[i].kind \in {"rows", "rejected", "cancelled", "failed"} /\ Len(answers[i].rows) <= MaxRows
  BY DEF MetricTypeOK
<1>1. answers[i] \in Possible
  BY DEF MetricInv
<1>2. CASE answers[i] \in Refusals
  <2>1. answers[i].kind \in {"rejected", "cancelled", "failed"} /\ answers[i].rows = <<>>
    BY <1>2 DEF Refusals, Rejected
  <2>2. QED BY <2>1, MetricAssumption
<1>3. CASE answers[i] \in RowAnswers
  <2>1. PICK s \in Orderings(query) : answers[i] = Page(query, s) /\ Accepts(query)
    BY <1>3 DEF RowAnswers
  <2>2. Page(query, s).kind = "rows" /\ Len(Page(query, s).rows) = Shown(s)
        /\ Shown(s) \in Nat /\ Shown(s) <= Cap(query)
    BY <2>1, PageOf
  <2>3. Shown(s) <= MaxRows
    BY <2>1, <2>2, CapTyped, MetricAssumption
  <2>4. QED BY <2>1, <2>2, <2>3
<1>4. QED BY <1>1, <1>2, <1>3 DEF Possible

LEMMA AnswersComplete == ASSUME MetricInv PROVE OnePerRow
<1> SUFFICES ASSUME OneMatch, NEW i \in Rows
             PROVE  /\ Listed(answers[i]) \subseteq Matching
                    /\ \A m, n \in DOMAIN answers[i].rows :
                          answers[i].rows[m].row = answers[i].rows[n].row => m = n
                    /\ IF answers[i].truncated
                       THEN Len(answers[i].rows) = Cap(query) /\ Listed(answers[i]) # Matching
                       ELSE Listed(answers[i]) = Matching
                    /\ Len(answers[i].rows) <= query.max
  BY DEF OnePerRow
<1>1. PICK a : a = answers[i]
  OBVIOUS
<1>2. PICK s \in Orderings(query) : a = Page(query, s)
  BY <1>1, RowsOf
<1>3. Accepts(query)
  BY RowsOf
<1>4. /\ Len(s) \in Nat /\ Shown(s) \in Nat /\ Shown(s) <= Len(s) /\ Shown(s) <= Cap(query)
      /\ \A k \in 1..Len(s) : s[k].row \in Matching
      /\ \A k, l \in 1..Len(s) : s[k].row = s[l].row => k = l
      /\ \A x \in Matching : \E k \in 1..Len(s) : s[k].row = x
      /\ Len(a.rows) = Shown(s) /\ DOMAIN a.rows = 1..Shown(s)
      /\ \A k \in 1..Shown(s) : a.rows[k] = Shape(query, s[k])
      /\ a.truncated = (Len(s) > Cap(query))
  BY <1>2, <1>3, PageOf, RowsOnce
<1>5. \A k \in 1..Shown(s) : k \in 1..Len(s) /\ a.rows[k].row = s[k].row
  <2> TAKE k \in 1..Shown(s)
  <2>1. k \in 1..Len(s)
    BY <1>4
  <2>2. a.rows[k] = Shape(query, s[k])
    BY <1>4
  <2>3. Shape(query, s[k]).row = s[k].row
    BY DEF Shape
  <2>4. QED BY <2>1, <2>2, <2>3
<1>6. Listed(a) = {s[k].row : k \in 1..Shown(s)}
  BY <1>4, <1>5 DEF Listed
<1>7. Listed(a) \subseteq Matching
  BY <1>4, <1>5, <1>6
<1>8. \A m, n \in DOMAIN a.rows : a.rows[m].row = a.rows[n].row => m = n
  BY <1>4, <1>5
<1>9. Cap(query) \in Nat /\ Cap(query) <= query.max /\ query.max \in Nat
  BY <1>3, CapTyped DEF Accepts
<1>10. Len(a.rows) <= query.max
  BY <1>4, <1>9
<1>11. CASE Len(s) > Cap(query)
  <2>1. Shown(s) = Cap(query)
    BY <1>4, <1>9, <1>11 DEF Shown
  <2>2. Shown(s) + 1 \in 1..Len(s)
    BY <1>4, <1>9, <1>11, <2>1
  <2>3. s[Shown(s) + 1].row \in Matching
    BY <1>4, <2>2
  <2>4. s[Shown(s) + 1].row \notin Listed(a)
    <3>1. \A k \in 1..Shown(s) : k # Shown(s) + 1
      BY <1>4
    <3>2. QED BY <1>4, <1>5, <1>6, <2>2, <3>1
  <2>5. a.truncated
    BY <1>4, <1>11
  <2>6. QED BY <1>1, <1>4, <1>7, <1>8, <1>10, <2>1, <2>3, <2>4, <2>5
<1>12. CASE ~(Len(s) > Cap(query))
  <2>1. Shown(s) = Len(s)
    BY <1>4, <1>9, <1>12 DEF Shown
  <2>2. Matching \subseteq Listed(a)
    BY <1>4, <1>6, <2>1
  <2>3. ~a.truncated
    BY <1>4, <1>12
  <2>4. Listed(a) = Matching
    BY <1>7, <2>2
  <2>5. QED BY <1>1, <1>7, <1>8, <1>10, <2>3, <2>4
<1>13. QED BY <1>11, <1>12

(* Whether a row has met a linked row is told by the table.                *)
LEMMA MetLinked ==
  ASSUME TableTyped, NEW n \in RowIds, NEW r \in JoinedRows(query, n), NEW d \in Wanted(query)
  PROVE  /\ r.row = n
         /\ Input(d, r) = IF d.reads \subseteq {Base} \/ table[n].matches > 0 THEN table[n].input ELSE Null
<1>1. table[n].matches \in Nat
  BY RowTyped
<1>2. PICK i \in IF LinkedTo(query) = {} \/ table[n].matches = 0 THEN {0} ELSE 1..table[n].matches :
        r = [row |-> n, match |-> i]
  BY DEF JoinedRows
<1>3. r.row = n /\ r.match = i
  BY <1>2
<1>4. CASE d.reads \subseteq {Base}
  BY <1>3, <1>4 DEF Input
<1>5. CASE ~(d.reads \subseteq {Base})
  <2>1. LinkedTo(query) # {}
    <3>1. PICK x \in d.reads : x # Base
      BY <1>5
    <3>2. x \in UNION {e.reads : e \in Wanted(query)}
      BY <3>1
    <3>3. x \in LinkedTo(query)
      BY <3>1, <3>2 DEF LinkedTo
    <3>4. QED BY <3>3
  <2>2. i > 0 <=> table[n].matches > 0
    BY <1>1, <1>2, <2>1
  <2>3. QED BY <1>3, <1>5, <2>2 DEF Input
<1>6. QED BY <1>3, <1>4, <1>5

LEMMA AnswersExplain == ASSUME MetricInv PROVE Explained
<1> SUFFICES ASSUME NEW i \in Rows, NEW m \in DOMAIN answers[i].rows, NEW j \in DOMAIN query.metrics
             PROVE  LET row == answers[i].rows[m]  d == Named(query.metrics[j])  at == table[row.row]
                        holds == ~d.conditional \/ at.cond = "true"
                        there == at.input # Null /\ (d.reads \subseteq {Base} \/ at.matches > 0)
                        number == there /\ at.input \notin NotFinite
                    IN row.cells[j].reason = (IF ~holds THEN "not applicable"
                                              ELSE IF ~number THEN "missing" ELSE Null)
                       /\ row.cells[j].value = (IF holds /\ number THEN at.input ELSE Null)
  BY DEF Explained
<1>1. PICK s \in Orderings(query) : answers[i] = Page(query, s)
  BY RowsOf
<1>2. /\ Shown(s) \in Nat /\ Shown(s) <= Len(s) /\ Len(s) \in Nat
      /\ \A k \in 1..Len(s) : s[k] \in Result(query)
      /\ DOMAIN answers[i].rows = 1..Shown(s)
      /\ \A k \in 1..Shown(s) : answers[i].rows[k] = Shape(query, s[k])
  BY <1>1, RowsOf, PageOf
<1>3. m \in 1..Len(s) /\ answers[i].rows[m] = Shape(query, s[m]) /\ s[m] \in Result(query)
  BY <1>2
<1>4. PICK r : r = s[m]
  OBVIOUS
<1>5. PICK n \in RowIds : r \in JoinedRows(query, n)
  BY <1>3, <1>4, ResultFinite DEF MetricInv
<1>6. PICK d : d = Named(query.metrics[j])
  OBVIOUS
<1>7. d \in Wanted(query)
  BY <1>6 DEF Wanted
<1>8. /\ r.row = n
      /\ Input(d, r) = IF d.reads \subseteq {Base} \/ table[n].matches > 0 THEN table[n].input ELSE Null
  BY <1>5, <1>7, MetLinked DEF MetricInv
<1>9. answers[i].rows[m].row = n /\ answers[i].rows[m].cells[j] = Cell(d, r)
  BY <1>3, <1>4, <1>6, <1>8 DEF Shape
<1>10. Applicable(d, r) <=> ~d.conditional \/ table[n].cond = "true"
  BY <1>8 DEF Applicable
<1>11. Value(d, r) = (IF Applicable(d, r) THEN Input(d, r) ELSE Null)
  BY DEF Value
<1>12. /\ Cell(d, r).value = Normalize(Value(d, r))
       /\ Cell(d, r).reason = (IF ~Applicable(d, r) THEN "not applicable"
                               ELSE IF Normalize(Value(d, r)) = Null THEN "missing" ELSE Null)
  BY DEF Cell
<1>13. Normalize(Value(d, r)) = IF Value(d, r) \in NotFinite THEN Null ELSE Value(d, r)
  BY DEF Normalize
<1>14. QED BY <1>6, <1>8, <1>9, <1>10, <1>11, <1>12, <1>13

(* Whatever a request asks of whatever table: each number an answer leaves *)
(* out is explained as Explained says; where links match once, as they are *)
(* declared to, an answer lists each matching row of the base table once,  *)
(* completely or saying that it does not; and where keys are unique too,   *)
(* each asking that is answered lists the same rows in the same order.     *)
THEOREM MetricKept == MetricSpec => []MetricRight
<1>1. MetricInit => MetricInv
  BY DEF MetricInit, MetricInv, TableTyped
<1>2. MetricInv => MetricRight
  BY AskingRepeats, AnswersTyped, AnswersComplete, AnswersExplain DEF MetricRight
<1>3. QED BY <1>1, <1>2, AskingKeeps, PTL DEF MetricSpec

-----------------------------------------------------------------------------
(* DatasetCatalog.                                                         *)
USE CatalogAssumption

Version == Versions \cup {NoVersion}
ReaderStates == {"idle", "refresh", "waiting", "loading", "listing", "fetching", "structure",
                 "done", "unknown", "failed"}
Reader == [pc : ReaderStates, page : BOOLEAN, start : Nat, entry : Version, got : Version,
           epoch : Nat, readAt : Nat]

Typed == CatalogTypeOK /\ req \in [Readers -> Reader]

(* A transaction that writes has read what the rows still say, for no      *)
(* other one writes; an answered one is what the rows say.                 *)
AsRead(c) ==
  LET r == reg[c] IN
  /\ r.pc # "collided"
  /\ r.pc \in {"writing", "done"} => r.version \in Versions /\ r.digest \in Digests
  /\ r.pc = "writing" => /\ r.same = status[r.version] /\ r.same # "active"
                         /\ digest[r.version] \in {NoVersion, r.digest}
  /\ r.pc = "done" => digest[r.version] = r.digest

Registered ==
  /\ \A v, w \in Active : v = w
  /\ \A v \in Versions : (digest[v] = NoVersion <=> status[v] = "absent") /\ activeAt[v] <= now
  /\ \A c \in Callers : AsRead(c)
  /\ \A c, d \in Callers : reg[c].pc = "writing" /\ reg[d].pc = "writing" => c = d

(* What the catalogue knows was active when it was read.                   *)
Known ==
  /\ known.epoch <= epoch /\ loadedAt <= now
  /\ known.version # NoVersion =>
       status[known.version] = "active" \/ loadedAt <= activeAt[known.version] + Latency
  /\ \A r, s \in Readers : req[r].pc = "loading" /\ req[s].pc = "loading" => r = s

(* Version v may be shown to a request that began when q did.              *)
Recent(q, v) == status[v] = "active" \/ q.start < activeAt[v] + Ttl + Latency

(* A read under way has seen an epoch the catalogue is not ahead of.       *)
LoadOk(q) ==
  q.pc = "loading" =>
    /\ q.start <= q.readAt /\ q.readAt <= now /\ now <= q.readAt + Latency
    /\ known.epoch <= q.epoch /\ q.epoch <= epoch
    /\ q.got # NoVersion => status[q.got] = "active" \/ q.readAt <= activeAt[q.got]

ReaderOk(q) ==
  /\ q.start <= now /\ LoadOk(q)
  /\ q.pc = "listing" => q.page /\ q.start < loadedAt + Ttl
  /\ q.pc = "structure" => q.page
  /\ q.pc \in {"fetching", "structure"} => q.got \in Versions /\ (q.page => q.entry \in Versions)
  /\ q.pc \in {"fetching", "done"} /\ ~q.page => q.got \in Versions /\ Recent(q, q.got)
  /\ q.page /\ q.entry # NoVersion => Recent(q, q.entry)
  /\ q.pc = "done" /\ q.page => q.entry # NoVersion

CatalogInv == Typed /\ Registered /\ Known /\ \A r \in Readers : ReaderOk(req[r])

(* A request that moves to q keeps the invariant, when all it touches of   *)
(* the catalogue are the open services and the remembered structure.       *)
LEMMA ReaderMoves ==
    ASSUME CatalogInv, NEW r \in Readers, NEW q \in Reader, req' = [req EXCEPT ![r] = q],
           ReaderOk(q), q.pc = "loading" => LoadLockFree,
           UNCHANGED <<registry, reg, now, known, loadedAt>>,
           services' \subseteq Versions,
           DOMAIN details' \subseteq Versions /\ \A v \in DOMAIN details' : details'[v] \in Versions
    PROVE  CatalogInv'
<1>1. req' \in [Readers -> Reader] /\ \A s \in Readers : req'[s] = IF s = r THEN q ELSE req[s]
  BY DEF CatalogInv, Typed
<1>2. Typed'
  BY <1>1 DEF CatalogInv, Typed, CatalogTypeOK, registry
<1>3. Registered'
  BY DEF CatalogInv, Registered, AsRead, Active, registry
<1>4. Known'
  BY <1>1 DEF CatalogInv, Known, registry, LoadLockFree
<1>5. \A s \in Readers : ReaderOk(req[s])'
  BY <1>1 DEF CatalogInv, ReaderOk, LoadOk, Recent, registry
<1>6. QED BY <1>2, <1>3, <1>4, <1>5 DEF CatalogInv

(* Where a reader goes on after the catalogue was refreshed.               *)
LEMMA RefreshedOk ==
    ASSUME NEW q \in Reader, NEW version \in Version, NEW open \in SUBSET Versions,
           UNCHANGED <<status, activeAt, now>>, q.start <= now, q.start < loadedAt' + Ttl,
           version # NoVersion => Recent(q, version),
           q.page /\ q.entry # NoVersion => Recent(q, q.entry),
           q.pc \in {"refresh", "loading"}
    PROVE  Refreshed(q, version, open) \in Reader /\ ReaderOk(Refreshed(q, version, open))'
           /\ Refreshed(q, version, open).pc # "loading"
<1> DEFINE p == Refreshed(q, version, open)
<1>1. CASE q.page /\ q.entry = NoVersion
  <2>1. p = [q EXCEPT !.pc = "listing"]
    BY <1>1 DEF Refreshed
  <2>2. QED BY <1>1, <2>1 DEF Reader, ReaderStates, Version, ReaderOk, LoadOk, Recent
<1>2. CASE ~(q.page /\ q.entry = NoVersion) /\ version = NoVersion
  <2>1. p = [q EXCEPT !.pc = "unknown"]
    BY <1>2 DEF Refreshed
  <2>2. QED BY <1>2, <2>1 DEF Reader, ReaderStates, Version, ReaderOk, LoadOk, Recent
<1>3. CASE ~(q.page /\ q.entry = NoVersion) /\ version # NoVersion
  <2>1. PICK goes \in {"structure", "done", "fetching"} :
          /\ p = [q EXCEPT !.pc = goes, !.got = version]
          /\ (goes = "structure" => q.page) /\ (goes = "done" => ~q.page)
    BY <1>3 DEF Refreshed, Served
  <2>2. /\ p \in Reader /\ p.start = q.start /\ p.page = q.page /\ p.entry = q.entry /\ p.got = version
        /\ p.pc = goes
    <3>1. goes \in ReaderStates /\ version \in Version
      BY DEF ReaderStates
    <3>2. QED BY <2>1, <3>1 DEF Reader
  <2>3. ReaderOk(p)'
    <3> HIDE DEF p
    <3>1. p' = p
      PROOF OBVIOUS
    <3>2. QED BY <1>3, <2>1, <2>2 DEF Reader, Version, ReaderOk, LoadOk, Recent
  <2>4. QED BY <2>2, <2>3
<1>4. QED BY <1>1, <1>2, <1>3

(* What a step of a registration leaves of the readers' invariants: a      *)
(* version that ceases to be active was active until now.                  *)
LEMMA RegistrationKeeps ==
    ASSUME CatalogInv, UNCHANGED <<now, catalog, details, req>>, epoch' \in Nat, epoch' >= epoch,
           activeAt' \in [Versions -> Nat],
           \A v \in Versions : \/ status'[v] = "active"
                               \/ status[v] = "active" /\ activeAt'[v] = now
                               \/ status[v] # "active" /\ activeAt'[v] = activeAt[v]
    PROVE  Known' /\ \A r \in Readers : ReaderOk(req[r])'
<1>1. /\ known.version \in Version /\ known.epoch \in Nat /\ epoch \in Nat /\ now \in Nat /\ loadedAt \in Nat
      /\ activeAt \in [Versions -> Nat] /\ req \in [Readers -> Reader]
  BY DEF CatalogInv, Typed, CatalogTypeOK, Version
<1>2. Known'
  <2>1. known.version # NoVersion =>
          status'[known.version] = "active" \/ loadedAt <= activeAt'[known.version] + Latency
    BY <1>1 DEF CatalogInv, Known, Version
  <2>2. QED BY <1>1, <2>1 DEF CatalogInv, Known, catalog
<1>3. ASSUME NEW r \in Readers PROVE ReaderOk(req[r])'
  <2> DEFINE q == req[r]
  <2>1. q \in Reader /\ ReaderOk(q) /\ req' = req
    BY <1>1 DEF CatalogInv
  <2>2. ASSUME NEW v \in Versions, Recent(q, v)
        PROVE  status'[v] = "active" \/ q.start < activeAt'[v] + Ttl + Latency
    BY <1>1, <2>1, <2>2 DEF Recent, ReaderOk, Reader
  <2>3. LoadOk(q)'
    BY <1>1, <2>1 DEF ReaderOk, LoadOk, Reader, Version, catalog
  <2>4. QED BY <2>1, <2>2, <2>3 DEF ReaderOk, Recent, Reader, Version, catalog
<1>4. QED BY <1>2, <1>3

LEMMA RegisterStep == ASSUME CatalogInv, NEW c \in Callers, NEW v \in Versions, NEW d \in Digests,
                             Register(c, v, d)
                      PROVE  CatalogInv'
<1> DEFINE r == [version |-> v, digest |-> d, same |-> status[v],
                 pc |-> IF Conflict(v, d) THEN "conflict" ELSE IF status[v] = "active" THEN "done" ELSE "writing"]
<1>1. reg' = [reg EXCEPT ![c] = r] /\ UNCHANGED <<registry, now, catalog, details, req>>
  BY DEF Register
<1>2. /\ r.version = v /\ r.digest = d /\ r.same = status[v]
      /\ r.pc = IF Conflict(v, d) THEN "conflict" ELSE IF status[v] = "active" THEN "done" ELSE "writing"
  OBVIOUS
<1>3. r \in [pc : {"idle", "writing", "done", "conflict", "collided"}, version : Version,
             digest : Digests \cup {NoVersion}, same : {"absent", "active", "superseded"}]
  BY DEF CatalogInv, Typed, CatalogTypeOK, Version
<1> HIDE DEF r
<1>4. Typed'
  BY <1>1, <1>3 DEF CatalogInv, Typed, CatalogTypeOK, Version, registry, catalog
<1>5. \A e \in Callers : reg'[e] = IF e = c THEN r ELSE reg[e]
  BY <1>1 DEF CatalogInv, Typed, CatalogTypeOK
<1>6. AsRead(c)'
  BY <1>1, <1>2, <1>5 DEF AsRead, Conflict, CatalogInv, Registered, registry
<1>7. \A e \in Callers : AsRead(e)'
  BY <1>1, <1>5, <1>6 DEF AsRead, CatalogInv, Registered, registry
<1>8. \A e \in Callers : reg[e].pc # "writing"
  BY DEF Register, Locked
<1>9. Registered'
  BY <1>1, <1>5, <1>7, <1>8 DEF Registered, CatalogInv, Active, registry
<1>10. Known' /\ \A s \in Readers : ReaderOk(req[s])'
  BY <1>1 DEF CatalogInv, Known, ReaderOk, LoadOk, Recent, registry, catalog
<1>11. QED BY <1>4, <1>9, <1>10 DEF CatalogInv

LEMMA CommitStep == ASSUME CatalogInv, NEW c \in Callers, Commit(c) PROVE CatalogInv'
<1> DEFINE r == reg[c]
<1>1. /\ r.pc = "writing" /\ r.version \in Versions /\ r.digest \in Digests
      /\ r.same = status[r.version] /\ r.same # "active" /\ digest[r.version] \in {NoVersion, r.digest}
  BY DEF Commit, CatalogInv, Registered, AsRead
<1>2. /\ status' = [v \in Versions |-> IF v = r.version THEN "active"
                                       ELSE IF status[v] = "active" THEN "superseded" ELSE status[v]]
      /\ digest' = [digest EXCEPT ![r.version] = IF r.same = "absent" THEN r.digest ELSE @]
      /\ activeAt' = [v \in Versions |-> IF status[v] = "active" THEN now ELSE activeAt[v]]
      /\ epoch' = epoch + 1 /\ reg' = [reg EXCEPT ![c].pc = "done"]
      /\ UNCHANGED <<now, catalog, details, req>>
  BY <1>1 DEF Commit
<1>3. Typed'
  BY <1>1, <1>2 DEF CatalogInv, Typed, CatalogTypeOK, catalog
<1>4. \A e \in Callers : reg'[e] = IF e = c THEN [r EXCEPT !.pc = "done"] ELSE reg[e]
  BY <1>2 DEF CatalogInv, Typed, CatalogTypeOK
<1>5. \A e \in Callers : e # c => reg[e].pc # "writing"
  BY <1>1 DEF CatalogInv, Registered
<1>6. (digest[r.version] = NoVersion <=> status[r.version] = "absent")
  BY <1>1 DEF CatalogInv, Registered
<1>7. digest'[r.version] = r.digest /\ \A v \in Versions : v # r.version => digest'[v] = digest[v]
  BY <1>1, <1>2, <1>6 DEF CatalogInv, Typed, CatalogTypeOK
<1>8. AsRead(c)'
  <2>1. /\ reg'[c].pc = "done" /\ reg'[c].version = r.version /\ reg'[c].digest = r.digest
    BY <1>4 DEF CatalogInv, Typed, CatalogTypeOK
  <2>2. QED BY <1>1, <1>7, <2>1 DEF AsRead
<1>9. ASSUME NEW e \in Callers, e # c PROVE AsRead(e)'
  <2>1. reg'[e] = reg[e] /\ reg[e].pc # "writing" /\ AsRead(e)
    BY <1>4, <1>5, <1>9 DEF CatalogInv, Registered
  <2>2. reg[e].pc = "done" => digest'[reg[e].version] = digest[reg[e].version]
    BY <1>1, <1>7, <2>1 DEF AsRead
  <2>3. QED BY <2>1, <2>2 DEF AsRead
<1>10. Registered'
  <2>1. \A v, w \in Active' : v = w
    BY <1>2 DEF Active
  <2>2. \A v \in Versions : (digest'[v] = NoVersion <=> status'[v] = "absent") /\ activeAt'[v] <= now'
    BY <1>1, <1>2, <1>7 DEF CatalogInv, Registered, Typed, CatalogTypeOK
  <2>3. \A e, f \in Callers : reg'[e].pc = "writing" /\ reg'[f].pc = "writing" => e = f
    BY <1>4, <1>5 DEF CatalogInv, Typed, CatalogTypeOK
  <2>4. QED BY <1>8, <1>9, <2>1, <2>2, <2>3 DEF Registered
<1>11. Known' /\ \A s \in Readers : ReaderOk(req[s])'
  BY <1>2, <1>3, RegistrationKeeps DEF CatalogInv, Typed, CatalogTypeOK
<1>12. QED BY <1>3, <1>10, <1>11 DEF CatalogInv

LEMMA AbortStep == ASSUME CatalogInv, NEW c \in Callers, Abort(c) PROVE CatalogInv'
<1>1. reg' = [reg EXCEPT ![c] = Idle] /\ UNCHANGED <<registry, now, catalog, details, req>>
  BY DEF Abort
<1>2. \A e \in Callers : reg'[e] = IF e = c THEN Idle ELSE reg[e]
  BY <1>1 DEF CatalogInv, Typed, CatalogTypeOK
<1>3. Typed'
  BY <1>1 DEF CatalogInv, Typed, CatalogTypeOK, Idle, registry, catalog
<1>4. \A e \in Callers : AsRead(e)'
  BY <1>1, <1>2 DEF AsRead, CatalogInv, Registered, Idle, registry
<1>5. Registered'
  BY <1>1, <1>2, <1>4 DEF CatalogInv, Registered, Active, Idle, registry
<1>6. Known' /\ \A s \in Readers : ReaderOk(req[s])'
  BY <1>1 DEF CatalogInv, Known, ReaderOk, LoadOk, Recent, registry, catalog
<1>7. QED BY <1>3, <1>5, <1>6 DEF CatalogInv

LEMMA TickStep == ASSUME CatalogInv, CatalogTick PROVE CatalogInv'
<1>1. now' = now + 1 /\ UNCHANGED <<registry, reg, catalog, details, req>> /\ now \in Nat
      /\ \A r \in Readers : req[r].pc = "loading" => now - req[r].readAt < Latency
  BY DEF CatalogTick, CatalogInv, Typed, CatalogTypeOK
<1>2. Typed'
  BY <1>1 DEF CatalogInv, Typed, CatalogTypeOK, registry, catalog
<1>3. Registered'
  BY <1>1 DEF CatalogInv, Registered, AsRead, Active, Typed, CatalogTypeOK, registry
<1>4. Known'
  BY <1>1 DEF CatalogInv, Known, Typed, CatalogTypeOK, registry, catalog
<1>5. \A r \in Readers : ReaderOk(req[r])'
  <2> SUFFICES ASSUME NEW r \in Readers PROVE ReaderOk(req[r])'
    OBVIOUS
  <2>1. req[r] \in Reader /\ ReaderOk(req[r])
    BY DEF CatalogInv, Typed
  <2>2. LoadOk(req[r])'
    BY <1>1, <2>1 DEF ReaderOk, LoadOk, Reader, registry, catalog
  <2>3. QED BY <1>1, <2>1, <2>2 DEF ReaderOk, Recent, Reader, registry, catalog
<1>6. QED BY <1>2, <1>3, <1>4, <1>5 DEF CatalogInv

(* What is known of the request of a reader.                               *)
LEMMA OneReader ==
    ASSUME CatalogInv, NEW r \in Readers
    PROVE  /\ req[r] \in Reader /\ ReaderOk(req[r]) /\ now \in Nat /\ loadedAt \in Nat /\ epoch \in Nat
           /\ known.version \in Version /\ known.epoch \in Nat /\ services \subseteq Versions
           /\ activeAt \in [Versions -> Nat]
           /\ DOMAIN details \subseteq Versions /\ \A v \in DOMAIN details : details[v] \in Versions
           /\ \A v \in Versions : activeAt[v] <= now
BY DEF CatalogInv, Typed, CatalogTypeOK, Version, Registered

(* What the catalogue knows may be shown to whom it is fresh enough for.   *)
LEMMA KnownRecent ==
    ASSUME CatalogInv, NEW q \in Reader, q.start < loadedAt + Ttl, known.version # NoVersion
    PROVE  Recent(q, known.version)
BY DEF CatalogInv, Typed, CatalogTypeOK, Known, Recent, Reader, Version

LEMMA AskStep == ASSUME CatalogInv, NEW r \in Readers, NEW page \in Pages, page \in BOOLEAN, Ask(r, page)
                 PROVE  CatalogInv'
<1> DEFINE q == [NoRequest EXCEPT !.pc = "refresh", !.page = page, !.start = now]
<1>1. req' = [req EXCEPT ![r] = q] /\ UNCHANGED <<registry, reg, now, catalog, details>>
  BY DEF Ask
<1>2. /\ q \in Reader /\ q.pc = "refresh" /\ q.start = now /\ q.entry = NoVersion
  BY OneReader DEF NoRequest, Reader, ReaderStates, Version
<1> HIDE DEF q
<1>3. ReaderOk(q)
  BY <1>2, OneReader DEF ReaderOk, LoadOk
<1>4. QED BY <1>1, <1>2, <1>3, OneReader, ReaderMoves DEF catalog

LEMMA RefreshStep == ASSUME CatalogInv, NEW r \in Readers, Refresh(r) PROVE CatalogInv'
<1>1. PICK q \in Reader : q = req[r]
  BY OneReader
<1>2. q.pc = "refresh" /\ ReaderOk(q) /\ UNCHANGED <<registry, reg, now, catalog, details>>
  BY <1>1, OneReader DEF Refresh
<1>3. CASE Fresh
  <2>1. q.start < loadedAt + Ttl
    BY <1>2, <1>3, OneReader DEF Fresh, ReaderOk, Reader
  <2>2. PICK p \in Reader : p = Refreshed(q, known.version, services) /\ ReaderOk(p)' /\ p.pc # "loading"
    <3>1. PICK version \in Version, open \in SUBSET Versions : version = known.version /\ open = services
      BY OneReader
    <3>2. version # NoVersion => Recent(q, version)
      BY <2>1, <3>1, KnownRecent
    <3>3. q.page /\ q.entry # NoVersion => Recent(q, q.entry)
      BY <1>2 DEF ReaderOk
    <3>4. /\ Refreshed(q, version, open) \in Reader /\ ReaderOk(Refreshed(q, version, open))'
          /\ Refreshed(q, version, open).pc # "loading"
      BY <1>2, <2>1, <3>2, <3>3, RefreshedOk DEF registry, catalog, ReaderOk
    <3>5. QED BY <3>1, <3>4
  <2>3. req' = [req EXCEPT ![r] = p]
    BY <1>1, <1>3, <2>2 DEF Refresh
  <2>4. ReaderOk(p)
    BY <1>2, <2>2 DEF ReaderOk, LoadOk, Recent, registry, catalog
  <2>5. QED BY <1>2, <2>2, <2>3, <2>4, OneReader, ReaderMoves DEF catalog
<1>4. CASE ~Fresh
  <2> DEFINE p == [q EXCEPT !.pc = "waiting"]
  <2>1. req' = [req EXCEPT ![r] = p]
    BY <1>1, <1>4 DEF Refresh
  <2>2. p \in Reader /\ p.pc = "waiting" /\ p.start = q.start /\ p.page = q.page /\ p.entry = q.entry
    BY DEF Reader, ReaderStates
  <2> HIDE DEF p
  <2>3. ReaderOk(p)
    BY <1>2, <2>2 DEF ReaderOk, LoadOk, Recent
  <2>4. QED BY <1>2, <2>1, <2>2, <2>3, OneReader, ReaderMoves DEF catalog
<1>5. QED BY <1>3, <1>4

LEMMA LoadStep == ASSUME CatalogInv, NEW r \in Readers, Load(r) PROVE CatalogInv'
<1>1. PICK q \in Reader : q = req[r]
  BY OneReader
<1>2. /\ q.pc = "waiting" /\ LoadLockFree /\ ReaderOk(q)
      /\ UNCHANGED <<registry, reg, now, catalog, details>>
  BY <1>1, OneReader DEF Load
<1>3. CASE req' = [req EXCEPT ![r].pc = "failed"]
  <2>1. PICK p \in Reader : p = [q EXCEPT !.pc = "failed"]
    BY DEF Reader, ReaderStates
  <2>2. ReaderOk(p) /\ p.pc # "loading"
    BY <1>2, <2>1 DEF ReaderOk, LoadOk, Recent, Reader
  <2>3. req' = [req EXCEPT ![r] = p]
    BY <1>1, <1>3, <2>1
  <2>4. QED BY <1>2, <2>2, <2>3, OneReader, ReaderMoves DEF catalog
<1>4. CASE req' = [req EXCEPT ![r] = [@ EXCEPT !.pc = "loading", !.readAt = now, !.epoch = epoch,
                                               !.got = ActiveVersion]]
  <2>1. PICK v \in Version : v = ActiveVersion /\ (v # NoVersion => status[v] = "active")
    BY DEF ActiveVersion, Active, Version
  <2>2. PICK p \in Reader : p = [q EXCEPT !.pc = "loading", !.readAt = now, !.epoch = epoch, !.got = v]
    BY OneReader DEF Reader, ReaderStates
  <2>3. /\ p.pc = "loading" /\ p.readAt = now /\ p.epoch = epoch /\ p.got = v
        /\ p.start = q.start /\ p.page = q.page /\ p.entry = q.entry
    BY <2>2 DEF Reader
  <2>4. LoadOk(p)
    BY <1>2, <2>1, <2>3, OneReader DEF LoadOk, ReaderOk, CatalogInv, Known
  <2>5. ReaderOk(p)
    BY <1>2, <2>3, <2>4 DEF ReaderOk, Recent
  <2>6. req' = [req EXCEPT ![r] = p]
    BY <1>1, <1>4, <2>1, <2>2
  <2>7. QED BY <1>2, <2>5, <2>6, OneReader, ReaderMoves DEF catalog
<1>5. QED BY <1>3, <1>4 DEF Load

(* The reader that ends its read replaces what the catalogue knows; no     *)
(* other one is reading.                                                   *)
LEMMA LoadedStep == ASSUME CatalogInv, NEW r \in Readers, Loaded(r) PROVE CatalogInv'
<1>1. PICK q \in Reader : q = req[r]
  BY OneReader
<1>2. /\ q.pc = "loading" /\ ReaderOk(q) /\ UNCHANGED <<registry, reg, now, details>>
      /\ known' = [version |-> q.got, epoch |-> q.epoch] /\ loadedAt' = now
      /\ services' = services \cap {q.got}
  BY <1>1, OneReader DEF Loaded
<1>3. \A s \in Readers : s # r => req[s].pc # "loading"
  BY <1>1, <1>2 DEF CatalogInv, Known
<1>4. /\ q.got \in Version /\ q.epoch \in Nat /\ q.start \in Nat /\ q.readAt \in Nat
      /\ q.epoch <= epoch /\ q.start <= q.readAt /\ q.readAt <= now /\ now <= q.readAt + Latency
      /\ q.got # NoVersion => status[q.got] = "active" \/ q.readAt <= activeAt[q.got]
  BY <1>2 DEF Reader, ReaderOk, LoadOk
<1>5. PICK p \in Reader : /\ req' = [req EXCEPT ![r] = p] /\ ReaderOk(p)' /\ p.pc # "loading"
  <2>1. PICK b \in Reader : b = [q EXCEPT !.got = NoVersion, !.epoch = 0, !.readAt = 0]
    BY DEF Reader, Version
  <2>2. /\ b.pc = "loading" /\ b.start = q.start /\ b.page = q.page /\ b.entry = q.entry
    BY <1>2, <2>1 DEF Reader
  <2>3. PICK version \in Version, open \in SUBSET Versions : version = q.got /\ open = services'
    BY <1>2, <1>4, OneReader
  <2>4. version # NoVersion => Recent(b, version)
    BY <1>4, <2>2, <2>3, OneReader DEF Recent, Version
  <2>5. b.page /\ b.entry # NoVersion => Recent(b, b.entry)
    BY <1>2, <2>2 DEF ReaderOk, Recent
  <2>6. b.start <= now /\ b.start < loadedAt' + Ttl
    BY <1>2, <1>4, <2>2, OneReader
  <2>7. /\ Refreshed(b, version, open) \in Reader /\ ReaderOk(Refreshed(b, version, open))'
        /\ Refreshed(b, version, open).pc # "loading"
    BY <1>2, <2>2, <2>4, <2>5, <2>6, RefreshedOk DEF registry
  <2>8. req' = [req EXCEPT ![r] = Refreshed(b, version, open)]
    BY <1>1, <2>1, <2>3 DEF Loaded
  <2>9. QED BY <2>7, <2>8
<1>6. req' \in [Readers -> Reader] /\ \A s \in Readers : req'[s] = IF s = r THEN p ELSE req[s]
  BY <1>5 DEF CatalogInv, Typed
<1>7. Typed'
  BY <1>2, <1>4, <1>6, OneReader DEF CatalogInv, Typed, CatalogTypeOK, Version, registry
<1>8. Registered'
  BY <1>2 DEF CatalogInv, Registered, AsRead, Active, registry
<1>9. Known'
  <2>1. \A s \in Readers : req'[s].pc # "loading"
    BY <1>3, <1>5, <1>6
  <2>2. known'.version = q.got /\ known'.epoch = q.epoch
    BY <1>2
  <2>3. q.got # NoVersion => status[q.got] = "active" \/ now <= activeAt[q.got] + Latency
    BY <1>4, OneReader DEF Version
  <2>4. QED BY <1>2, <1>4, <2>1, <2>2, <2>3, OneReader DEF Known, registry
<1>10. ASSUME NEW s \in Readers, s # r PROVE ReaderOk(req[s])'
  <2>1. req'[s] = req[s] /\ req[s] \in Reader /\ ReaderOk(req[s]) /\ req[s].pc # "loading"
    BY <1>3, <1>6, <1>10, OneReader
  <2>2. loadedAt <= loadedAt'
    BY <1>2 DEF CatalogInv, Known
  <2>3. QED BY <1>2, <2>1, <2>2, OneReader DEF ReaderOk, LoadOk, Recent, Reader, registry
<1>11. QED BY <1>5, <1>6, <1>7, <1>8, <1>9, <1>10 DEF CatalogInv

LEMMA FetchedStep == ASSUME CatalogInv, NEW r \in Readers, Fetched(r) PROVE CatalogInv'
<1>1. PICK q \in Reader : q = req[r]
  BY OneReader
<1>2. /\ q.pc = "fetching" /\ ReaderOk(q) /\ q.got \in Versions
      /\ UNCHANGED <<registry, reg, now, known, loadedAt, details>>
  BY <1>1, OneReader DEF Fetched, ReaderOk
<1>3. CASE req' = [req EXCEPT ![r].pc = "failed"] /\ UNCHANGED services
  <2>1. PICK p \in Reader : p = [q EXCEPT !.pc = "failed"]
    BY DEF Reader, ReaderStates
  <2>2. ReaderOk(p) /\ p.pc # "loading"
    BY <1>2, <2>1 DEF ReaderOk, LoadOk, Recent, Reader
  <2>3. req' = [req EXCEPT ![r] = p]
    BY <1>1, <1>3, <2>1
  <2>4. QED BY <1>2, <1>3, <2>2, <2>3, OneReader, ReaderMoves
<1>4. CASE services' = services \cup {q.got} /\ req' = [req EXCEPT ![r] = Served(@, q.got)]
  <2>1. PICK p \in Reader : p = Served(q, q.got)
    BY DEF Served, Reader, ReaderStates
  <2>2. /\ p.pc = (IF q.page THEN "structure" ELSE "done") /\ p.got = q.got
        /\ p.start = q.start /\ p.page = q.page /\ p.entry = q.entry
    BY <2>1 DEF Served, Reader
  <2>3. ReaderOk(p) /\ p.pc # "loading"
    BY <1>2, <2>2 DEF ReaderOk, LoadOk, Recent
  <2>4. req' = [req EXCEPT ![r] = p]
    BY <1>1, <1>4, <2>1
  <2>5. services' \subseteq Versions
    BY <1>2, <1>4, OneReader
  <2>6. QED BY <1>2, <2>3, <2>4, <2>5, OneReader, ReaderMoves
<1>5. QED BY <1>1, <1>3, <1>4 DEF Fetched

LEMMA ListEntryStep == ASSUME CatalogInv, NEW r \in Readers, ListEntry(r) PROVE CatalogInv'
<1>1. PICK q \in Reader : q = req[r]
  BY OneReader
<1>2. /\ q.pc = "listing" /\ ReaderOk(q) /\ q.page /\ q.start < loadedAt + Ttl
      /\ UNCHANGED <<registry, reg, now, catalog, details>>
  BY <1>1, OneReader DEF ListEntry, ReaderOk
<1>3. PICK v \in Version : v = known.version /\ (v # NoVersion => Recent(q, v))
  BY <1>2, OneReader, KnownRecent
<1>4. CASE v = NoVersion
  <2>1. PICK p \in Reader : p = [q EXCEPT !.pc = "unknown"]
    BY DEF Reader, ReaderStates
  <2>2. ReaderOk(p) /\ p.pc # "loading"
    BY <1>2, <2>1 DEF ReaderOk, LoadOk, Recent, Reader
  <2>3. req' = [req EXCEPT ![r] = p]
    BY <1>1, <1>3, <1>4, <2>1 DEF ListEntry
  <2>4. QED BY <1>2, <2>2, <2>3, OneReader, ReaderMoves DEF catalog
<1>5. CASE v # NoVersion /\ v \in DOMAIN details
  <2>1. PICK p \in Reader : p = [q EXCEPT !.pc = "done", !.entry = v, !.got = details[v]]
    BY <1>5, OneReader DEF Reader, ReaderStates, Version
  <2>2. p.pc = "done" /\ p.entry = v /\ p.start = q.start /\ p.page
    BY <1>2, <2>1 DEF Reader
  <2>3. ReaderOk(p) /\ p.pc # "loading"
    BY <1>2, <1>3, <1>5, <2>2 DEF ReaderOk, LoadOk, Recent
  <2>4. req' = [req EXCEPT ![r] = p]
    BY <1>1, <1>3, <1>5, <2>1 DEF ListEntry
  <2>5. QED BY <1>2, <2>3, <2>4, OneReader, ReaderMoves DEF catalog
<1>6. CASE v # NoVersion /\ v \notin DOMAIN details
  <2>1. PICK p \in Reader : p = [q EXCEPT !.pc = "refresh", !.entry = v]
    BY DEF Reader, ReaderStates
  <2>2. p.pc = "refresh" /\ p.entry = v /\ p.start = q.start
    BY <2>1 DEF Reader
  <2>3. ReaderOk(p) /\ p.pc # "loading"
    BY <1>2, <1>3, <1>6, <2>2 DEF ReaderOk, LoadOk, Recent
  <2>4. req' = [req EXCEPT ![r] = p]
    BY <1>1, <1>3, <1>6, <2>1 DEF ListEntry
  <2>5. QED BY <1>2, <2>3, <2>4, OneReader, ReaderMoves DEF catalog
<1>7. QED BY <1>4, <1>5, <1>6

LEMMA StructureStep == ASSUME CatalogInv, NEW r \in Readers, Structure(r) PROVE CatalogInv'
<1>1. PICK q \in Reader : q = req[r]
  BY OneReader
<1>2. /\ q.pc = "structure" /\ ReaderOk(q) /\ q.page /\ q.got \in Versions /\ q.entry \in Versions
      /\ UNCHANGED <<registry, reg, now, known, loadedAt, services>>
  BY <1>1, OneReader DEF Structure, ReaderOk, catalog
<1>3. \A goes \in {"failed", "done"} : \E p \in Reader :
        p = [q EXCEPT !.pc = goes] /\ ReaderOk(p) /\ p.pc # "loading"
  <2> TAKE goes \in {"failed", "done"}
  <2>1. PICK p \in Reader : p = [q EXCEPT !.pc = goes]
    BY DEF Reader, ReaderStates
  <2>2. p.pc = goes /\ p.start = q.start /\ p.page = q.page /\ p.entry = q.entry
    BY <2>1 DEF Reader
  <2>3. ReaderOk(p) /\ p.pc # "loading"
    BY <1>2, <2>2 DEF ReaderOk, LoadOk, Recent
  <2>4. QED BY <2>1, <2>3
<1>4. CASE req' = [req EXCEPT ![r].pc = "failed"] /\ UNCHANGED details
  <2>1. PICK p \in Reader : p = [q EXCEPT !.pc = "failed"] /\ ReaderOk(p) /\ p.pc # "loading"
    BY <1>3
  <2>2. req' = [req EXCEPT ![r] = p]
    BY <1>1, <1>4, <2>1
  <2>3. QED BY <1>2, <1>4, <2>1, <2>2, OneReader, ReaderMoves
<1>5. CASE details' = [v \in {q.entry} |-> q.got] /\ req' = [req EXCEPT ![r].pc = "done"]
  <2>1. PICK p \in Reader : p = [q EXCEPT !.pc = "done"] /\ ReaderOk(p) /\ p.pc # "loading"
    BY <1>3
  <2>2. req' = [req EXCEPT ![r] = p]
    BY <1>1, <1>5, <2>1
  <2>3. DOMAIN details' \subseteq Versions /\ \A v \in DOMAIN details' : details'[v] \in Versions
    BY <1>2, <1>5
  <2>4. QED BY <1>2, <2>1, <2>2, <2>3, OneReader, ReaderMoves
<1>6. QED BY <1>1, <1>4, <1>5 DEF Structure

(* CatalogInv is inductive. *)
LEMMA CatalogStep == CatalogInv /\ [CatalogNext]_catalogVars => CatalogInv'
<1> SUFFICES ASSUME CatalogInv, [CatalogNext]_catalogVars PROVE CatalogInv'
  OBVIOUS
<1>1. CASE UNCHANGED catalogVars
  BY <1>1 DEF catalogVars, registry, catalog, CatalogInv, Typed, CatalogTypeOK, Registered, AsRead,
              Active, Known, ReaderOk, LoadOk, Recent
<1>2. ASSUME NEW r \in Readers, Reading(r) PROVE CatalogInv'
  BY <1>2, AskStep, RefreshStep, LoadStep, LoadedStep, FetchedStep, ListEntryStep, StructureStep DEF Reading
<1>3. ASSUME NEW c \in Callers, Registering(c) PROVE CatalogInv'
  BY <1>3, RegisterStep, CommitStep, AbortStep DEF Registering
<1>4. QED BY <1>1, <1>2, <1>3, TickStep DEF CatalogNext

(* CatalogInv holds in every reachable state. *)
THEOREM CatalogSafety == CatalogSpec => []CatalogInv
<1>1. CatalogInit => CatalogInv
  BY DEF CatalogInit, CatalogInv, Typed, CatalogTypeOK, Registered, AsRead, Active, Known, ReaderOk,
         LoadOk, Recent, Idle, NoRequest, Reader, ReaderStates, Version
<1>2. QED BY <1>1, CatalogStep, PTL DEF CatalogSpec

(* Registrations are kept apart and answered truly, and a reader is shown  *)
(* what was active not long before it asked.                               *)
THEOREM CatalogServes == CatalogSpec => []CatalogRight
<1>1. CatalogInv => CatalogRight
  <2> SUFFICES ASSUME CatalogInv PROVE CatalogRight
    OBVIOUS
  <2>1. RegistersCleanly /\ AnsweredTruly
    BY DEF CatalogInv, Registered, AsRead, RegistersCleanly, AnsweredTruly
  <2>2. ServedFresh
    BY OneReader DEF ServedFresh, ReaderOk, Recent
  <2>3. QED BY <2>1, <2>2 DEF CatalogInv, Typed, CatalogRight
<1>2. QED BY <1>1, CatalogSafety, PTL

(* What a process knows of the registry never becomes older.               *)
THEOREM NeverGoesBack == CatalogSpec => NeverOlder
<1>1. CatalogInv /\ [CatalogNext]_catalogVars => [known'.epoch >= known.epoch]_catalogVars
  <2> SUFFICES ASSUME CatalogInv, CatalogNext PROVE known'.epoch >= known.epoch
    OBVIOUS
  <2>1. known.epoch \in Nat
    BY DEF CatalogInv, Typed, CatalogTypeOK
  <2>2. ASSUME NEW r \in Readers, Loaded(r) PROVE known'.epoch >= known.epoch
    <3>1. known'.epoch = req[r].epoch /\ req[r].pc = "loading"
      BY <2>2 DEF Loaded
    <3>2. QED BY <3>1, OneReader DEF ReaderOk, LoadOk, Reader
  <2>3. \/ UNCHANGED known
        \/ \E r \in Readers : Loaded(r)
    BY DEF CatalogNext, CatalogTick, Registering, Register, Commit, Abort, Reading, Ask, Refresh, Load,
           Fetched, ListEntry, Structure, catalog
  <2>4. QED BY <2>1, <2>2, <2>3
<1>2. QED BY <1>1, CatalogSafety, PTL DEF CatalogSpec, NeverOlder
=============================================================================
