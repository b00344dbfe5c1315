----------------------------- MODULE Inputs_proof -----------------------------
(***************************************************************************)
(* Machine-checked proofs about what an ingestion takes from outside: the  *)
(* pinned bytes (ArtifactFetch), for every set of references and objects,  *)
(* every maximal size and every way the bytes arrive, and the dataset it   *)
(* writes to (IngestionBinding), for every set of jobs and settings, any   *)
(* datasets at the provider and any page size; and about what the command  *)
(* answers that reads Beat's activity file (SchedulerActivity), for any    *)
(* number of processes, boots, suspensions, ticks and sendings.            *)
(***************************************************************************)
EXTENDS ArtifactFetch, IngestionBinding, SchedulerActivity, SequenceTheorems, TLAPS

(* Bytes are kept in sequences, and a request follows an acceptable        *)
(* reference.                                                              *)
Bytes ==
    /\ objects \in [Versions -> Objects]
    /\ got \in Seq(Nat) /\ coming \in Seq(Nat) /\ copy \in Seq(Nat)
    /\ pc \in {"check", "head", "get", "stream", "fetched", "verifying", "verified", "refused"}
    /\ pc \notin {"check", "refused"} => Len(refs) = 1 /\ Ref.size \in 1 .. MaxSize

(* What has arrived and what has not make up the provider's copy while it  *)
(* is verified; what is handed on is the pinned content.                   *)
Fetching ==
    /\ content # Missing => content = Ref.sha256
    /\ pc \in {"fetched", "verifying", "verified"} => content = Ref.sha256
    /\ pc = "verifying" => got \o coming = copy
    /\ pc = "verified" => copy = Ref.sha256
    /\ pc \notin {"stream", "verifying", "verified"} => got = <<>>

FetchInv == Bytes /\ Fetching /\ Kept

(* Joining three runs of bytes, from the left or from the right. *)
LEMMA Joined ==
    ASSUME NEW s \in Seq(Nat), NEW a \in Seq(Nat), NEW b \in Seq(Nat)
    PROVE  (s \o a) \o b = s \o (a \o b)
<1> DEFINE left == (s \o a) \o b  right == s \o (a \o b)
<1>1. /\ Len(s) \in Nat /\ Len(a) \in Nat /\ Len(b) \in Nat
      /\ s \o a \in Seq(Nat) /\ a \o b \in Seq(Nat)
      /\ Len(s \o a) = Len(s) + Len(a) /\ Len(a \o b) = Len(a) + Len(b)
  BY LenProperties, ConcatProperties
<1>2. /\ left \in Seq(Nat) /\ right \in Seq(Nat)
      /\ Len(left) = Len(s) + Len(a) + Len(b) /\ Len(right) = Len(s) + Len(a) + Len(b)
  BY <1>1, ConcatProperties
<1>a. /\ \A i \in 1 .. Len(s) + Len(a) + Len(b) :
           left[i] = IF i <= Len(s) + Len(a) THEN (s \o a)[i] ELSE b[i - (Len(s) + Len(a))]
      /\ \A i \in 1 .. Len(s) + Len(a) : (s \o a)[i] = IF i <= Len(s) THEN s[i] ELSE a[i - Len(s)]
  BY <1>1, ConcatProperties
<1>b. /\ \A i \in 1 .. Len(s) + (Len(a) + Len(b)) :
           right[i] = IF i <= Len(s) THEN s[i] ELSE (a \o b)[i - Len(s)]
      /\ \A i \in 1 .. Len(a) + Len(b) : (a \o b)[i] = IF i <= Len(a) THEN a[i] ELSE b[i - Len(a)]
  BY <1>1, ConcatProperties
<1> HIDE DEF left, right
<1>3. ASSUME NEW i \in 1 .. Len(left) PROVE left[i] = right[i]
  <2> DEFINE ls == Len(s)  la == Len(a)  lb == Len(b)
  <2>0. /\ ls \in Nat /\ la \in Nat /\ lb \in Nat /\ i \in 1 .. ls + la + lb /\ i \in 1 .. ls + (la + lb)
        /\ left[i] = IF i <= ls + la THEN (s \o a)[i] ELSE b[i - (ls + la)]
        /\ right[i] = IF i <= ls THEN s[i] ELSE (a \o b)[i - ls]
    <3>1. ls \in Nat /\ la \in Nat /\ lb \in Nat /\ i \in 1 .. ls + la + lb /\ i \in 1 .. ls + (la + lb)
      BY <1>1, <1>2
    <3>2. QED BY <3>1, <1>a, <1>b
  <2>1. CASE i <= Len(s)
    <3>1. i \in 1 .. ls + la /\ i <= ls + la
      BY <2>0, <2>1
    <3>2. (s \o a)[i] = IF i <= ls THEN s[i] ELSE a[i - ls]
      BY <3>1, <1>a
    <3>3. QED BY <2>0, <2>1, <3>1, <3>2
  <2>2. CASE i > Len(s) /\ i <= Len(s) + Len(a)
    <3>1. i \in 1 .. ls + la /\ i - ls \in 1 .. la + lb /\ i - ls <= la /\ ~(i <= ls)
      BY <2>0, <2>2
    <3>2. (s \o a)[i] = IF i <= ls THEN s[i] ELSE a[i - ls]
      BY <3>1, <1>a
    <3>3. (a \o b)[i - ls] = IF i - ls <= la THEN a[i - ls] ELSE b[(i - ls) - la]
      BY <3>1, <1>b
    <3>4. QED BY <2>0, <2>2, <3>1, <3>2, <3>3
  <2>3. CASE i > Len(s) + Len(a)
    <3>1. i - ls \in 1 .. la + lb /\ ~(i - ls <= la) /\ ~(i <= ls) /\ ~(i <= ls + la)
      BY <2>0, <2>3
    <3>2. (a \o b)[i - ls] = IF i - ls <= la THEN a[i - ls] ELSE b[(i - ls) - la]
      BY <3>1, <1>b
    <3>3. (i - ls) - la = i - (ls + la)
      BY <2>0
    <3>4. QED BY <2>0, <3>1, <3>2, <3>3
  <2>4. i <= ls \/ (i > ls /\ i <= ls + la) \/ i > ls + la
    BY <2>0
  <2>5. QED BY <2>1, <2>2, <2>3, <2>4
<1>4. QED BY <1>2, <1>3, SeqEqual, Zenon DEF left, right

(* Moving bytes from one sequence to the other keeps their concatenation.  *)
LEMMA Moved ==
    ASSUME NEW s \in Seq(Nat), NEW t \in Seq(Nat), NEW n \in 1 .. Len(t)
    PROVE  /\ s \o SubSeq(t, 1, n) \in Seq(Nat)
           /\ SubSeq(t, n + 1, Len(t)) \in Seq(Nat)
           /\ Len(s \o SubSeq(t, 1, n)) = Len(s) + n
           /\ (s \o SubSeq(t, 1, n)) \o SubSeq(t, n + 1, Len(t)) = s \o t
<1>1. Len(t) \in Nat /\ n \in Nat /\ \A i \in 1 .. Len(t) : t[i] \in Nat
  BY LenProperties, ElementOfSeq
<1>2. SubSeq(t, 1, n) \in Seq(Nat) /\ Len(SubSeq(t, 1, n)) = n
  BY <1>1, SubSeqProperties
<1>3. SubSeq(t, n + 1, Len(t)) \in Seq(Nat)
  BY <1>1, SubSeqProperties
<1>4. SubSeq(t, 1, n) \o SubSeq(t, n + 1, Len(t)) = t
  <2>1. SubSeq(t, 1, n) \o SubSeq(t, n + 1, Len(t)) = SubSeq(t, 1, Len(t))
    BY <1>1, ConcatAdjacentSubSeq
  <2>2. QED BY <2>1, SubSeqFull
<1>5. (s \o SubSeq(t, 1, n)) \o SubSeq(t, n + 1, Len(t)) = s \o t
  <2> DEFINE a == SubSeq(t, 1, n)  b == SubSeq(t, n + 1, Len(t))
  <2> HIDE DEF a, b
  <2>1. a \in Seq(Nat) /\ b \in Seq(Nat) /\ a \o b = t
    BY <1>2, <1>3, <1>4 DEF a, b
  <2>2. (s \o a) \o b = s \o (a \o b)
    BY <2>1, Joined
  <2>3. (s \o a) \o b = s \o t
    BY <2>1, <2>2
  <2>4. QED BY <2>3 DEF a, b
<1>6. QED BY <1>2, <1>3, <1>5, ConcatProperties

USE ArtifactAssumption

(* A refusal drops everything. *)
LEMMA RefusedKeeps ==
    ASSUME FetchInv, Refused, UNCHANGED <<refs, copy>>, objects' \in [Versions -> Objects]
    PROVE  FetchInv'
<1>1. pc' = "refused" /\ coming' = <<>> /\ got' = <<>> /\ content' = Missing
  BY DEF Refused
<1>2. <<>> \in Seq(Nat) /\ Len(<<>>) = 0
  BY EmptySeq
<1>3. QED BY <1>1, <1>2 DEF FetchInv, Bytes, Fetching, Kept, Ref

(* FetchInv is inductive. *)
LEMMA StepFetch == FetchInv /\ [ArtifactNext]_artifactVars => FetchInv'
<1> SUFFICES ASSUME FetchInv, [ArtifactNext]_artifactVars PROVE FetchInv'
  OBVIOUS
<1>0. /\ <<>> \in Seq(Nat) /\ Len(<<>>) = 0
      /\ objects \in [Versions -> Objects]
      /\ got \in Seq(Nat) /\ coming \in Seq(Nat) /\ copy \in Seq(Nat)
  BY EmptySeq DEF FetchInv, Bytes
<1>1. CASE CheckReference
  <2>1. CASE Acceptable(refs)
    BY <1>0, <1>1, <2>1 DEF CheckReference, Acceptable, FetchInv, Bytes, Fetching, Kept, Ref
  <2>2. CASE ~Acceptable(refs)
    BY <1>0, <1>1, <2>2, RefusedKeeps DEF CheckReference
  <2>3. QED BY <2>1, <2>2
<1>2. CASE AskHead
  <2>1. PICK a \in Answers :
          IF HeadersMatch(a) THEN pc' = "get" /\ UNCHANGED <<coming, got, content>> ELSE Refused
    BY <1>2 DEF AskHead
  <2>2. CASE HeadersMatch(a)
    BY <1>0, <1>2, <2>1, <2>2 DEF AskHead, FetchInv, Bytes, Fetching, Kept, Ref
  <2>3. CASE ~HeadersMatch(a)
    BY <1>0, <1>2, <2>1, <2>3, RefusedKeeps DEF AskHead
  <2>4. QED BY <2>2, <2>3
<1>3. CASE Get
  <2>1. PICK a \in Answers :
          IF HeadersMatch(a)
          THEN pc' = "stream" /\ coming' = a.of.body /\ got' = <<>> /\ UNCHANGED content
          ELSE Refused
    BY <1>3 DEF Get
  <2>2. a.of \in Objects
    BY <1>0 DEF Answers
  <2>3. a.of.body \in Seq(Nat)
    BY <2>2
  <2>4. CASE HeadersMatch(a)
    BY <1>0, <1>3, <2>1, <2>3, <2>4 DEF Get, FetchInv, Bytes, Fetching, Kept, Ref
  <2>5. CASE ~HeadersMatch(a)
    BY <1>0, <1>3, <2>1, <2>5, RefusedKeeps DEF Get
  <2>6. QED BY <2>4, <2>5
<1>4. CASE Arrive
  <2>1. PICK n \in 1 .. MaxChunk :
          /\ n <= Len(coming)
          /\ IF TooLong(Len(got) + n) THEN Refused
             ELSE /\ got' = got \o SubSeq(coming, 1, n)
                  /\ coming' = SubSeq(coming, n + 1, Len(coming))
                  /\ UNCHANGED <<pc, content>>
    BY <1>4 DEF Arrive
  <2>2. Len(coming) \in Nat /\ Len(got) \in Nat
    BY <1>0, LenProperties
  <2>3. n \in 1 .. Len(coming)
    BY <2>1, <2>2
  <2>4. CASE TooLong(Len(got) + n)
    BY <1>0, <1>4, <2>1, <2>4, RefusedKeeps DEF Arrive
  <2>5. CASE ~TooLong(Len(got) + n)
    <3>1. /\ got' \in Seq(Nat) /\ coming' \in Seq(Nat)
          /\ Len(got') = Len(got) + n /\ got' \o coming' = got \o coming
      <4>1. /\ got \o SubSeq(coming, 1, n) \in Seq(Nat)
            /\ SubSeq(coming, n + 1, Len(coming)) \in Seq(Nat)
            /\ Len(got \o SubSeq(coming, 1, n)) = Len(got) + n
            /\ (got \o SubSeq(coming, 1, n)) \o SubSeq(coming, n + 1, Len(coming)) = got \o coming
        BY <1>0, <2>3, Moved
      <4>2. got' = got \o SubSeq(coming, 1, n) /\ coming' = SubSeq(coming, n + 1, Len(coming))
        BY <2>1, <2>5
      <4>3. QED BY <4>1, <4>2, Zenon
    <3>2. /\ UNCHANGED <<refs, objects, copy, pc, content>> /\ pc \in {"stream", "verifying"}
          /\ Ref' = Ref /\ Ref.size \in 1 .. MaxSize
      BY <1>4, <2>1, <2>5 DEF Arrive, FetchInv, Bytes, Ref
    <3>3. Len(got') <= Ref.size /\ Ref.size <= MaxSize
      BY <2>1, <2>2, <2>5, <3>1, <3>2 DEF TooLong
    <3>4. Kept'
      BY <2>2, <3>1, <3>2, <3>3 DEF Kept
    <3>5. QED BY <1>0, <3>1, <3>2, <3>4 DEF FetchInv, Bytes, Fetching
  <2>6. QED BY <2>4, <2>5
<1>5. CASE Fetched
  <2>1. CASE Matches(got)
    BY <1>0, <1>5, <2>1 DEF Fetched, Matches, FetchInv, Bytes, Fetching, Kept, Ref
  <2>2. CASE ~Matches(got)
    BY <1>0, <1>5, <2>2, RefusedKeeps DEF Fetched
  <2>3. QED BY <2>1, <2>2
<1>6. CASE OpenCopy
  <2>1. <<>> \o copy = copy
    BY <1>0, ConcatEmptySeq
  <2>2. QED BY <1>0, <1>6, <2>1 DEF OpenCopy, FetchInv, Bytes, Fetching, Kept, Ref
<1>7. CASE Verified
  <2>1. CASE Matches(got)
    <3>1. got = copy
      <4>1. got \o <<>> = copy
        BY <1>7 DEF Verified, FetchInv, Fetching
      <4>2. QED BY <1>0, <4>1, ConcatEmptySeq
    <3>2. QED BY <1>0, <1>7, <2>1, <3>1
          DEF Verified, Matches, FetchInv, Bytes, Fetching, Kept, Ref
  <2>2. CASE ~Matches(got)
    BY <1>0, <1>7, <2>2, RefusedKeeps DEF Verified
  <2>3. QED BY <2>1, <2>2
<1>8. CASE Break
  BY <1>0, <1>8, RefusedKeeps DEF Break
<1>9. CASE ReplaceObject
  BY <1>0, <1>9 DEF ReplaceObject, FetchInv, Bytes, Fetching, Kept, Ref
<1>10. CASE UNCHANGED artifactVars
  BY <1>10 DEF artifactVars, FetchInv, Bytes, Fetching, Kept, Ref
<1>11. QED BY <1>1, <1>2, <1>3, <1>4, <1>5, <1>6, <1>7, <1>8, <1>9, <1>10 DEF ArtifactNext

(* FetchInv holds in every reachable state. *)
THEOREM FetchSafety == ArtifactSpec => []FetchInv
<1>1. ArtifactInit => FetchInv
  <2>1. <<>> \in Seq(Nat) /\ Len(<<>>) = 0
    BY EmptySeq
  <2>2. QED BY <2>1 DEF ArtifactInit, FetchInv, Bytes, Fetching, Kept
<1>2. QED BY <1>1, StepFetch, PTL DEF ArtifactSpec

-----------------------------------------------------------------------------
(* While the store and the network have only ever answered with the pinned *)
(* object, what arrives is its content, and only the provider's copy can   *)
(* have been refused.                                                      *)
Unspoilt ==
    /\ refs \in RefLists
    /\ Acceptable(refs) /\ pristine =>
         /\ Ref.version \in Versions => Pins(Ref, objects[Ref.version])
         /\ pc = "stream" => got \o coming = Ref.sha256
         /\ pc = "refused" => copy # Ref.sha256

(* Unspoilt is preserved by every step.                                    *)
LEMMA StepUnspoilt == FetchInv /\ Unspoilt /\ [ArtifactNext]_artifactVars => Unspoilt'
<1> SUFFICES ASSUME FetchInv, Unspoilt, [ArtifactNext]_artifactVars PROVE Unspoilt'
  OBVIOUS
<1>1. refs' = refs /\ copy' = copy
  BY DEF ArtifactNext, CheckReference, AskHead, Get, Arrive, Fetched, OpenCopy, Verified, Break,
         ReplaceObject, artifactVars
<1> SUFFICES ASSUME Acceptable(refs), pristine'
             PROVE  /\ Ref.version \in Versions => Pins(Ref, objects'[Ref.version])
                    /\ pc' = "stream" => got' \o coming' = Ref.sha256
                    /\ pc' = "refused" => copy # Ref.sha256
  BY <1>1 DEF Unspoilt, Acceptable, Ref
<1>2. pristine
  BY DEF ArtifactNext, CheckReference, AskHead, Get, Arrive, Fetched, OpenCopy, Verified, Break,
         ReplaceObject, Honest, artifactVars
<1>3. /\ Ref.version \in Versions => Pins(Ref, objects[Ref.version])
      /\ pc = "stream" => got \o coming = Ref.sha256
      /\ pc = "refused" => copy # Ref.sha256
  BY <1>2 DEF Unspoilt
<1>4. /\ Ref.sha256 \in Seq(Nat) /\ Ref.size = Len(Ref.sha256)
      /\ Ref.size \in 1 .. MaxSize /\ Ref.version # Missing
  <2>1. Len(refs) = 1 /\ 1 \in DOMAIN refs /\ Ref.size \in 1 .. MaxSize /\ Ref.version # Missing
    BY DEF Acceptable, Ref, Unspoilt
  <2>2. QED BY <2>1 DEF Unspoilt, Ref
<1>5. got \in Seq(Nat) /\ coming \in Seq(Nat) /\ copy \in Seq(Nat)
  BY DEF FetchInv, Bytes
<1>6. CASE CheckReference
  BY <1>3, <1>6 DEF CheckReference
<1>7. CASE AskHead
  <2>1. PICK a \in Answers :
          /\ IF HeadersMatch(a) THEN pc' = "get" /\ UNCHANGED <<coming, got, content>> ELSE Refused
          /\ pristine' = Honest(a)
    BY <1>7 DEF AskHead
  <2>2. Ref.version \in Versions /\ a.of = objects[Ref.version] /\ a.id = Ref.version
    <3>1. a.id = Ref.version /\ a.id # Missing
      BY <1>4, <2>1 DEF Honest
    <3>2. PICK u \in Versions : a = [id |-> u, of |-> objects[u]]
      BY <3>1 DEF Answers
    <3>3. QED BY <3>1, <3>2
  <2>3. HeadersMatch(a)
    BY <1>3, <2>2 DEF HeadersMatch, Pins
  <2>4. QED BY <1>3, <1>7, <2>1, <2>3 DEF AskHead
<1>8. CASE Get
  <2>1. PICK a \in Answers :
          /\ IF HeadersMatch(a)
             THEN pc' = "stream" /\ coming' = a.of.body /\ got' = <<>> /\ UNCHANGED content
             ELSE Refused
          /\ pristine' = Honest(a)
    BY <1>8 DEF Get
  <2>2. Ref.version \in Versions /\ a.of = objects[Ref.version] /\ a.id = Ref.version
    <3>1. a.id = Ref.version /\ a.id # Missing
      BY <1>4, <2>1 DEF Honest
    <3>2. PICK u \in Versions : a = [id |-> u, of |-> objects[u]]
      BY <3>1 DEF Answers
    <3>3. QED BY <3>1, <3>2
  <2>3. HeadersMatch(a)
    BY <1>3, <2>2 DEF HeadersMatch, Pins
  <2>4. got' \o coming' = Ref.sha256
    <3>1. got' = <<>> /\ coming' = Ref.sha256
      BY <1>3, <2>1, <2>2, <2>3 DEF Pins
    <3>2. QED BY <1>4, <3>1, ConcatEmptySeq
  <2>5. QED BY <1>3, <1>8, <2>1, <2>3, <2>4 DEF Get
<1>9. CASE Arrive
  <2>1. PICK n \in 1 .. MaxChunk :
          /\ n <= Len(coming)
          /\ IF TooLong(Len(got) + n) THEN Refused
             ELSE /\ got' = got \o SubSeq(coming, 1, n)
                  /\ coming' = SubSeq(coming, n + 1, Len(coming))
                  /\ UNCHANGED <<pc, content>>
    BY <1>9 DEF Arrive
  <2>2. /\ pc \in {"stream", "verifying"} /\ objects' = objects
        /\ Len(coming) \in Nat /\ Len(got) \in Nat /\ n \in 1 .. Len(coming)
        /\ Len(got \o coming) = Len(got) + Len(coming)
    BY <1>5, <1>9, <2>1, LenProperties, ConcatProperties DEF Arrive
  <2>3. CASE TooLong(Len(got) + n)
    <3>1. pc = "verifying"
      <4>1. SUFFICES ASSUME pc = "stream" PROVE FALSE
        BY <2>2
      <4>2. Len(got) + Len(coming) = Ref.size
        BY <1>3, <1>4, <2>2, <4>1
      <4>3. QED BY <1>4, <2>2, <2>3, <4>1, <4>2 DEF TooLong
    <3>2. got \o coming = copy /\ Len(got) + n > Ref.size
      BY <2>3, <3>1 DEF TooLong, FetchInv, Fetching
    <3>3. Len(copy) > Len(Ref.sha256)
      BY <1>4, <2>2, <3>2
    <3>4. pc' = "refused" /\ copy # Ref.sha256
      <4>1. copy # Ref.sha256
        BY <1>4, <3>3
      <4>2. QED BY <2>1, <2>3, <4>1 DEF Refused
    <3>5. QED BY <1>3, <2>2, <3>4
  <2>4. CASE ~TooLong(Len(got) + n)
    <3>1. (got \o SubSeq(coming, 1, n)) \o SubSeq(coming, n + 1, Len(coming)) = got \o coming
      BY <1>5, <2>2, Moved
    <3>2. got' \o coming' = got \o coming /\ pc' = pc
      BY <2>1, <2>4, <3>1, Zenon
    <3>3. QED BY <1>3, <2>2, <3>2
  <2>5. QED BY <2>3, <2>4
<1>10. CASE Fetched
  <2>1. got \o <<>> = Ref.sha256
    BY <1>3, <1>10 DEF Fetched
  <2>2. got = Ref.sha256
    BY <1>5, <2>1, ConcatEmptySeq
  <2>3. Matches(got)
    BY <1>4, <2>2 DEF Matches
  <2>4. QED BY <1>3, <1>10, <2>3 DEF Fetched
<1>11. CASE OpenCopy
  BY <1>3, <1>11 DEF OpenCopy
<1>12. CASE Verified
  <2>1. got \o <<>> = copy
    BY <1>12 DEF Verified, FetchInv, Fetching
  <2>2. got = copy
    BY <1>5, <2>1, ConcatEmptySeq
  <2>3. ~Matches(got) => copy # Ref.sha256
    BY <1>4, <2>2 DEF Matches
  <2>4. QED BY <1>3, <1>12, <2>3 DEF Verified, Refused
<1>13. CASE Break
  BY <1>13 DEF Break
<1>14. CASE ReplaceObject
  <2>1. PICK v \in Versions, o \in Objects :
          /\ objects' = [objects EXCEPT ![v] = o]
          /\ pristine' = (pristine /\ v # Ref.version)
    BY <1>14 DEF ReplaceObject
  <2>2. Ref.version \in Versions => objects'[Ref.version] = objects[Ref.version]
    BY <2>1 DEF FetchInv, Bytes
  <2>3. QED BY <1>3, <1>14, <2>2 DEF ReplaceObject
<1>15. CASE UNCHANGED artifactVars
  BY <1>3, <1>15 DEF artifactVars
<1>16. QED BY <1>6, <1>7, <1>8, <1>9, <1>10, <1>11, <1>12, <1>13, <1>14, <1>15
       DEF ArtifactNext

(* Only the pinned content gets through, no more than it is kept, and it   *)
(* does get through: no check refuses it while store, network and the      *)
(* provider's copy give no reason.                                         *)
THEOREM FetchRight == ArtifactSpec => []ContentRight
<1>1. ArtifactInit => Unspoilt
  <2> SUFFICES ASSUME ArtifactInit, Acceptable(refs), pristine
               PROVE  Unspoilt
    BY DEF ArtifactInit, Unspoilt
  <2>1. 1 \in DOMAIN refs /\ Ref.version # Missing
    BY DEF Acceptable, Ref, ArtifactInit
  <2>2. Ref.version \in Versions => Pins(Ref, objects[Ref.version])
    BY <2>1 DEF ArtifactInit, Ref
  <2>3. QED BY <2>2 DEF ArtifactInit, Unspoilt
<1>2. FetchInv /\ Unspoilt => ContentRight
  BY DEF FetchInv, Bytes, Fetching, Unspoilt, ContentRight, ArtifactTypeOK, Exact, FetchesWhatIsThere
<1>3. QED BY <1>1, <1>2, StepUnspoilt, FetchSafety, PTL DEF ArtifactSpec

HIDE ArtifactAssumption

-----------------------------------------------------------------------------
(***************************************************************************)
(* IngestionBinding.                                                       *)
(***************************************************************************)
USE BindingAssumption

Entry == [status : {"accepted"}, snapshot : Configs]

(* An execution is a record of these fields; the settings, the histories   *)
(* and the journal row are well typed.                                     *)
Shapes ==
    /\ settings \in [{"api", "worker"} -> Configs]
    /\ tenant \in Tenants
    /\ history \in [Jobs -> Seq(Entry)]
    /\ DOMAIN target = Jobs /\ target = [j \in Jobs |-> target[j]]
    /\ op \in OpRow \cup {Unset}
    /\ run = [job |-> run.job, pc |-> run.pc, scope |-> run.scope, page |-> run.page,
              seen |-> run.seen, matches |-> run.matches]
    /\ run.pc \in {"idle", "scope", "page", "conclude"}
    /\ run.page \in 0 .. MaxPages

(* A job under way was accepted under the worker's settings; its lookup is *)
(* at the endpoint of these, and the journal row is of that scope.         *)
UnderWay ==
    /\ run.pc # "idle" => /\ run.job \in Jobs
                          /\ history[run.job] # <<>>
                          /\ Trusted(run.job).snapshot = settings["worker"]
    /\ run.pc \in {"page", "conclude"} =>
          /\ op # Unset /\ op.scope = run.scope
          /\ run.scope.endpoint = settings["worker"].endpoint

(* A target is of an accepted job, and of the journal row's scope. *)
Targets ==
    \A j \in Jobs : target[j] # Unset =>
        /\ history[j] # <<>>
        /\ op # Unset /\ target[j].scope = op.scope
        /\ target[j].dataset = Trusted(j).snapshot.id
        /\ target[j].scope.endpoint = Trusted(j).snapshot.endpoint

BindingInv == Shapes /\ UnderWay /\ Targets

(* No execution is well shaped. *)
LEMMA NoRunShape ==
    /\ NoRun = [job |-> NoRun.job, pc |-> NoRun.pc, scope |-> NoRun.scope,
                page |-> NoRun.page, seen |-> NoRun.seen, matches |-> NoRun.matches]
    /\ NoRun.pc = "idle" /\ NoRun.page = 0
BY DEF NoRun

(* The first entry of a history stays the first one. *)
LEMMA HistoryGrows ==
    ASSUME NEW h \in Seq(Entry), NEW e \in Entry
    PROVE  /\ Append(h, e) \in Seq(Entry) /\ Append(h, e) # <<>>
           /\ h # <<>> => Append(h, e)[1] = h[1]
<1>1. Append(h, e) \in Seq(Entry) /\ Append(h, e) # <<>>
  BY AppendProperties
<1>2. ASSUME h # <<>> PROVE Append(h, e)[1] = h[1]
  <2>1. 1 \in 1 .. Len(h)
    BY <1>2, EmptySeq
  <2>2. QED BY <2>1, AppendProperties
<1>3. QED BY <1>1, <1>2

(* Nothing that these invariants speak of changes. *)
LEMMA Unmoved ==
    ASSUME BindingInv, UNCHANGED <<settings, history, target, op, tenant, run>>
    PROVE  BindingInv'
BY DEF BindingInv, Shapes, UnderWay, Targets, Trusted

(* The execution ends. *)
LEMMA Ends ==
    ASSUME BindingInv, UNCHANGED <<settings, history, target, op, tenant>>, run' = NoRun
    PROVE  BindingInv'
BY NoRunShape DEF BindingInv, Shapes, UnderWay, Targets, Trusted

(* Accepting or updating a job keeps what the others are bound to. *)
LEMMA EntryKeeps ==
    ASSUME BindingInv, NEW j \in Jobs, NEW e \in Entry,
           history' = [history EXCEPT ![j] = Append(history[j], e)],
           UNCHANGED <<settings, target, op, tenant, run>>
    PROVE  BindingInv'
<1>1. history \in [Jobs -> Seq(Entry)]
  BY DEF BindingInv, Shapes
<1>2. history' \in [Jobs -> Seq(Entry)]
  BY <1>1, HistoryGrows
<1>3. \A k \in Jobs : history[k] # <<>> => history'[k] # <<>> /\ history'[k][1] = history[k][1]
  BY <1>1, HistoryGrows
<1>4. QED BY <1>2, <1>3 DEF BindingInv, Shapes, UnderWay, Targets, Trusted

(* BindingInv is inductive. *)
LEMMA StepBinding == BindingInv /\ [BindingNext]_bindingVars => BindingInv'
<1> SUFFICES ASSUME BindingInv, [BindingNext]_bindingVars PROVE BindingInv'
  OBVIOUS
<1>0. Shapes /\ settings["worker"] \in Configs /\ settings["api"] \in Configs
  BY DEF BindingInv, Shapes
<1>1. ASSUME NEW j \in Jobs, Submit(j) PROVE BindingInv'
  <2> DEFINE e == [status |-> "accepted", snapshot |-> settings["api"]]
  <2>1. e \in Entry
    BY <1>0 DEF Entry
  <2>2. Append(history[j], e) = <<e>>
    BY <1>1 DEF Submit
  <2>3. history' = [history EXCEPT ![j] = Append(history[j], e)]
    BY <1>1, <2>2 DEF Submit
  <2> HIDE DEF e
  <2>4. QED BY <1>1, <2>1, <2>3, EntryKeeps DEF Submit
<1>2. ASSUME NEW j \in Jobs, AdminUpdate(j) PROVE BindingInv'
  <2>1. PICK c \in Configs :
          history' = [history EXCEPT ![j] = Append(@, [status |-> "accepted", snapshot |-> c])]
    BY <1>2 DEF AdminUpdate
  <2> DEFINE e == [status |-> "accepted", snapshot |-> c]
  <2>2. e \in Entry
    BY DEF Entry
  <2>3. history' = [history EXCEPT ![j] = Append(history[j], e)]
    BY <1>0, <2>1 DEF Shapes
  <2> HIDE DEF e
  <2>4. QED BY <1>2, <2>2, <2>3, EntryKeeps DEF AdminUpdate
<1>3. ASSUME NEW p \in {"api", "worker"}, Deploy(p) PROVE BindingInv'
  <2>1. /\ settings' \in [{"api", "worker"} -> Configs]
        /\ p = "api" => settings'["worker"] = settings["worker"]
    BY <1>0, <1>3 DEF Deploy, Shapes
  <2>2. CASE p = "worker"
    BY <1>3, <2>1, <2>2, NoRunShape DEF Deploy, BindingInv, Shapes, UnderWay, Targets, Trusted
  <2>3. CASE p = "api"
    BY <1>3, <2>1, <2>3 DEF Deploy, BindingInv, Shapes, UnderWay, Targets, Trusted
  <2>4. QED BY <2>2, <2>3
<1>4. ASSUME NEW j \in Jobs, Begin(j) PROVE BindingInv'
  <2>1. CASE BindingHolds(j)
    <3>1. run' = [NoRun EXCEPT !.job = j, !.pc = "scope"]
      BY <1>4, <2>1 DEF Begin
    <3>2. run' = [job |-> j, pc |-> "scope", scope |-> NoRun.scope, page |-> 0,
                  seen |-> NoRun.seen, matches |-> NoRun.matches]
      BY <3>1 DEF NoRun
    <3>3. history[j] # <<>> /\ Trusted(j).snapshot = settings["worker"]
      BY <1>4, <2>1 DEF Begin, BindingHolds, First, Trusted
    <3>4. UNCHANGED <<settings, history, target, op, tenant>>
      BY <1>4 DEF Begin
    <3>5. QED BY <3>2, <3>3, <3>4 DEF BindingInv, Shapes, UnderWay, Targets, Trusted
  <2>2. CASE ~BindingHolds(j)
    BY <1>4, <2>2, Ends DEF Begin
  <2>3. QED BY <2>1, <2>2
<1>5. CASE Fail
  BY <1>5, Ends DEF Fail
<1>6. CASE Scope
  <2> DEFINE scope == [endpoint |-> settings["worker"].endpoint, tenant |-> tenant]
  <2>1. CASE Conflicts(scope)
    BY <1>6, <2>1, Ends DEF Scope
  <2>2. CASE ~Conflicts(scope)
    <3>1. /\ op' = IF op = Unset THEN [scope |-> scope, receipt |-> Unset] ELSE op
          /\ run' = [run EXCEPT !.pc = "page", !.scope = scope, !.page = 1]
          /\ UNCHANGED <<settings, history, target, tenant>>
      BY <1>6, <2>2 DEF Scope
    <3>2. [scope |-> scope, receipt |-> Unset] \in OpRow
      BY <1>0 DEF OpRow, Shapes
    <3>3. op' \in OpRow /\ op' # Unset /\ op'.scope = scope /\ (op # Unset => op' = op)
      BY <1>0, <2>2, <3>1, <3>2 DEF Conflicts, Shapes
    <3>4. run' = [job |-> run.job, pc |-> "page", scope |-> scope, page |-> 1,
                  seen |-> run.seen, matches |-> run.matches]
      BY <1>0, <3>1 DEF Shapes
    <3>5. run.pc # "idle"
      BY <1>6 DEF Scope
    <3>6. scope.endpoint = settings["worker"].endpoint
      OBVIOUS
    <3> HIDE DEF scope
    <3>7. 1 \in 0 .. MaxPages
      BY BindingAssumption
    <3>8. Shapes'
      BY <1>0, <3>1, <3>3, <3>4, <3>7 DEF Shapes
    <3>9. UnderWay'
      BY <1>0, <3>1, <3>3, <3>4, <3>5, <3>6 DEF BindingInv, UnderWay, Trusted
    <3>10. Targets'
      BY <1>0, <3>1, <3>3 DEF BindingInv, Targets, Trusted
    <3>11. QED BY <3>8, <3>9, <3>10 DEF BindingInv
  <2>3. QED BY <2>1, <2>2
<1>7. CASE Page
  <2>1. /\ UNCHANGED <<settings, history, target, op, tenant>> /\ run.pc = "page"
        /\ \/ run' = NoRun
           \/ \E found : run' = [run EXCEPT !.pc = "conclude", !.matches = found]
           \/ /\ run.page < MaxPages
              /\ \E seen, found :
                   run' = [run EXCEPT !.page = @ + 1, !.seen = seen, !.matches = found]
    BY <1>7 DEF Page
  <2>2. CASE run' = NoRun
    BY <2>1, <2>2, Ends
  <2>3. ASSUME NEW found, run' = [run EXCEPT !.pc = "conclude", !.matches = found]
        PROVE  BindingInv'
    <3>1. run' = [job |-> run.job, pc |-> "conclude", scope |-> run.scope, page |-> run.page,
                  seen |-> run.seen, matches |-> found]
      BY <1>0, <2>3 DEF Shapes
    <3>2. QED BY <2>1, <3>1 DEF BindingInv, Shapes, UnderWay, Targets, Trusted
  <2>4. ASSUME NEW seen, NEW found, run.page < MaxPages,
               run' = [run EXCEPT !.page = @ + 1, !.seen = seen, !.matches = found]
        PROVE  BindingInv'
    <3>1. run' = [job |-> run.job, pc |-> run.pc, scope |-> run.scope, page |-> run.page + 1,
                  seen |-> seen, matches |-> found]
      BY <1>0, <2>4 DEF Shapes
    <3>2. run.page + 1 \in 0 .. MaxPages
      BY <1>0, <2>4 DEF Shapes
    <3>3. QED BY <2>1, <3>1, <3>2 DEF BindingInv, Shapes, UnderWay, Targets, Trusted
  <2>5. QED BY <2>1, <2>2, <2>3, <2>4
<1>8. CASE Conclude
  <2> DEFINE id == settings["worker"].id
  <2>1. CASE IdentifiedDataset(run.matches) /\ Confirmable(id)
    <3>1. /\ op' = [op EXCEPT !.receipt = id]
          /\ target' = [target EXCEPT ![run.job] = [dataset |-> id, scope |-> run.scope]]
          /\ run' = NoRun /\ run.pc = "conclude"
          /\ UNCHANGED <<settings, history, tenant>>
      BY <1>8, <2>1 DEF Conclude
    <3>3. op \in OpRow /\ op.scope = run.scope /\ run.job \in Jobs
      BY <1>0, <3>1 DEF BindingInv, Shapes, UnderWay
    <3>4. op' \in OpRow /\ op'.scope = op.scope /\ op' # Unset
      BY <1>0, <3>1, <3>3 DEF OpRow
    <3>5. /\ target'[run.job] = [dataset |-> id, scope |-> run.scope]
          /\ \A j \in Jobs \ {run.job} : target'[j] = target[j]
          /\ DOMAIN target' = Jobs /\ target' = [j \in Jobs |-> target'[j]]
      BY <1>0, <3>1, <3>3 DEF Shapes
    <3>6. /\ history[run.job] # <<>> /\ Trusted(run.job).snapshot = settings["worker"]
          /\ run.scope.endpoint = settings["worker"].endpoint
      BY <3>1 DEF BindingInv, UnderWay
    <3>7. Targets'
      <4> SUFFICES ASSUME NEW j \in Jobs, target'[j] # Unset
                   PROVE  /\ history'[j] # <<>>
                          /\ op' # Unset /\ target'[j].scope = op'.scope
                          /\ target'[j].dataset = history'[j][1].snapshot.id
                          /\ target'[j].scope.endpoint = history'[j][1].snapshot.endpoint
        BY DEF Targets, Trusted
      <4>1. CASE j = run.job
        BY <3>1, <3>3, <3>4, <3>5, <3>6, <4>1 DEF Trusted
      <4>2. CASE j # run.job
        BY <3>1, <3>4, <3>5, <4>2 DEF BindingInv, Targets, Trusted
      <4>3. QED BY <4>1, <4>2
    <3>8. QED BY <1>0, <3>1, <3>4, <3>5, <3>7, NoRunShape DEF BindingInv, Shapes, UnderWay
  <2>2. CASE ~(IdentifiedDataset(run.matches) /\ Confirmable(id))
    BY <1>8, <2>2, Ends DEF Conclude
  <2>3. QED BY <2>1, <2>2
<1>9. CASE Create \/ Delete
  BY <1>9, Unmoved DEF Create, Delete
<1>10. CASE OtherTenant
  BY <1>10 DEF OtherTenant, BindingInv, Shapes, UnderWay, Targets, Trusted
<1>11. CASE UNCHANGED bindingVars
  BY <1>11, Unmoved DEF bindingVars
<1>12. QED BY <1>1, <1>2, <1>3, <1>4, <1>5, <1>6, <1>7, <1>8, <1>9, <1>10, <1>11
       DEF BindingNext

(* BindingInv holds in every reachable state. *)
THEOREM BindingSafety == BindingSpec => []BindingInv
<1>1. BindingInit => BindingInv
  <2> SUFFICES ASSUME BindingInit PROVE BindingInv
    OBVIOUS
  <2>1. <<>> \in Seq(Entry)
    BY EmptySeq
  <2>2. run = NoRun
    BY DEF BindingInit
  <2>3. QED BY <2>1, <2>2, NoRunShape
        DEF BindingInit, BindingInv, Shapes, UnderWay, Targets
<1>2. QED BY <1>1, StepBinding, PTL DEF BindingSpec

(* Where the lookup stands, and of which scope a target is. *)
THEOREM BindingTyped == BindingSpec => []BindingTypeOK
<1>1. BindingInv => BindingTypeOK
  BY DEF BindingInv, Shapes, Targets, BindingTypeOK
<1>2. QED BY <1>1, BindingSafety, PTL

(* Whatever is deployed, appended to its history or created under the same *)
(* name, a job writes to the dataset and endpoint it was accepted for.     *)
THEOREM Bound == BindingSpec => []BoundAsAccepted
<1>1. BindingInv => BoundAsAccepted
  BY DEF BindingInv, Targets, BoundAsAccepted
<1>2. QED BY <1>1, BindingSafety, PTL

(* The lookup has seen at most the places before its page, and every       *)
(* dataset that was there all along either is among its matches or stands  *)
(* at a place it has still to read; a finished lookup has them all.        *)
Ahead ==
    /\ run.seen \in Nat /\ run.seen <= Before(run.page) /\ run.page \in Nat \ {0}
    /\ \A d \in throughout : \E i \in 1 .. Len(datasets) :
          /\ datasets[i] = [id |-> d, name |-> settings["worker"].name]
          /\ i <= Before(run.page) => [at |-> i, id |-> d] \in run.matches

LookupInv ==
    /\ datasets \in Seq(Listed) /\ deleted \in Nat /\ created \in Nat
    /\ run.pc = "scope" => run.seen = 0 /\ run.matches = {}
    /\ run.pc = "page" /\ deleted = 0 => Ahead
    /\ NoneHidden

(* A page begins where the one before it ends. *)
LEMMA PagesAdjoin ==
    ASSUME NEW n \in Nat \ {0}
    PROVE  Before(n) \in Nat /\ Before(n + 1) = Before(n) + PageSize /\ Before(1) = 0
BY DEF Before

(* What a page contains: the datasets at its places. *)
LEMMA PageItems ==
    ASSUME NEW n \in Nat \ {0}, datasets \in Seq(Listed)
    PROVE  /\ Items(n) \in Seq(Listed) /\ Len(Items(n)) <= PageSize
           /\ \A i \in 1 .. Len(datasets) : Before(n) < i /\ i <= Before(n) + PageSize =>
                 /\ i - Before(n) \in 1 .. Len(Items(n))
                 /\ Items(n)[i - Before(n)] = datasets[i]
<1> DEFINE first == Before(n) + 1
           end == Before(n) + PageSize
           last == IF end > Len(datasets) THEN Len(datasets) ELSE end
<1>1. Before(n) \in Nat /\ Len(datasets) \in Nat
  BY PagesAdjoin, LenProperties
<1>2. first \in 1 .. Len(datasets) + 1 \/ first > Len(datasets) + 1
  BY <1>1
<1>3. last \in Nat /\ last <= Len(datasets) /\ last <= end
  BY <1>1
<1>4. Items(n) = SubSeq(datasets, first, last)
  BY DEF Items
<1>5. CASE first <= last
  <2>1. /\ Items(n) \in Seq(Listed) /\ Len(Items(n)) = last - first + 1
        /\ \A i \in 1 .. last - first + 1 : Items(n)[i] = datasets[first + i - 1]
    BY <1>1, <1>3, <1>4, <1>5, SubSeqProperties
  <2>2. last - first + 1 \in Nat /\ last - first + 1 <= PageSize
    BY <1>1, <1>3, <1>5
  <2>3. ASSUME NEW i \in 1 .. Len(datasets), Before(n) < i, i <= end
        PROVE  i - Before(n) \in 1 .. last - first + 1 /\ first + (i - Before(n)) - 1 = i
    BY <1>1, <1>3, <2>3
  <2> HIDE DEF first, last
  <2>4. QED BY <1>1, <2>1, <2>2, <2>3
<1>6. CASE first > last
  <2>1. Items(n) = <<>>
    BY <1>1, <1>3, <1>4, <1>6, SubSeqEmpty
  <2>2. <<>> \in Seq(Listed) /\ Len(<<>>) = 0
    BY EmptySeq
  <2>3. \A i \in 1 .. Len(datasets) : ~(Before(n) < i /\ i <= end)
    BY <1>1, <1>6
  <2> HIDE DEF first, last
  <2>4. QED BY <1>1, <2>1, <2>2, <2>3
<1>7. QED BY <1>1, <1>3, <1>5, <1>6

(* A page read while a lookup is under way leaves nothing out behind it. *)
LEMMA PageRead ==
    ASSUME Ahead, datasets \in Seq(Listed),
           NEW found, found = run.matches \cup Matching(Items(run.page), settings["worker"].name)
    PROVE  \A d \in throughout : \E i \in 1 .. Len(datasets) :
              /\ datasets[i] = [id |-> d, name |-> settings["worker"].name]
              /\ i <= Before(run.page) + PageSize => [at |-> i, id |-> d] \in found
<1> DEFINE items == Items(run.page)
           name == settings["worker"].name
           b == Before(run.page)
<1>1. b \in Nat /\ run.page \in Nat \ {0}
  BY PagesAdjoin DEF Ahead
<1> SUFFICES ASSUME NEW d \in throughout
             PROVE  \E i \in 1 .. Len(datasets) :
                       /\ datasets[i] = [id |-> d, name |-> name]
                       /\ i <= b + PageSize => [at |-> i, id |-> d] \in found
  OBVIOUS
<1>2. PICK i \in 1 .. Len(datasets) :
        /\ datasets[i] = [id |-> d, name |-> name]
        /\ i <= b => [at |-> i, id |-> d] \in run.matches
  BY DEF Ahead
<1>3. ASSUME b < i, i <= b + PageSize PROVE [at |-> i, id |-> d] \in found
  <2> DEFINE k == i - b
  <2>1. k \in 1 .. Len(items) /\ items[k] = datasets[i] /\ items \in Seq(Listed)
    BY <1>1, <1>3, PageItems
  <2>2. k \in DOMAIN items /\ b + k = i
    BY <1>1, <2>1, LenProperties
  <2>3. items[k].id = d /\ items[k].name = name
    BY <1>2, <2>1
  <2> HIDE DEF k, items, name
  <2>4. [at |-> b + k, id |-> items[k].id] \in Matching(items, name)
    BY <2>2, <2>3 DEF Matching
  <2>5. QED BY <2>2, <2>3, <2>4 DEF items, name
<1>4. QED BY <1>1, <1>2, <1>3

(* A sequence that loses an entry is one of the same entries. *)
LEMMA Removal ==
    ASSUME NEW S, NEW s \in Seq(S), NEW i \in DOMAIN s
    PROVE  RemoveAt(s, i) \in Seq(S)
<1>1. i \in 1 .. Len(s) /\ Len(s) \in Nat
  BY LenProperties
<1>2. SubSeq(s, 1, i - 1) \in Seq(S)
  BY <1>1, SubSeqProperties
<1>3. SubSeq(s, i + 1, Len(s)) \in Seq(S)
  BY <1>1, SubSeqProperties
<1>4. QED BY <1>2, <1>3, ConcatProperties DEF RemoveAt

(* LookupInv is inductive, beside BindingInv. *)
LEMMA StepLookup == BindingInv /\ LookupInv /\ [BindingNext]_bindingVars => LookupInv'
<1> SUFFICES ASSUME BindingInv, LookupInv, [BindingNext]_bindingVars PROVE LookupInv'
  OBVIOUS
<1>0. /\ Shapes /\ datasets \in Seq(Listed) /\ deleted \in Nat /\ created \in Nat
      /\ Len(datasets) \in Nat
  BY LenProperties DEF BindingInv, LookupInv
<1>1. ASSUME UNCHANGED <<datasets, deleted, created>>, run' = NoRun PROVE LookupInv'
  BY <1>1, NoRunShape DEF LookupInv, NoneHidden
<1>2. ASSUME UNCHANGED <<datasets, deleted, created, run, throughout>>,
             settings'["worker"] = settings["worker"]
      PROVE  LookupInv'
  BY <1>2 DEF LookupInv, NoneHidden, Ahead
<1>3. ASSUME NEW j \in Jobs, Submit(j) \/ AdminUpdate(j) PROVE LookupInv'
  BY <1>2, <1>3 DEF Submit, AdminUpdate, count
<1>4. ASSUME NEW p \in {"api", "worker"}, Deploy(p) PROVE LookupInv'
  <2>1. UNCHANGED <<datasets, deleted, created, throughout>>
    BY <1>4 DEF Deploy
  <2>2. CASE p = "worker"
    BY <1>1, <1>4, <2>1, <2>2 DEF Deploy
  <2>3. CASE p = "api"
    <3>1. settings'["worker"] = settings["worker"] /\ run' = run
      BY <1>0, <1>4, <2>3 DEF Deploy, Shapes
    <3>2. QED BY <1>2, <2>1, <3>1
  <2>4. QED BY <2>2, <2>3
<1>5. ASSUME NEW j \in Jobs, Begin(j) PROVE LookupInv'
  <2>1. UNCHANGED <<datasets, deleted, created, throughout>>
    BY <1>5 DEF Begin
  <2>2. run' = NoRun \/ (run'.pc = "scope" /\ run'.seen = 0 /\ run'.matches = {})
    BY <1>5 DEF Begin, NoRun
  <2>3. QED BY <1>0, <1>1, <2>1, <2>2 DEF LookupInv, NoneHidden
<1>6. CASE Fail
  BY <1>1, <1>6 DEF Fail, count
<1>7. CASE Scope
  <2>1. /\ UNCHANGED <<datasets, deleted, created, settings>> /\ run.pc = "scope"
    BY <1>7 DEF Scope, count
  <2>2. \/ run' = NoRun
        \/ /\ \E scope : run' = [run EXCEPT !.pc = "page", !.scope = scope, !.page = 1]
           /\ throughout' = {i \in Ids : [id |-> i, name |-> settings["worker"].name] \in ToSet(datasets)}
    BY <1>7 DEF Scope
  <2>3. ASSUME NEW scope, run' = [run EXCEPT !.pc = "page", !.scope = scope, !.page = 1],
               throughout' = {i \in Ids : [id |-> i, name |-> settings["worker"].name] \in ToSet(datasets)}
        PROVE  LookupInv'
    <3>1. run' = [job |-> run.job, pc |-> "page", scope |-> scope, page |-> 1,
                  seen |-> run.seen, matches |-> run.matches]
      BY <1>0, <2>3 DEF Shapes
    <3>2. run.seen = 0
      BY <2>1 DEF LookupInv
    <3>3. \A d \in throughout' : \E i \in 1 .. Len(datasets) :
             datasets[i] = [id |-> d, name |-> settings["worker"].name]
      <4> SUFFICES ASSUME NEW d \in throughout'
                   PROVE  \E i \in 1 .. Len(datasets) : datasets[i] = [id |-> d, name |-> settings["worker"].name]
        OBVIOUS
      <4>1. PICK i \in DOMAIN datasets : datasets[i] = [id |-> d, name |-> settings["worker"].name]
        BY <2>3 DEF ToSet
      <4>2. QED BY <1>0, <4>1, LenProperties
    <3>4. Before(1) = 0
      BY PagesAdjoin
    <3>5. run'.page = 1 /\ run'.seen = 0 /\ run'.pc = "page" /\ settings' = settings /\ datasets' = datasets
      BY <2>1, <3>1, <3>2
    <3>6. \A i \in 1 .. Len(datasets) : ~(i <= 0)
      BY <1>0
    <3>7. \A d \in throughout' : \E i \in 1 .. Len(datasets) :
             /\ datasets[i] = [id |-> d, name |-> settings["worker"].name]
             /\ i <= Before(1) => [at |-> i, id |-> d] \in run'.matches
      BY <3>3, <3>4, <3>6
    <3>8. 0 <= Before(1) /\ 0 \in Nat /\ 1 \in Nat \ {0}
      BY <3>4
    <3>9. Ahead'
      BY <3>5, <3>7, <3>8 DEF Ahead
    <3>10. QED BY <1>0, <2>1, <3>5, <3>9 DEF LookupInv, NoneHidden
  <2>4. QED BY <1>1, <2>1, <2>2, <2>3
<1>8. CASE Page
  <2> DEFINE items == Items(run.page)
             seen == run.seen + Len(items)
             found == run.matches \cup Matching(items, settings["worker"].name)
  <2>1. /\ UNCHANGED <<settings, datasets, deleted, created, throughout>> /\ run.pc = "page"
        /\ \/ run' = NoRun
           \/ Complete(seen) /\ run' = [run EXCEPT !.pc = "conclude", !.matches = found]
           \/ run' = [run EXCEPT !.page = @ + 1, !.seen = seen, !.matches = found]
    BY <1>8 DEF Page, count
  <2>2. CASE run' = NoRun
    BY <1>1, <2>1, <2>2
  <2>3. ASSUME deleted = 0
        PROVE  /\ run.seen \in Nat /\ run.seen <= Before(run.page) /\ run.page \in Nat \ {0}
               /\ Len(items) \in Nat /\ Len(items) <= PageSize /\ Before(run.page) \in Nat
               /\ \A d \in throughout : \E i \in 1 .. Len(datasets) :
                     /\ datasets[i] = [id |-> d, name |-> settings["worker"].name]
                     /\ i <= Before(run.page) + PageSize => [at |-> i, id |-> d] \in found
    <3>1. Ahead
      BY <2>1, <2>3 DEF LookupInv
    <3>2. run.page \in Nat \ {0} /\ run.seen \in Nat /\ run.seen <= Before(run.page)
      BY <3>1 DEF Ahead
    <3>3. Len(items) \in Nat /\ Len(items) <= PageSize
      BY <1>0, <3>2, PageItems, LenProperties
    <3>4. Before(run.page) \in Nat
      BY <3>2, PagesAdjoin
    <3> HIDE DEF found
    <3>5. QED BY <1>0, <3>1, <3>2, <3>3, <3>4, PageRead DEF found
  <2>4. CASE Complete(seen) /\ run' = [run EXCEPT !.pc = "conclude", !.matches = found]
    <3>1. run'.pc = "conclude" /\ run'.matches = found
      BY <1>0, <2>4 DEF Shapes
    <3>2. ASSUME deleted = 0, NEW d \in throughout PROVE d \in {m.id : m \in found}
      <4>1. PICK i \in 1 .. Len(datasets) : i <= Before(run.page) + PageSize => [at |-> i, id |-> d] \in found
        BY <2>3, <3>2
      <4>2. Len(datasets) <= Before(run.page) + PageSize
        BY <1>0, <2>3, <2>4, <3>2 DEF Complete
      <4>3. [at |-> i, id |-> d] \in found
        BY <1>0, <2>3, <3>2, <4>1, <4>2
      <4> HIDE DEF found
      <4>4. QED BY <4>3
    <3> HIDE DEF found
    <3>3. QED BY <1>0, <2>1, <3>1, <3>2 DEF LookupInv, NoneHidden
  <2>5. CASE run' = [run EXCEPT !.page = @ + 1, !.seen = seen, !.matches = found]
    <3>1. run' = [job |-> run.job, pc |-> "page", scope |-> run.scope, page |-> run.page + 1,
                  seen |-> seen, matches |-> found]
      BY <1>0, <2>1, <2>5 DEF Shapes
    <3>2. ASSUME deleted = 0 PROVE Ahead'
      <4>1. Before(run.page + 1) = Before(run.page) + PageSize
        BY <2>3, <3>2, PagesAdjoin
      <4>2. seen \in Nat /\ seen <= Before(run.page + 1) /\ run.page + 1 \in Nat \ {0}
        BY <2>3, <3>2, <4>1
      <4> HIDE DEF seen, found
      <4>3. QED BY <2>1, <2>3, <3>1, <3>2, <4>1, <4>2 DEF Ahead
    <3> HIDE DEF seen, found
    <3>3. QED BY <1>0, <2>1, <3>1, <3>2 DEF LookupInv, NoneHidden
  <2>6. QED BY <2>1, <2>2, <2>4, <2>5
<1>9. CASE Conclude
  BY <1>1, <1>9 DEF Conclude, count
<1>10. CASE Create
  <2>1. PICK name \in Names : datasets' = Append(datasets, [id |-> 10 + created, name |-> name])
    BY <1>10 DEF Create
  <2>2. UNCHANGED <<settings, deleted, throughout, run>> /\ created' = created + 1
    BY <1>10 DEF Create
  <2>3. [id |-> 10 + created, name |-> name] \in Listed
    BY <1>0, BindingAssumption DEF Listed
  <2>4. /\ datasets' \in Seq(Listed) /\ Len(datasets') = Len(datasets) + 1
        /\ \A i \in 1 .. Len(datasets) : datasets'[i] = datasets[i]
    BY <1>0, <2>1, <2>3, AppendProperties
  <2>5. ASSUME Ahead PROVE Ahead'
    <3>1. \A i \in 1 .. Len(datasets) : i \in 1 .. Len(datasets') /\ datasets'[i] = datasets[i]
      BY <1>0, <2>4
    <3>2. \A d \in throughout : \E i \in 1 .. Len(datasets') :
             /\ datasets'[i] = [id |-> d, name |-> settings["worker"].name]
             /\ i <= Before(run.page) => [at |-> i, id |-> d] \in run.matches
      BY <2>5, <3>1 DEF Ahead
    <3>3. QED BY <2>2, <2>5, <3>2 DEF Ahead
  <2>6. QED BY <1>0, <2>2, <2>4, <2>5 DEF LookupInv, NoneHidden
<1>11. CASE Delete
  <2>1. PICK i \in DOMAIN datasets : datasets' = RemoveAt(datasets, i)
    BY <1>11 DEF Delete
  <2>2. datasets' \in Seq(Listed)
    BY <1>0, <2>1, Removal
  <2>3. deleted' \in Nat /\ deleted' # 0 /\ UNCHANGED <<run, created>>
    BY <1>0, <1>11 DEF Delete
  <2>4. QED BY <1>0, <2>2, <2>3 DEF LookupInv, NoneHidden
<1>12. CASE OtherTenant
  BY <1>2, <1>12 DEF OtherTenant
<1>13. CASE UNCHANGED bindingVars
  BY <1>2, <1>13 DEF bindingVars, count
<1>14. QED BY <1>3, <1>4, <1>5, <1>6, <1>7, <1>8, <1>9, <1>10, <1>11, <1>12, <1>13
       DEF BindingNext

(* A lookup that returns has seen every dataset of the name that was there *)
(* all along, whatever was created meanwhile.                              *)
THEOREM LookupComplete == BindingSpec => []NoneHidden
<1>1. BindingInit => LookupInv
  <2> SUFFICES ASSUME BindingInit PROVE LookupInv
    OBVIOUS
  <2>1. datasets \in Seq(Listed) /\ run.pc = "idle" /\ deleted = 0 /\ created = 0
    BY BindingAssumption, NoRunShape DEF BindingInit
  <2>2. QED BY <2>1 DEF LookupInv, NoneHidden
<1>2. LookupInv => NoneHidden
  BY DEF LookupInv
<1>3. QED BY <1>1, <1>2, StepLookup, BindingSafety, PTL DEF BindingSpec

(* Targets are of the journal's scope and of the dataset the job was       *)
(* accepted for, and no lookup leaves a dataset out.                       *)
THEOREM TargetsRight == BindingSpec => []BindingRight
BY BindingTyped, Bound, LookupComplete, PTL DEF BindingRight

(* A confirmed receipt is never replaced. *)
THEOREM ReceiptStays == BindingSpec => ReceiptKept
<1>1. BindingInv /\ [BindingNext]_bindingVars =>
        [op # Unset /\ op.receipt # Unset =>
            op'.receipt = op.receipt /\ op'.scope = op.scope]_bindingVars
  <2> SUFFICES ASSUME BindingInv, BindingNext, op # Unset, op.receipt # Unset
               PROVE  op'.receipt = op.receipt /\ op'.scope = op.scope
    OBVIOUS
  <2>1. CASE Scope
    BY <2>1 DEF Scope
  <2>2. CASE Conclude
    <3>1. op \in OpRow
      BY DEF BindingInv, Shapes
    <3>2. op' = op \/ op' = [op EXCEPT !.receipt = op.receipt]
      BY <2>2 DEF Conclude, Confirmable
    <3>3. QED BY <3>1, <3>2 DEF OpRow
  <2>3. op' = op \/ Scope \/ Conclude
    BY DEF BindingNext, Submit, AdminUpdate, Begin, Deploy, Fail, Page, Create, Delete,
           OtherTenant
  <2>4. QED BY <2>1, <2>2, <2>3
<1>2. QED BY <1>1, BindingSafety, PTL DEF BindingSpec, ReceiptKept

-----------------------------------------------------------------------------
(* The file by which Beat shows that it runs.                             *)
BeatState == [pid : Pids \cup {None}, pc : {"gone", "loop", "stamp", "replace"}, ticks : Nat,
              returns : Nat, errors : Nat, attempt : Int \cup {None}, snapshot : Written \cup {None}]

ActivityTyped ==
  /\ boot \in Nat /\ clock \in Nat /\ asleep \in Nat /\ starts \in Nat
  /\ proc \in [Pids -> Process \cup {None}] /\ beat \in BeatState /\ file \in Written \cup {None}
  /\ disturbed \in BOOLEAN

(* There is one Beat at a time; its process was started before now.        *)
OneBeat ==
  /\ \A p \in Pids : proc[p] # None => proc[p].start < starts /\ (proc[p].beat => beat.pid = p)
  /\ beat.pid # None => proc[beat.pid] # None /\ proc[beat.pid].beat
  /\ beat.pc \in {"stamp", "replace"} => beat.ticks \in 1..MaxTicks
  /\ beat.ticks <= MaxTicks
  /\ beat.attempt # None => Monotonic >= beat.attempt

(* What was written once was written by a Beat that is gone, or by the one *)
(* that runs, whose counters have only grown since.                        *)
Owned(s) ==
  /\ s.boot <= boot
  /\ s.boot = boot =>
       /\ s.start < starts
       /\ proc[s.pid] # None /\ proc[s.pid].start = s.start =>
            /\ beat.pid = s.pid /\ s.ticks <= beat.ticks
            /\ s.returns <= beat.returns /\ s.errors <= beat.errors

(* Two writings of one Beat: the first shows no more than the second.      *)
UpTo(s, t) ==
  s.boot = t.boot /\ s.pid = t.pid /\ s.start = t.start =>
    s.ticks <= t.ticks /\ s.returns <= t.returns /\ s.errors <= t.errors

(* Where a writing may be: on its way to the file, in it, read, reported.  *)
Coming == IF beat.pc = "replace" THEN {beat.snapshot} ELSE {}
Lying == IF file # None THEN {file} ELSE {}
Taken == IF reader.pc = "check" THEN {reader.snapshot} ELSE {}
Told == IF report.kind = "active" THEN {report.of} ELSE {}

WritingsRight ==
  /\ \A s \in Coming \cup Lying \cup Taken \cup Told : s \in Written /\ Owned(s) /\ s.ticks \in 1..MaxTicks
  /\ \A s \in Taken : s.boot = boot /\ reader.at - s.at \in 0..MaxAge
  /\ \A s \in Lying \cup Taken \cup Told, t \in Coming : UpTo(s, t)
  /\ \A s \in Taken \cup Told, t \in Lying : UpTo(s, t)
  /\ \A s \in Told, t \in Taken : UpTo(s, t)

ActivityInv == ActivityTyped /\ OneBeat /\ WritingsRight

(* While nothing has gone wrong, the file is that of the Beat that runs    *)
(* and as old as its last attempt to write.                                *)
ByBeat(s) == /\ beat.pid # None /\ s.pid = beat.pid /\ s.boot = boot /\ s.start = proc[beat.pid].start

-----------------------------------------------------------------------------
(* What a writing says of its owner stays true while the machine runs.     *)
Goes ==
  /\ boot' = boot /\ starts <= starts'
  /\ \A p \in Pids : proc'[p] # None =>
       \/ proc[p] # None /\ proc'[p].start = proc[p].start
       \/ proc'[p].start >= starts
  /\ \A p \in Pids : proc'[p] # None /\ proc[p] # None /\ beat.pid = p =>
       /\ beat'.pid = p /\ beat.ticks <= beat'.ticks
       /\ beat.returns <= beat'.returns /\ beat.errors <= beat'.errors

(* What is true of the owner of a writing stays true over such a step.     *)
LEMMA OwnedKeeps ==
  ASSUME ActivityTyped, ActivityTyped', Goes, NEW s \in Written, Owned(s)
  PROVE  Owned(s)'
<1>1. s.boot <= boot'
  BY DEF Goes, Owned
<1>2. ASSUME s.boot = boot'
      PROVE  /\ s.start < starts'
             /\ proc'[s.pid] # None /\ proc'[s.pid].start = s.start =>
                  /\ beat'.pid = s.pid /\ s.ticks <= beat'.ticks
                  /\ s.returns <= beat'.returns /\ s.errors <= beat'.errors
  <2>1. /\ s.start < starts /\ s.start \in Nat /\ s.pid \in Pids
        /\ s.ticks \in Nat /\ s.returns \in Nat /\ s.errors \in Nat
        /\ starts \in Nat /\ starts' \in Nat /\ starts <= starts'
    BY <1>2 DEF Goes, Owned, Written, ActivityTyped
  <2>2. ASSUME proc'[s.pid] # None, proc'[s.pid].start = s.start
        PROVE  /\ beat'.pid = s.pid /\ s.ticks <= beat'.ticks
               /\ s.returns <= beat'.returns /\ s.errors <= beat'.errors
    <3>1. proc[s.pid] # None /\ proc[s.pid].start = s.start
      <4>1. ~(s.start >= starts)
        BY <2>1
      <4>2. QED BY <2>1, <2>2, <4>1 DEF Goes
    <3>2. /\ beat.pid = s.pid /\ s.ticks <= beat.ticks
          /\ s.returns <= beat.returns /\ s.errors <= beat.errors
      BY <1>2, <3>1 DEF Owned, Goes
    <3>3. /\ beat'.pid = s.pid /\ beat.ticks <= beat'.ticks
          /\ beat.returns <= beat'.returns /\ beat.errors <= beat'.errors
      BY <2>1, <2>2, <3>1, <3>2 DEF Goes
    <3>4. beat \in BeatState /\ beat' \in BeatState
      BY DEF ActivityTyped
    <3>5. QED BY <2>1, <3>2, <3>3, <3>4 DEF BeatState
  <2>3. s.start < starts'
    BY <2>1
  <2>4. QED BY <2>2, <2>3
<1>3. QED BY <1>1, <1>2 DEF Owned

(* Where nothing new is written, read or reported.                         *)
LEMMA WritingsStay ==
  ASSUME ActivityTyped, ActivityTyped', WritingsRight, Goes,
         Coming' \subseteq Coming, Lying' = Lying, Taken' \subseteq Taken, Told' \subseteq Told,
         reader' = reader \/ Taken' = {}
  PROVE  WritingsRight'
<1>1. \A s \in Coming' \cup Lying' \cup Taken' \cup Told' : s \in Written /\ Owned(s)' /\ s.ticks \in 1..MaxTicks
  <2>1. ASSUME NEW s \in Coming' \cup Lying' \cup Taken' \cup Told'
        PROVE  s \in Written /\ Owned(s) /\ s.ticks \in 1..MaxTicks
    BY DEF WritingsRight
  <2>2. ASSUME NEW s \in Written, Owned(s) PROVE Owned(s)'
    BY <2>2, OwnedKeeps
  <2>3. QED BY <2>1, <2>2
<1>2. \A s \in Taken' : s.boot = boot' /\ reader'.at - s.at \in 0..MaxAge
  BY DEF WritingsRight, Goes
<1>3. QED BY <1>1, <1>2 DEF WritingsRight

(* One snapshot of the counters is no less than any writing of this Beat.  *)
LEMMA SnapshotLatest ==
  ASSUME ActivityInv, Runs, beat.pc \in {"stamp", "replace"}
  PROVE  /\ Snapshot \in Written /\ Owned(Snapshot) /\ Snapshot.ticks \in 1..MaxTicks
         /\ \A s \in Written : Owned(s) => UpTo(s, Snapshot)
<1>1. beat \in BeatState /\ boot \in Nat /\ clock \in Nat /\ starts \in Nat
  BY DEF ActivityInv, ActivityTyped
<1>2. beat.pid \in Pids /\ proc[beat.pid] # None
  BY <1>1 DEF Runs, ActivityInv, OneBeat, BeatState
<1>3. proc[beat.pid] \in Process /\ proc[beat.pid].start < starts
  BY <1>2 DEF ActivityInv, ActivityTyped, OneBeat
<1>4. beat.ticks \in 1..MaxTicks
  BY DEF ActivityInv, OneBeat
<1>5. Snapshot \in Written
  BY <1>1, <1>2, <1>3 DEF Snapshot, Written, Process, BeatState
<1>6. Owned(Snapshot)
  BY <1>1, <1>2, <1>3 DEF Snapshot, Owned, BeatState
<1>7. ASSUME NEW s \in Written, Owned(s) PROVE UpTo(s, Snapshot)
  BY <1>2, <1>7 DEF Owned, UpTo, Snapshot
<1>8. QED BY <1>4, <1>5, <1>6, <1>7 DEF Snapshot

(* A comparison of a writing with itself.                                  *)
LEMMA UpToItself == \A s \in Written : UpTo(s, s)
BY DEF UpTo, Written

-----------------------------------------------------------------------------
(* The steps of Beat itself.                                               *)
LEMMA BeatType ==
  ASSUME ActivityInv, Beat
  PROVE  ActivityTyped' /\ OneBeat' /\ Goes
<1>1. /\ boot' = boot /\ clock' = clock /\ asleep' = asleep /\ starts' = starts /\ proc' = proc
  BY DEF Beat, Publish, TickReturns, Stamp, ReplaceFile, WriteFails, Machine
<1>2. /\ beat \in BeatState /\ boot \in Nat /\ clock \in Nat /\ asleep \in Nat /\ starts \in Nat
      /\ proc \in [Pids -> Process \cup {None}] /\ file \in Written \cup {None} /\ disturbed \in BOOLEAN
  BY DEF ActivityInv, ActivityTyped
<1>3. beat.pid \in Pids /\ proc[beat.pid] # None
  BY <1>2 DEF Beat, Publish, TickReturns, Stamp, ReplaceFile, WriteFails, Runs, ActivityInv, OneBeat, BeatState
<1>4. Monotonic \in Int
  BY <1>2 DEF Monotonic
<1>5. beat' \in BeatState
  <2>1. CASE Publish
    BY <1>2, <2>1 DEF Publish, BeatState
  <2>2. CASE TickReturns
    <3>1. beat.ticks + 1 \in Nat
      BY <1>2 DEF BeatState
    <3>2. [beat EXCEPT !.ticks = beat.ticks + 1] \in BeatState
      BY <1>2, <3>1 DEF BeatState
    <3>3. [beat EXCEPT !.pc = "stamp", !.ticks = beat.ticks + 1, !.attempt = Monotonic] \in BeatState
      BY <1>2, <1>4, <3>1 DEF BeatState
    <3>4. QED BY <2>2, <3>2, <3>3 DEF TickReturns
  <2>3. CASE Stamp
    <3>1. Snapshot \in Written
      BY <2>3, SnapshotLatest DEF Stamp
    <3>2. [beat EXCEPT !.pc = "replace", !.snapshot = Snapshot] \in BeatState
      BY <1>2, <3>1 DEF BeatState
    <3>3. QED BY <2>3, <3>2 DEF Stamp
  <2>4. CASE ReplaceFile \/ WriteFails
    <3>1. [beat EXCEPT !.pc = "loop", !.snapshot = None] \in BeatState
      BY <1>2 DEF BeatState
    <3>2. QED BY <2>4, <3>1 DEF ReplaceFile, WriteFails
  <2>5. QED BY <2>1, <2>2, <2>3, <2>4 DEF Beat
<1>6. /\ beat'.pid = beat.pid
       /\ beat.ticks <= beat'.ticks /\ beat.returns <= beat'.returns /\ beat.errors <= beat'.errors
  <2>1. CASE Publish
    BY <1>2, <2>1 DEF Publish, BeatState
  <2>2. CASE TickReturns
    <3>1. \/ beat' = [beat EXCEPT !.pc = "stamp", !.ticks = beat.ticks + 1, !.attempt = Monotonic]
          \/ beat' = [beat EXCEPT !.ticks = beat.ticks + 1]
      BY <2>2 DEF TickReturns
    <3>2. /\ beat'.pid = beat.pid /\ beat'.returns = beat.returns /\ beat'.errors = beat.errors
          /\ beat'.ticks = beat.ticks + 1
      BY <1>2, <3>1 DEF BeatState
    <3>3. beat.ticks \in Nat /\ beat.returns \in Nat /\ beat.errors \in Nat
      BY <1>2 DEF BeatState
    <3>4. QED BY <3>2, <3>3
  <2>3. CASE Stamp \/ ReplaceFile \/ WriteFails
    <3>1. \/ beat' = [beat EXCEPT !.pc = "replace", !.snapshot = Snapshot]
          \/ beat' = [beat EXCEPT !.pc = "loop", !.snapshot = None]
      BY <2>3 DEF Stamp, ReplaceFile, WriteFails
    <3>2. /\ beat'.pid = beat.pid /\ beat'.returns = beat.returns /\ beat'.errors = beat.errors
          /\ beat'.ticks = beat.ticks
      BY <1>2, <3>1 DEF BeatState
    <3>3. beat.ticks \in Nat /\ beat.returns \in Nat /\ beat.errors \in Nat
      BY <1>2 DEF BeatState
    <3>4. QED BY <3>2, <3>3
  <2>5. QED BY <2>1, <2>2, <2>3 DEF Beat
<1>7. beat'.ticks <= MaxTicks /\ (beat'.pc \in {"stamp", "replace"} => beat'.ticks >= 1)
  <2>0. beat.ticks <= MaxTicks /\ (beat.pc \in {"stamp", "replace"} => beat.ticks \in 1..MaxTicks)
    BY DEF ActivityInv, OneBeat
  <2>1. CASE Publish
    BY <1>2, <2>0, <2>1 DEF Publish, BeatState
  <2>2. CASE TickReturns
    <3>1. beat'.ticks = beat.ticks + 1 /\ beat.ticks < MaxTicks
      BY <1>2, <2>2 DEF TickReturns, BeatState
    <3>2. QED BY <1>2, <3>1, ActivityAssumption DEF BeatState
  <2>3. CASE Stamp
    BY <1>2, <2>0, <2>3 DEF Stamp, BeatState
  <2>4. CASE ReplaceFile \/ WriteFails
    BY <1>2, <2>0, <2>4 DEF ReplaceFile, WriteFails, BeatState
  <2>5. QED BY <2>1, <2>2, <2>3, <2>4 DEF Beat
<1>8. beat'.attempt = beat.attempt \/ beat'.attempt = Monotonic
  <2>1. CASE Publish
    BY <1>2, <2>1 DEF Publish, BeatState
  <2>2. CASE TickReturns
    BY <1>2, <2>2 DEF TickReturns, BeatState
  <2>3. CASE Stamp \/ ReplaceFile \/ WriteFails
    BY <1>2, <2>3 DEF Stamp, ReplaceFile, WriteFails, BeatState
  <2>5. QED BY <2>1, <2>2, <2>3 DEF Beat
<1>9. file' \in Written \cup {None} /\ disturbed' \in BOOLEAN
  BY <1>2 DEF Beat, Publish, TickReturns, Stamp, ReplaceFile, WriteFails, BeatState
<1>10. ActivityTyped'
  BY <1>1, <1>2, <1>5, <1>9 DEF ActivityTyped
<1>11. OneBeat'
  <2>1. Monotonic' = Monotonic
    BY <1>1 DEF Monotonic
  <2>2. beat'.attempt # None => Monotonic' >= beat'.attempt
    BY <1>4, <1>8, <2>1 DEF ActivityInv, OneBeat
  <2>3. beat'.ticks \in Nat
    BY <1>5 DEF BeatState
  <2>4. QED BY <1>1, <1>6, <1>7, <2>2, <2>3, ActivityAssumption DEF ActivityInv, OneBeat
<1>12. Goes
  BY <1>1, <1>2, <1>6 DEF Goes
<1>13. QED BY <1>10, <1>11, <1>12

(* A new writing shows no less than those that lie about.                  *)
LEMMA BeatWritings ==
  ASSUME ActivityInv, Beat
  PROVE  WritingsRight'
<1>0. ActivityTyped /\ ActivityTyped' /\ WritingsRight /\ Goes
  BY BeatType DEF ActivityInv
<1>1. /\ Taken' = Taken /\ Told' = Told /\ reader' = reader
  BY DEF Beat, Publish, TickReturns, Stamp, ReplaceFile, WriteFails, Watching, Taken, Told
<1>2. beat \in BeatState
  BY <1>0 DEF ActivityTyped
<1>3. CASE Publish \/ TickReturns \/ WriteFails
  <2>1. Coming' = {} /\ Lying' = Lying
    BY <1>2, <1>3 DEF Publish, TickReturns, WriteFails, Coming, Lying, BeatState
  <2>2. QED BY <1>0, <1>1, <2>1, WritingsStay
<1>4. CASE Stamp
  <2>1. Coming' = {Snapshot} /\ Lying' = Lying
    BY <1>2, <1>4 DEF Stamp, Coming, Lying, BeatState
  <2>2. /\ Snapshot \in Written /\ Owned(Snapshot) /\ Snapshot.ticks \in 1..MaxTicks
        /\ \A s \in Written : Owned(s) => UpTo(s, Snapshot)
    BY <1>4, SnapshotLatest DEF Stamp
  <2>3. ASSUME NEW s \in Written, Owned(s) PROVE Owned(s)'
    BY <1>0, <2>3, OwnedKeeps
  <2>4. \A s \in Lying \cup Taken \cup Told : s \in Written /\ Owned(s) /\ s.ticks \in 1..MaxTicks
    BY <1>0 DEF WritingsRight
  <2>5. \A s \in Coming' \cup Lying' \cup Taken' \cup Told' : s \in Written /\ Owned(s)' /\ s.ticks \in 1..MaxTicks
    <3>1. ASSUME NEW s \in Coming' \cup Lying' \cup Taken' \cup Told'
          PROVE  s \in Written /\ Owned(s) /\ s.ticks \in 1..MaxTicks
      BY <1>1, <2>1, <2>2, <2>4
    <3>2. QED BY <2>3, <3>1
  <2>6. \A s \in Lying' \cup Taken' \cup Told', t \in Coming' : UpTo(s, t)
    BY <1>1, <2>1, <2>2, <2>4
  <2>7. boot' = boot
    BY <1>0 DEF Goes
  <2>8. QED BY <1>0, <1>1, <2>1, <2>5, <2>6, <2>7 DEF WritingsRight
<1>5. CASE ReplaceFile
  <2>1. Coming' = {} /\ Coming = {beat.snapshot}
    BY <1>2, <1>5 DEF ReplaceFile, Coming, BeatState
  <2>2. beat.snapshot \in Written
    BY <1>0, <2>1 DEF WritingsRight
  <2>3. Lying' = {beat.snapshot}
    BY <1>5, <2>2, ActivityAssumption DEF ReplaceFile, Lying
  <2>4. ASSUME NEW s \in Written, Owned(s) PROVE Owned(s)'
    BY <1>0, <2>4, OwnedKeeps
  <2>5. \A s \in Coming' \cup Lying' \cup Taken' \cup Told' : s \in Written /\ Owned(s)' /\ s.ticks \in 1..MaxTicks
    <3>1. ASSUME NEW s \in Coming' \cup Lying' \cup Taken' \cup Told'
          PROVE  s \in Written /\ Owned(s) /\ s.ticks \in 1..MaxTicks
      BY <1>0, <1>1, <2>1, <2>3 DEF WritingsRight
    <3>2. QED BY <2>4, <3>1
  <2>6. \A s \in Taken' \cup Told', t \in Lying' : UpTo(s, t)
    BY <1>0, <1>1, <2>1, <2>3 DEF WritingsRight
  <2>7. boot' = boot
    BY <1>0 DEF Goes
  <2>8. QED BY <1>0, <1>1, <2>1, <2>3, <2>5, <2>6, <2>7 DEF WritingsRight
<1>6. QED BY <1>3, <1>4, <1>5 DEF Beat

(* Beat's own steps keep the invariant.                                    *)
LEMMA BeatKeeps ==
  ASSUME ActivityInv, Beat
  PROVE  ActivityInv'
BY BeatType, BeatWritings DEF ActivityInv

-----------------------------------------------------------------------------
(* The steps of the processes.                                             *)
LEMMA SignalKeeps ==
  ASSUME ActivityInv, NEW p \in Pids, proc[p] # None, NEW to \in {"R", "T", "Z"},
         proc' = [proc EXCEPT ![p].state = to], disturbed' \in BOOLEAN,
         UNCHANGED <<Machine, starts, beat, file, Watching>>
  PROVE  ActivityInv'
<1>1. /\ boot' = boot /\ clock' = clock /\ asleep' = asleep /\ starts' = starts /\ beat' = beat
      /\ file' = file /\ reader' = reader /\ report' = report
  BY DEF Machine, Watching
<1>2. /\ beat \in BeatState /\ boot \in Nat /\ clock \in Nat /\ asleep \in Nat /\ starts \in Nat
      /\ proc \in [Pids -> Process \cup {None}] /\ file \in Written \cup {None}
  BY DEF ActivityInv, ActivityTyped
<1>3. /\ proc[p] \in Process /\ [proc[p] EXCEPT !.state = to] \in Process
      /\ [proc[p] EXCEPT !.state = to].start = proc[p].start
      /\ [proc[p] EXCEPT !.state = to].beat = proc[p].beat
  BY <1>2 DEF Process
<1>4. proc'[p] = [proc[p] EXCEPT !.state = to] /\ \A q \in Pids \ {p} : proc'[q] = proc[q]
  BY <1>2
<1>5. proc' \in [Pids -> Process \cup {None}]
  BY <1>2, <1>3
<1>6. ActivityTyped'
  BY <1>1, <1>2, <1>5 DEF ActivityTyped
<1>7. proc'[p] # None
  BY <1>3, <1>4, ActivityAssumption
<1>8. \A q \in Pids : /\ proc'[q] # None <=> proc[q] # None
                      /\ proc[q] # None => proc'[q].start = proc[q].start /\ proc'[q].beat = proc[q].beat
  BY <1>3, <1>4, <1>7
<1>9. OneBeat'
  <2>1. Monotonic' = Monotonic
    BY <1>1 DEF Monotonic
  <2>2. beat.pid # None => beat.pid \in Pids
    BY <1>2 DEF BeatState
  <2>3. QED BY <1>1, <1>8, <2>1, <2>2 DEF ActivityInv, OneBeat
<1>10. Goes
  BY <1>1, <1>2, <1>8 DEF Goes, BeatState
<1>11. Coming' = Coming /\ Lying' = Lying /\ Taken' = Taken /\ Told' = Told
  BY <1>1 DEF Coming, Lying, Taken, Told
<1>12. WritingsRight'
  BY <1>1, <1>6, <1>10, <1>11, WritingsStay DEF ActivityInv
<1>13. QED BY <1>6, <1>9, <1>12 DEF ActivityInv

(* A process that starts owns none of the writings.                        *)
LEMMA StartKeeps ==
  ASSUME ActivityInv, NEW p \in Pids, Start(p)
  PROVE  ActivityInv'
<1>1. /\ boot' = boot /\ clock' = clock /\ asleep' = asleep /\ starts' = starts + 1
      /\ file' = file /\ reader' = reader /\ report' = report /\ disturbed' = disturbed
      /\ proc[p] = None
  BY DEF Start, Machine, Watching
<1>2. /\ beat \in BeatState /\ boot \in Nat /\ clock \in Nat /\ asleep \in Nat /\ starts \in Nat
      /\ proc \in [Pids -> Process \cup {None}] /\ file \in Written \cup {None} /\ disturbed \in BOOLEAN
  BY DEF ActivityInv, ActivityTyped
<1>3. PICK isBeat \in BOOLEAN :
        /\ isBeat => beat.pid = None
        /\ proc' = [proc EXCEPT ![p] = [start |-> starts, state |-> "R", beat |-> isBeat]]
        /\ IF isBeat THEN beat' = [NoBeat EXCEPT !.pid = p, !.pc = "loop"] ELSE beat' = beat
  BY DEF Start
<1>4. [start |-> starts, state |-> "R", beat |-> isBeat] \in Process
  BY <1>2 DEF Process
<1>5. /\ proc'[p] = [start |-> starts, state |-> "R", beat |-> isBeat]
      /\ \A q \in Pids \ {p} : proc'[q] = proc[q]
      /\ proc' \in [Pids -> Process \cup {None}]
  BY <1>2, <1>3, <1>4
<1>6. /\ proc'[p] # None /\ proc'[p].start = starts /\ proc'[p].beat = isBeat
  BY <1>4, <1>5, ActivityAssumption
<1>7. [NoBeat EXCEPT !.pid = p, !.pc = "loop"] \in BeatState
  BY DEF NoBeat, BeatState
<1>8. ActivityTyped'
  <2>1. beat' \in BeatState /\ starts' \in Nat
    BY <1>1, <1>2, <1>3, <1>7
  <2>2. QED BY <1>1, <1>2, <1>5, <2>1 DEF ActivityTyped
<1>9. CASE isBeat = TRUE
  <2>1. beat.pid = None /\ beat' = [NoBeat EXCEPT !.pid = p, !.pc = "loop"]
    BY <1>3, <1>9
  <2>2. beat'.pid = p /\ beat'.pc = "loop" /\ beat'.ticks = 0 /\ beat'.attempt = None
    BY <2>1 DEF NoBeat
  <2>3. \A q \in Pids : proc[q] # None => ~proc[q].beat
    BY <2>1, ActivityAssumption DEF ActivityInv, OneBeat
  <2>4. \A q \in Pids : proc'[q] # None => proc'[q].start < starts' /\ (proc'[q].beat => beat'.pid = q)
    <3>1. ASSUME NEW q \in Pids \ {p}, proc[q] # None PROVE proc[q].start < starts + 1
      <4>1. proc[q] \in Process /\ proc[q].start < starts
        BY <1>2, <3>1 DEF ActivityInv, OneBeat
      <4>2. QED BY <1>2, <4>1 DEF Process
    <3>2. QED BY <1>1, <1>2, <1>5, <1>6, <2>2, <2>3, <3>1
  <2>5. OneBeat'
    <3>1. proc'[beat'.pid] # None /\ proc'[beat'.pid].beat
      BY <1>6, <1>9, <2>2
    <3>2. beat'.ticks <= MaxTicks /\ ~(beat'.pc \in {"stamp", "replace"})
      BY <2>2, ActivityAssumption
    <3>3. QED BY <2>2, <2>4, <3>1, <3>2 DEF OneBeat
  <2>6. Goes
    BY <1>1, <1>2, <1>5, <1>6, <2>1, ActivityAssumption DEF Goes
  <2>7. Coming' = {} /\ Lying' = Lying /\ Taken' = Taken /\ Told' = Told
    BY <1>1, <2>2 DEF Coming, Lying, Taken, Told
  <2>8. WritingsRight'
    BY <1>1, <1>8, <2>6, <2>7, WritingsStay DEF ActivityInv
  <2>9. QED BY <1>8, <2>5, <2>8 DEF ActivityInv
<1>10. CASE isBeat = FALSE
  <2>1. beat' = beat
    BY <1>3, <1>10
  <2>2. \A q \in Pids : proc'[q] # None => proc'[q].start < starts' /\ (proc'[q].beat => beat'.pid = q)
    <3>1. ASSUME NEW q \in Pids \ {p}, proc[q] # None
          PROVE  proc[q].start < starts + 1 /\ (proc[q].beat => beat.pid = q)
      <4>1. proc[q] \in Process /\ proc[q].start < starts
        BY <1>2, <3>1 DEF ActivityInv, OneBeat
      <4>2. proc[q].beat => beat.pid = q
        BY <3>1 DEF ActivityInv, OneBeat
      <4>3. QED BY <1>2, <4>1, <4>2 DEF Process
    <3>2. QED BY <1>1, <1>2, <1>5, <1>6, <1>10, <2>1, <3>1
  <2>3. beat.pid # p
    BY <1>1, ActivityAssumption DEF ActivityInv, OneBeat
  <2>4. OneBeat'
    <3>1. Monotonic' = Monotonic
      BY <1>1 DEF Monotonic
    <3>2. beat.pid # None => beat.pid \in Pids
      BY <1>2 DEF BeatState
    <3>3. beat'.pid # None => proc'[beat'.pid] # None /\ proc'[beat'.pid].beat
      BY <1>5, <2>1, <2>3, <3>2 DEF ActivityInv, OneBeat
    <3>4. QED BY <2>1, <2>2, <3>1, <3>3 DEF ActivityInv, OneBeat
  <2>5. Goes
    BY <1>1, <1>2, <1>5, <1>6, <2>1 DEF Goes, BeatState
  <2>6. Coming' = Coming /\ Lying' = Lying /\ Taken' = Taken /\ Told' = Told
    BY <1>1, <2>1 DEF Coming, Lying, Taken, Told
  <2>7. WritingsRight'
    BY <1>1, <1>8, <2>5, <2>6, WritingsStay DEF ActivityInv
  <2>8. QED BY <1>8, <2>4, <2>7 DEF ActivityInv
<1>11. QED BY <1>9, <1>10

(* A process that is reaped takes its counters with it.                    *)
LEMMA ReapKeeps ==
  ASSUME ActivityInv, NEW p \in Pids, Reap(p)
  PROVE  ActivityInv'
<1>1. /\ boot' = boot /\ clock' = clock /\ asleep' = asleep /\ starts' = starts
      /\ file' = file /\ reader' = reader /\ report' = report /\ disturbed' = disturbed
      /\ proc' = [proc EXCEPT ![p] = None] /\ beat' = IF beat.pid = p THEN NoBeat ELSE beat
  BY DEF Reap, Machine, Watching
<1>2. /\ beat \in BeatState /\ boot \in Nat /\ clock \in Nat /\ asleep \in Nat /\ starts \in Nat
      /\ proc \in [Pids -> Process \cup {None}] /\ file \in Written \cup {None} /\ disturbed \in BOOLEAN
  BY DEF ActivityInv, ActivityTyped
<1>3. /\ proc'[p] = None /\ \A q \in Pids \ {p} : proc'[q] = proc[q]
      /\ proc' \in [Pids -> Process \cup {None}]
  BY <1>1, <1>2
<1>4. NoBeat \in BeatState /\ NoBeat.pid = None /\ NoBeat.pc = "gone" /\ NoBeat.ticks = 0 /\ NoBeat.attempt = None
  BY DEF NoBeat, BeatState
<1>5. ActivityTyped'
  <2>1. beat' \in BeatState
    BY <1>1, <1>2, <1>4
  <2>2. QED BY <1>1, <1>2, <1>3, <2>1 DEF ActivityTyped
<1>6. Monotonic' = Monotonic
  BY <1>1 DEF Monotonic
<1>7. beat.pid # None => beat.pid \in Pids
  BY <1>2 DEF BeatState
<1>8. OneBeat' /\ Coming' \subseteq Coming
  <2>1. CASE beat.pid = p
    <3>1. beat' = NoBeat
      BY <1>1, <2>1
    <3>2. \A q \in Pids : proc'[q] # None => proc'[q].start < starts' /\ (proc'[q].beat => beat'.pid = q)
      BY <1>1, <1>3, <2>1 DEF ActivityInv, OneBeat
    <3>3. OneBeat'
      BY <1>4, <3>1, <3>2, ActivityAssumption DEF OneBeat
    <3>4. QED BY <1>4, <3>1, <3>3 DEF Coming
  <2>2. CASE beat.pid # p
    <3>1. beat' = beat
      BY <1>1, <2>2
    <3>2. \A q \in Pids : proc'[q] # None => proc'[q].start < starts' /\ (proc'[q].beat => beat'.pid = q)
      BY <1>1, <1>3, <3>1 DEF ActivityInv, OneBeat
    <3>3. beat'.pid # None => proc'[beat'.pid] # None /\ proc'[beat'.pid].beat
      BY <1>3, <1>7, <2>2, <3>1 DEF ActivityInv, OneBeat
    <3>4. OneBeat'
      BY <1>6, <3>1, <3>2, <3>3 DEF ActivityInv, OneBeat
    <3>5. QED BY <3>1, <3>4 DEF Coming
  <2>3. QED BY <2>1, <2>2
<1>9. Goes
  BY <1>1, <1>2, <1>3 DEF Goes, BeatState
<1>10. Lying' = Lying /\ Taken' = Taken /\ Told' = Told
  BY <1>1 DEF Lying, Taken, Told
<1>11. WritingsRight'
  BY <1>1, <1>5, <1>8, <1>9, <1>10, WritingsStay DEF ActivityInv
<1>12. QED BY <1>5, <1>8, <1>11 DEF ActivityInv

-----------------------------------------------------------------------------
(* The steps of the machine.                                               *)
LEMMA TimeKeeps ==
  ASSUME ActivityInv, clock' \in Nat, asleep' \in Nat, disturbed' \in BOOLEAN, Monotonic' >= Monotonic,
         UNCHANGED <<boot, starts, proc, beat, file, Watching>>
  PROVE  ActivityInv'
<1>1. /\ boot' = boot /\ starts' = starts /\ proc' = proc /\ beat' = beat
      /\ file' = file /\ reader' = reader /\ report' = report
  BY DEF Watching
<1>2. /\ beat \in BeatState /\ clock \in Nat /\ asleep \in Nat /\ starts \in Nat
  BY DEF ActivityInv, ActivityTyped
<1>3. ActivityTyped'
  BY <1>1 DEF ActivityInv, ActivityTyped
<1>4. beat'.attempt # None => Monotonic' >= beat'.attempt
  <2>1. Monotonic \in Int /\ Monotonic' \in Int
    BY <1>2 DEF Monotonic
  <2>2. beat.attempt # None => beat.attempt \in Int /\ Monotonic >= beat.attempt
    BY <1>2 DEF BeatState, ActivityInv, OneBeat
  <2>3. QED BY <1>1, <2>1, <2>2
<1>5. OneBeat'
  BY <1>1, <1>4 DEF ActivityInv, OneBeat
<1>6. Goes
  BY <1>1, <1>2 DEF Goes, BeatState
<1>7. Coming' = Coming /\ Lying' = Lying /\ Taken' = Taken /\ Told' = Told
  BY <1>1 DEF Coming, Lying, Taken, Told
<1>8. WritingsRight'
  BY <1>1, <1>3, <1>6, <1>7, WritingsStay DEF ActivityInv
<1>9. QED BY <1>3, <1>5, <1>8 DEF ActivityInv

(* After a boot the file is that of an earlier one.                        *)
LEMMA RebootKeeps ==
  ASSUME ActivityInv, Reboot
  PROVE  ActivityInv'
<1>1. /\ boot' = boot + 1 /\ clock' = 0 /\ asleep' = 0 /\ starts' = 0 /\ proc' = [p \in Pids |-> None]
      /\ beat' = NoBeat /\ reader' = NoReader /\ report' = NoReport /\ disturbed' = TRUE /\ file' = file
  BY DEF Reboot
<1>2. boot \in Nat /\ file \in Written \cup {None}
  BY DEF ActivityInv, ActivityTyped
<1>3. NoBeat \in BeatState /\ NoBeat.pid = None /\ NoBeat.pc = "gone" /\ NoBeat.ticks = 0 /\ NoBeat.attempt = None
  BY DEF NoBeat, BeatState
<1>4. ActivityTyped'
  BY <1>1, <1>2, <1>3 DEF ActivityTyped
<1>5. OneBeat'
  BY <1>1, <1>3, ActivityAssumption DEF OneBeat
<1>6. Coming' = {} /\ Lying' = Lying /\ Taken' = {} /\ Told' = {}
  BY <1>1, <1>3 DEF Coming, Lying, Taken, Told, NoReader, NoReport
<1>7. \A s \in Lying : s \in Written /\ s.ticks \in 1..MaxTicks /\ Owned(s)'
  <2>1. ASSUME NEW s \in Lying PROVE s \in Written /\ s.ticks \in 1..MaxTicks /\ Owned(s)
    BY DEF ActivityInv, WritingsRight
  <2>2. ASSUME NEW s \in Lying PROVE s.boot <= boot' /\ s.boot # boot'
    <3>1. s.boot \in Nat /\ s.boot <= boot
      BY <2>1 DEF Owned, Written
    <3>2. QED BY <1>1, <1>2, <3>1
  <2>3. QED BY <2>1, <2>2 DEF Owned
<1>8. WritingsRight'
  BY <1>6, <1>7 DEF WritingsRight
<1>9. QED BY <1>4, <1>5, <1>8 DEF ActivityInv

-----------------------------------------------------------------------------
(* The steps of the command.                                               *)
LEMMA ReadKeeps ==
  ASSUME ActivityInv, Read
  PROVE  ActivityInv'
<1>1. /\ boot' = boot /\ clock' = clock /\ asleep' = asleep /\ starts' = starts /\ proc' = proc
      /\ beat' = beat /\ file' = file /\ disturbed' = disturbed /\ reader.pc = "idle"
  BY DEF Read, Machine
<1>2. beat \in BeatState /\ starts \in Nat
  BY DEF ActivityInv, ActivityTyped
<1>3. ActivityTyped'
  BY <1>1 DEF ActivityInv, ActivityTyped
<1>4. OneBeat'
  <2>1. Monotonic' = Monotonic
    BY <1>1 DEF Monotonic
  <2>2. QED BY <1>1, <2>1 DEF ActivityInv, OneBeat
<1>5. Goes
  BY <1>1, <1>2 DEF Goes, BeatState
<1>6. Coming' = Coming /\ Lying' = Lying
  BY <1>1 DEF Coming, Lying
<1>7. CASE file # None /\ Fresh(file)
  <2>1. /\ reader' = [pc |-> "check", snapshot |-> file, at |-> clock] /\ report' = report
    BY <1>7 DEF Read
  <2>2. Taken' = {file} /\ Told' = Told /\ Lying = {file}
    BY <1>7, <2>1 DEF Taken, Told, Lying
  <2>3. file.boot = boot' /\ reader'.at - file.at \in 0..MaxAge
    BY <1>1, <1>7, <2>1 DEF Fresh
  <2>4. ASSUME NEW s \in Written, Owned(s) PROVE Owned(s)'
    BY <1>3, <1>5, <2>4, OwnedKeeps DEF ActivityInv
  <2>5. \A s \in Coming' \cup Lying' \cup Taken' \cup Told' : s \in Written /\ Owned(s)' /\ s.ticks \in 1..MaxTicks
    <3>1. ASSUME NEW s \in Coming' \cup Lying' \cup Taken' \cup Told'
          PROVE  s \in Written /\ Owned(s) /\ s.ticks \in 1..MaxTicks
      BY <1>6, <2>2 DEF ActivityInv, WritingsRight
    <3>2. QED BY <2>4, <3>1
  <2>6. file \in Written
    BY <2>2, <2>5
  <2>7. UpTo(file, file)
    BY <2>6, UpToItself
  <2>8. \A s \in Lying' \cup Taken' \cup Told', t \in Coming' : UpTo(s, t)
    BY <1>6, <2>2 DEF ActivityInv, WritingsRight
  <2>9. \A s \in Taken' \cup Told', t \in Lying' : UpTo(s, t)
    BY <1>6, <2>2, <2>7 DEF ActivityInv, WritingsRight
  <2>10. \A s \in Told', t \in Taken' : UpTo(s, t)
    BY <2>2 DEF ActivityInv, WritingsRight
  <2>11. WritingsRight'
    BY <1>6, <2>2, <2>3, <2>5, <2>8, <2>9, <2>10 DEF WritingsRight
  <2>12. QED BY <1>3, <1>4, <2>11 DEF ActivityInv
<1>8. CASE ~(file # None /\ Fresh(file))
  <2>1. reader' = NoReader /\ report' = [kind |-> "unavailable"]
    BY <1>8 DEF Read
  <2>2. Taken' = {} /\ Told' = {}
    BY <2>1 DEF Taken, Told, NoReader
  <2>3. WritingsRight'
    BY <1>3, <1>5, <1>6, <2>2, WritingsStay DEF ActivityInv
  <2>4. QED BY <1>3, <1>4, <2>3 DEF ActivityInv
<1>9. QED BY <1>7, <1>8

(* What the command checked is what it may answer.                         *)
LEMMA CheckKeeps ==
  ASSUME ActivityInv, CheckProcess
  PROVE  ActivityInv'
<1>1. /\ boot' = boot /\ clock' = clock /\ asleep' = asleep /\ starts' = starts /\ proc' = proc
      /\ beat' = beat /\ file' = file /\ disturbed' = disturbed /\ reader.pc = "check" /\ reader' = NoReader
  BY DEF CheckProcess, Machine
<1>2. beat \in BeatState /\ starts \in Nat
  BY DEF ActivityInv, ActivityTyped
<1>3. ActivityTyped'
  BY <1>1 DEF ActivityInv, ActivityTyped
<1>4. OneBeat'
  <2>1. Monotonic' = Monotonic
    BY <1>1 DEF Monotonic
  <2>2. QED BY <1>1, <2>1 DEF ActivityInv, OneBeat
<1>5. Goes
  BY <1>1, <1>2 DEF Goes, BeatState
<1>6. Coming' = Coming /\ Lying' = Lying /\ Taken' = {} /\ Taken = {reader.snapshot}
  BY <1>1 DEF Coming, Lying, Taken, NoReader
<1>7. Told' \subseteq Taken
  <2>1. \/ report' = [kind |-> "active", of |-> reader.snapshot, at |-> reader.at]
        \/ report' = [kind |-> "unavailable"]
    BY DEF CheckProcess
  <2>2. QED BY <1>6, <2>1 DEF Told
<1>8. ASSUME NEW s \in Written, Owned(s) PROVE Owned(s)'
  BY <1>3, <1>5, <1>8, OwnedKeeps DEF ActivityInv
<1>9. \A s \in Coming' \cup Lying' \cup Taken' \cup Told' : s \in Written /\ Owned(s)' /\ s.ticks \in 1..MaxTicks
  <2>1. ASSUME NEW s \in Coming' \cup Lying' \cup Taken' \cup Told'
        PROVE  s \in Written /\ Owned(s) /\ s.ticks \in 1..MaxTicks
    BY <1>6, <1>7 DEF ActivityInv, WritingsRight
  <2>2. QED BY <1>8, <2>1
<1>10. \A s \in Lying' \cup Taken' \cup Told', t \in Coming' : UpTo(s, t)
  BY <1>6, <1>7 DEF ActivityInv, WritingsRight
<1>11. \A s \in Taken' \cup Told', t \in Lying' : UpTo(s, t)
  BY <1>6, <1>7 DEF ActivityInv, WritingsRight
<1>12. WritingsRight'
  BY <1>6, <1>9, <1>10, <1>11 DEF WritingsRight
<1>13. QED BY <1>3, <1>4, <1>12 DEF ActivityInv

(* Every step keeps the invariant of the activity file.                    *)
LEMMA ActivityKeeps ==
  ASSUME ActivityInv, [ActivityNext]_activityVars
  PROVE  ActivityInv'
<1>1. CASE UNCHANGED activityVars
  <2>1. /\ boot' = boot /\ starts' = starts /\ proc' = proc /\ beat' = beat /\ clock' = clock /\ asleep' = asleep
        /\ file' = file /\ reader' = reader /\ report' = report /\ disturbed' = disturbed
    BY <1>1 DEF activityVars
  <2>2. clock \in Nat /\ asleep \in Nat /\ disturbed \in BOOLEAN
    BY DEF ActivityInv, ActivityTyped
  <2>3. Monotonic' >= Monotonic
    BY <2>1, <2>2 DEF Monotonic
  <2>4. QED BY <2>1, <2>2, <2>3, TimeKeeps DEF Watching
<1>2. ASSUME NEW p \in Pids, Start(p) PROVE ActivityInv'
  BY <1>2, StartKeeps
<1>3. ASSUME NEW p \in Pids, Stop(p) \/ Continue(p) \/ Kill(p) PROVE ActivityInv'
  <2>1. disturbed \in BOOLEAN
    BY DEF ActivityInv, ActivityTyped
  <2>2. proc[p] # None /\ disturbed' \in BOOLEAN /\ UNCHANGED <<Machine, starts, beat, file, Watching>>
    BY <1>3, <2>1 DEF Stop, Continue, Kill, Signal
  <2>3. PICK to \in {"R", "T", "Z"} : proc' = [proc EXCEPT ![p].state = to]
    BY <1>3 DEF Stop, Continue, Kill, Signal
  <2>4. QED BY <2>2, <2>3, SignalKeeps
<1>4. ASSUME NEW p \in Pids, Reap(p) PROVE ActivityInv'
  BY <1>4, ReapKeeps
<1>5. CASE Tick \/ Suspend
  <2>1. clock \in Nat /\ asleep \in Nat /\ disturbed \in BOOLEAN
    BY DEF ActivityInv, ActivityTyped
  <2>2. clock' = clock + 1 /\ asleep' \in {asleep, asleep + 1} /\ disturbed' \in BOOLEAN
    BY <1>5, <2>1 DEF Tick, Suspend
  <2>3. Monotonic' >= Monotonic
    <3>1. clock' = clock + 1 /\ (asleep' = asleep \/ asleep' = asleep + 1)
      BY <2>2
    <3>2. clock' - asleep' >= clock - asleep
      BY <2>1, <3>1
    <3>3. QED BY <3>2 DEF Monotonic
  <2>4. UNCHANGED <<boot, starts, proc, beat, file, Watching>>
    BY <1>5 DEF Tick, Suspend
  <2>5. clock' \in Nat /\ asleep' \in Nat
    BY <2>1, <2>2
  <2>6. QED BY <2>2, <2>3, <2>4, <2>5, TimeKeeps
<1>6. QED BY <1>1, <1>2, <1>3, <1>4, <1>5, BeatKeeps, RebootKeeps, ReadKeeps, CheckKeeps DEF ActivityNext

-----------------------------------------------------------------------------
(* Undisturbed, the file follows the Beat that runs.                       *)
Quiet ==
  /\ asleep = 0 /\ \A p \in Pids : proc[p] # None => proc[p].state = "R"
  /\ \A s \in Coming \cup Lying \cup Taken : ByBeat(s)
  /\ beat.pc \in {"stamp", "replace"} => beat.attempt = clock
  /\ \A s \in Coming : s.at = clock
  /\ beat.pc = "loop" /\ beat.attempt # None => Lying # {} /\ file.at = beat.attempt
  /\ Lying # {} => file.at <= clock
  /\ finished # None => Lying # {} /\ finished \in Nat /\ finished <= clock /\ finished - file.at <= Interval

QuietInv == ~disturbed => Quiet

(* The file, when there is one, is a writing.                              *)
LEMMA LyingFile == ASSUME ActivityInv, Lying # {}
                   PROVE  Lying = {file} /\ file \in Written /\ file # None
BY DEF Lying, ActivityInv, ActivityTyped

(* Beat's own steps.                                                       *)
LEMMA BeatQuiet ==
  ASSUME ActivityInv, Quiet, Beat, disturbed' = FALSE
  PROVE  Quiet'
<1>1. /\ boot' = boot /\ clock' = clock /\ asleep' = asleep /\ starts' = starts /\ proc' = proc /\ reader' = reader
  BY DEF Beat, Publish, TickReturns, Stamp, ReplaceFile, WriteFails, Machine, Watching
<1>2. beat \in BeatState /\ clock \in Nat /\ asleep = 0
  BY DEF ActivityInv, ActivityTyped, Quiet
<1>3. Taken' = Taken /\ Monotonic = clock
  BY <1>1, <1>2 DEF Taken, Monotonic
<1>4. CASE Publish
  <2>1. /\ beat'.pid = beat.pid /\ beat'.pc = "loop" /\ beat.pc = "loop" /\ beat'.attempt = beat.attempt
        /\ file' = file /\ finished' = finished
    BY <1>2, <1>4 DEF Publish, BeatState
  <2>2. Coming' = {} /\ Lying' = Lying
    BY <2>1 DEF Coming, Lying
  <2>3. \A s \in Lying \cup Taken : ByBeat(s)'
    BY <1>1, <2>1 DEF ByBeat, Quiet
  <2>4. QED BY <1>1, <1>3, <2>1, <2>2, <2>3 DEF Quiet
<1>5. CASE TickReturns /\ Due
  <2>1. /\ beat' = [beat EXCEPT !.pc = "stamp", !.ticks = beat.ticks + 1, !.attempt = Monotonic]
        /\ file' = file /\ finished' = finished
    BY <1>5 DEF TickReturns
  <2>2. beat'.pid = beat.pid /\ beat'.pc = "stamp" /\ beat'.attempt = clock
    BY <1>2, <1>3, <2>1 DEF BeatState
  <2>3. Coming' = {} /\ Lying' = Lying
    BY <2>1, <2>2 DEF Coming, Lying
  <2>4. \A s \in Lying \cup Taken : ByBeat(s)'
    BY <1>1, <2>2 DEF ByBeat, Quiet
  <2>5. QED BY <1>1, <1>3, <2>1, <2>2, <2>3, <2>4 DEF Quiet
<1>6. CASE TickReturns /\ ~Due
  <2>1. /\ beat' = [beat EXCEPT !.ticks = beat.ticks + 1] /\ file' = file /\ finished' = clock /\ beat.pc = "loop"
    BY <1>6 DEF TickReturns
  <2>2. beat'.pid = beat.pid /\ beat'.pc = "loop" /\ beat'.attempt = beat.attempt
    BY <1>2, <2>1 DEF BeatState
  <2>3. Coming' = {} /\ Lying' = Lying
    BY <2>1, <2>2 DEF Coming, Lying
  <2>4. \A s \in Lying \cup Taken : ByBeat(s)'
    BY <1>1, <2>2 DEF ByBeat, Quiet
  <2>5. beat.attempt # None /\ beat.attempt \in Int /\ ~(clock - beat.attempt >= Interval)
    BY <1>2, <1>3, <1>6 DEF Due, BeatState
  <2>6. Lying # {} /\ file.at = beat.attempt
    BY <2>1, <2>5 DEF Quiet
  <2>7. clock - file.at <= Interval
    BY <1>2, <2>5, <2>6, ActivityAssumption
  <2>8. QED BY <1>1, <1>2, <1>3, <2>1, <2>2, <2>3, <2>4, <2>6, <2>7 DEF Quiet
<1>7. CASE Stamp
  <2>1. /\ beat' = [beat EXCEPT !.pc = "replace", !.snapshot = Snapshot] /\ file' = file /\ finished' = finished
        /\ beat.pc = "stamp" /\ beat.pid # None
    BY <1>7 DEF Stamp, Runs
  <2>2. beat'.pid = beat.pid /\ beat'.pc = "replace" /\ beat'.attempt = beat.attempt /\ beat'.snapshot = Snapshot
    BY <1>2, <2>1 DEF BeatState
  <2>3. Coming' = {Snapshot} /\ Lying' = Lying
    BY <2>1, <2>2 DEF Coming, Lying
  <2>4. \A s \in Lying \cup Taken : ByBeat(s)'
    BY <1>1, <2>2 DEF ByBeat, Quiet
  <2>5. Snapshot.at = clock /\ Snapshot.pid = beat.pid /\ Snapshot.boot = boot /\ Snapshot.start = proc[beat.pid].start
    BY DEF Snapshot
  <2>6. ASSUME NEW s, s = Snapshot PROVE ByBeat(s)' /\ s.at = clock'
    BY <1>1, <2>1, <2>2, <2>5, <2>6 DEF ByBeat
  <2>7. beat.attempt = clock
    BY <2>1 DEF Quiet
  <2>8. QED BY <1>1, <1>3, <2>1, <2>2, <2>3, <2>4, <2>6, <2>7 DEF Quiet
<1>8. CASE ReplaceFile
  <2>1. /\ beat' = [beat EXCEPT !.pc = "loop", !.snapshot = None] /\ file' = beat.snapshot /\ finished' = clock
        /\ beat.pc = "replace"
    BY <1>8 DEF ReplaceFile
  <2>2. beat'.pid = beat.pid /\ beat'.pc = "loop" /\ beat'.attempt = beat.attempt
    BY <1>2, <2>1 DEF BeatState
  <2>3. Coming = {beat.snapshot} /\ Coming' = {}
    BY <2>1, <2>2 DEF Coming
  <2>4. beat.snapshot \in Written
    BY <2>3 DEF ActivityInv, WritingsRight
  <2>5. Lying' = {file'}
    BY <2>1, <2>4, ActivityAssumption DEF Lying
  <2>6. \A s \in Coming \cup Taken : ByBeat(s)'
    BY <1>1, <2>2 DEF ByBeat, Quiet
  <2>7. file'.at = clock /\ beat.attempt = clock
    BY <2>1, <2>3 DEF Quiet
  <2>8. finished' - file'.at <= Interval
    BY <1>2, <2>1, <2>7, ActivityAssumption
  <2>9. QED BY <1>1, <1>2, <1>3, <2>1, <2>2, <2>3, <2>5, <2>6, <2>7, <2>8 DEF Quiet
<1>9. QED BY <1>4, <1>5, <1>6, <1>7, <1>8 DEF Beat, WriteFails

(* The start of a process.                                                 *)
LEMMA StartQuiet ==
  ASSUME ActivityInv, Quiet, NEW p \in Pids, Start(p)
  PROVE  Quiet'
<1>1. /\ boot' = boot /\ clock' = clock /\ asleep' = asleep /\ file' = file /\ reader' = reader /\ proc[p] = None
  BY DEF Start, Machine, Watching
<1>2. /\ beat \in BeatState /\ proc \in [Pids -> Process \cup {None}]
  BY DEF ActivityInv, ActivityTyped
<1>3. PICK isBeat \in BOOLEAN :
        /\ isBeat => beat.pid = None
        /\ proc' = [proc EXCEPT ![p] = [start |-> starts, state |-> "R", beat |-> isBeat]]
        /\ IF isBeat THEN beat' = [NoBeat EXCEPT !.pid = p, !.pc = "loop"] /\ finished' = None
                     ELSE UNCHANGED <<beat, finished>>
  BY DEF Start
<1>4. /\ proc'[p].state = "R" /\ \A q \in Pids \ {p} : proc'[q] = proc[q]
  BY <1>2, <1>3
<1>5. \A q \in Pids : proc'[q] # None => proc'[q].state = "R"
  BY <1>4 DEF Quiet
<1>6. Lying' = Lying /\ Taken' = Taken
  BY <1>1 DEF Lying, Taken
<1>7. CASE isBeat = TRUE
  <2>1. beat.pid = None /\ beat' = [NoBeat EXCEPT !.pid = p, !.pc = "loop"] /\ finished' = None
    BY <1>3, <1>7
  <2>2. beat'.pc = "loop" /\ beat'.attempt = None
    BY <2>1 DEF NoBeat
  <2>3. Coming' = {} /\ Lying' = {} /\ Taken' = {}
    BY <1>6, <2>1, <2>2 DEF Coming, Quiet, ByBeat
  <2>4. QED BY <1>1, <1>5, <2>1, <2>2, <2>3 DEF Quiet
<1>8. CASE isBeat = FALSE
  <2>1. beat' = beat /\ finished' = finished
    BY <1>3, <1>8
  <2>2. Coming' = Coming
    BY <2>1 DEF Coming
  <2>3. beat.pid # None => beat.pid \in Pids /\ beat.pid # p
    BY <1>1, <1>2 DEF BeatState, ActivityInv, OneBeat
  <2>4. \A s \in Coming \cup Lying \cup Taken : ByBeat(s)'
    BY <1>1, <1>4, <2>1, <2>3 DEF ByBeat, Quiet
  <2>5. QED BY <1>1, <1>5, <1>6, <2>1, <2>2, <2>4 DEF Quiet
<1>9. QED BY <1>7, <1>8

(* The clock moves on, the command reads and looks.                        *)
LEMMA RestQuiet ==
  ASSUME ActivityInv, Quiet, Tick \/ Read \/ CheckProcess, disturbed' = FALSE
  PROVE  Quiet'
<1>1. /\ boot' = boot /\ asleep' = asleep /\ proc' = proc /\ beat' = beat /\ file' = file /\ finished' = finished
      /\ (clock' = clock \/ (clock' = clock + 1 /\ ~(beat.pc \in {"stamp", "replace"})))
  <2>1. CASE Tick
    <3>1. disturbed' = (disturbed \/ beat.pc \in {"stamp", "replace"})
      BY <2>1 DEF Tick
    <3>2. ~(beat.pc \in {"stamp", "replace"})
      BY <3>1
    <3>3. QED BY <2>1, <3>2 DEF Tick
  <2>2. CASE Read
    BY <2>2 DEF Read, Machine
  <2>3. CASE CheckProcess
    BY <2>3 DEF CheckProcess, Machine
  <2>4. QED BY <2>1, <2>2, <2>3
<1>2. clock \in Nat
  BY DEF ActivityInv, ActivityTyped
<1>3. Taken' \subseteq Taken \cup Lying
  BY DEF Tick, Read, CheckProcess, Watching, Taken, Lying, NoReader
<1>4. Coming' = Coming /\ Lying' = Lying
  BY <1>1 DEF Coming, Lying
<1>5. \A s \in Coming \cup Lying \cup Taken : ByBeat(s)'
  BY <1>1 DEF ByBeat, Quiet
<1>6. \A s \in Coming' \cup Lying' \cup Taken' : ByBeat(s)'
  BY <1>3, <1>4, <1>5
<1>7. CASE clock' = clock
  BY <1>1, <1>4, <1>6, <1>7 DEF Quiet
<1>8. CASE clock' = clock + 1 /\ ~(beat.pc \in {"stamp", "replace"})
  <2>1. Coming' = {}
    BY <1>4, <1>8 DEF Coming
  <2>2. Lying # {} => file.at <= clock'
    <3>1. ASSUME Lying # {} PROVE file.at <= clock'
      <4>1. file.at \in Nat /\ file.at <= clock
        BY <3>1, LyingFile DEF Written, Quiet
      <4>2. QED BY <1>2, <1>8, <4>1
    <3>2. QED BY <3>1
  <2>3. finished # None => finished <= clock'
    BY <1>2, <1>8 DEF Quiet
  <2>4. QED BY <1>1, <1>4, <1>6, <1>8, <2>1, <2>2, <2>3 DEF Quiet
<1>9. QED BY <1>1, <1>7, <1>8

(* Every step keeps what holds while nothing has gone wrong.               *)
LEMMA QuietKeeps ==
  ASSUME ActivityInv, QuietInv, [ActivityNext]_activityVars
  PROVE  QuietInv'
<1>1. SUFFICES ASSUME disturbed' = FALSE PROVE Quiet'
  BY ActivityKeeps DEF ActivityInv, ActivityTyped, QuietInv
<1>2. disturbed \in BOOLEAN
  BY DEF ActivityInv, ActivityTyped
<1>3. CASE UNCHANGED activityVars
  <2>1. disturbed = FALSE
    BY <1>1, <1>3 DEF activityVars
  <2>2. Quiet
    BY <2>1 DEF QuietInv
  <2>3. QED BY <1>3, <2>2 DEF activityVars, Quiet, Coming, Lying, Taken, ByBeat
<1>4. CASE ActivityNext
  <2>1. disturbed = FALSE
    <3>1. disturbed' = disturbed \/ disturbed' = TRUE \/ disturbed' = (disturbed \/ beat.pc \in {"stamp", "replace"})
      BY <1>4 DEF ActivityNext, Beat, Publish, TickReturns, Stamp, ReplaceFile, WriteFails, Start, Stop, Continue,
                  Kill, Reap, Tick, Suspend, Reboot, Read, CheckProcess
    <3>2. QED BY <1>1, <1>2, <3>1
  <2>2. Quiet
    BY <2>1 DEF QuietInv
  <2>3. ~Suspend /\ ~Reboot /\ \A p \in Pids : ~Stop(p) /\ ~Kill(p) /\ ~Continue(p) /\ ~Reap(p)
    BY <1>1, <2>2 DEF Suspend, Reboot, Stop, Kill, Continue, Reap, Signal, Quiet
  <2>4. \/ Beat \/ Tick \/ Read \/ CheckProcess \/ \E p \in Pids : Start(p)
    BY <1>4, <2>3 DEF ActivityNext
  <2>5. QED BY <1>1, <2>2, <2>4, BeatQuiet, StartQuiet, RestQuiet
<1>5. QED BY <1>3, <1>4

-----------------------------------------------------------------------------
(* The three properties of a step.                                         *)
ActiveNow ==
  report' # report /\ report'.kind = "active" =>
    LET s == report'.of
    IN /\ beat.pid = s.pid /\ proc[s.pid].start = s.start /\ proc[s.pid].state = "R"
       /\ beat.ticks >= s.ticks /\ s.boot = boot /\ report'.at - s.at \in 0..MaxAge
GrownNow ==
  (report.kind = "active" /\ report'.kind = "active" /\ Incarnation(report) = Incarnation(report')) =>
    /\ report.of.ticks <= report'.of.ticks
    /\ report.of.returns <= report'.of.returns
    /\ report.of.errors <= report'.of.errors
SeenNow ==
  report' # report /\ report'.kind = "unavailable" /\ ~disturbed /\ finished # None =>
    clock - finished > MaxAge - Interval

(* What can make an answer.                                                *)
LEMMA Answering ==
  ASSUME ActivityNext, report' # report
  PROVE  \/ Read /\ report' = [kind |-> "unavailable"] /\ ~(file # None /\ Fresh(file))
         \/ Reboot /\ report' = [kind |-> "none"]
         \/ /\ CheckProcess /\ reader.snapshot \in Taken
            /\ \/ Identified(reader.snapshot)
                  /\ report' = [kind |-> "active", of |-> reader.snapshot, at |-> reader.at]
               \/ ~Identified(reader.snapshot) /\ report' = [kind |-> "unavailable"]
<1>1. Read \/ Reboot \/ CheckProcess
  BY DEF ActivityNext, Beat, Publish, TickReturns, Stamp, ReplaceFile, WriteFails, Start, Stop, Continue,
         Kill, Reap, Tick, Suspend, Watching
<1>2. CASE Read
  BY <1>2 DEF Read
<1>3. CASE Reboot
  BY <1>3 DEF Reboot, NoReport
<1>4. CASE CheckProcess
  BY <1>4 DEF CheckProcess, Taken
<1>5. QED BY <1>1, <1>2, <1>3, <1>4

(* An answer "active" is about the Beat that runs.                         *)
LEMMA ActiveStep ==
  ASSUME ActivityInv, [ActivityNext]_activityVars
  PROVE  ActiveNow
<1>1. SUFFICES ASSUME report' # report, report'.kind = "active"
               PROVE  /\ beat.pid = report'.of.pid /\ proc[report'.of.pid].start = report'.of.start
                      /\ proc[report'.of.pid].state = "R" /\ beat.ticks >= report'.of.ticks
                      /\ report'.of.boot = boot /\ report'.at - report'.of.at \in 0..MaxAge
  BY DEF ActiveNow
<1>2. ActivityNext
  BY <1>1 DEF activityVars
<1>3. /\ reader.snapshot \in Taken /\ Identified(reader.snapshot)
      /\ report'.of = reader.snapshot /\ report'.at = reader.at
  BY <1>1, <1>2, Answering
<1>4. PICK s \in Taken : s = reader.snapshot
  BY <1>3
<1>5. /\ s \in Written /\ Owned(s) /\ s.boot = boot /\ reader.at - s.at \in 0..MaxAge
  BY <1>4 DEF ActivityInv, WritingsRight
<1>6. proc[s.pid] # None /\ proc[s.pid].state = "R" /\ proc[s.pid].start = s.start
  BY <1>3, <1>4 DEF Identified
<1>7. beat.pid = s.pid /\ s.ticks <= beat.ticks
  BY <1>5, <1>6 DEF Owned
<1>8. s.ticks \in Nat /\ beat.ticks \in Nat
  BY <1>5 DEF Written, ActivityInv, ActivityTyped, BeatState
<1>9. QED BY <1>3, <1>4, <1>5, <1>6, <1>7, <1>8

(* Two answers about one Beat: the second shows no less.                   *)
LEMMA GrownStep ==
  ASSUME ActivityInv, [ActivityNext]_activityVars
  PROVE  GrownNow
<1>1. SUFFICES ASSUME report.kind = "active", report'.kind = "active", Incarnation(report) = Incarnation(report')
               PROVE  /\ report.of.ticks <= report'.of.ticks
                      /\ report.of.returns <= report'.of.returns
                      /\ report.of.errors <= report'.of.errors
  BY DEF GrownNow
<1>2. Told = {report.of} /\ report.of \in Written
  BY <1>1 DEF Told, ActivityInv, WritingsRight
<1>3. CASE report' = report
  BY <1>2, <1>3 DEF Written
<1>4. CASE report' # report
  <2>1. ActivityNext
    BY <1>4 DEF activityVars
  <2>2. reader.snapshot \in Taken /\ report'.of = reader.snapshot
    BY <1>1, <1>4, <2>1, Answering
  <2>3. UpTo(report.of, report'.of)
    BY <1>2, <2>2 DEF ActivityInv, WritingsRight
  <2>4. /\ report.of.boot = report'.of.boot /\ report.of.pid = report'.of.pid /\ report.of.start = report'.of.start
    BY <1>1 DEF Incarnation
  <2>5. QED BY <2>3, <2>4 DEF UpTo
<1>5. QED BY <1>3, <1>4

(* Undisturbed, a Beat that came out of a tick lately is not missed.       *)
LEMMA SeenStep ==
  ASSUME ActivityInv, QuietInv, [ActivityNext]_activityVars
  PROVE  SeenNow
<1>1. SUFFICES ASSUME report' # report, report'.kind = "unavailable", ~disturbed, finished # None
               PROVE  clock - finished > MaxAge - Interval
  BY DEF SeenNow
<1>2. ActivityNext /\ Quiet
  BY <1>1 DEF activityVars, QuietInv
<1>3. /\ Lying # {} /\ finished \in Nat /\ finished <= clock /\ finished - file.at <= Interval /\ file.at <= clock
  BY <1>1, <1>2 DEF Quiet
<1>4. Lying = {file} /\ file \in Written /\ file # None /\ file.boot = boot
  BY <1>2, <1>3, LyingFile DEF Quiet, ByBeat
<1>5. CASE ~(file # None /\ Fresh(file))
  <2>1. ~(clock - file.at \in 0..MaxAge)
    BY <1>4, <1>5 DEF Fresh
  <2>2. file.at \in Nat /\ clock \in Nat
    BY <1>4 DEF Written, ActivityInv, ActivityTyped
  <2>3. QED BY <1>3, <2>1, <2>2, ActivityAssumption
<1>6. CASE reader.snapshot \in Taken /\ ~Identified(reader.snapshot)
  <2>1. PICK s \in Taken : s = reader.snapshot
    BY <1>6
  <2>2. ByBeat(s) /\ s \in Written
    BY <1>2 DEF Quiet, ActivityInv, WritingsRight
  <2>3. proc[s.pid] # None /\ proc[s.pid].start = s.start /\ s.pid \in Pids
    BY <2>2 DEF ByBeat, ActivityInv, OneBeat, Written
  <2>4. proc[s.pid].state = "R"
    BY <1>2, <2>3 DEF Quiet
  <2>5. QED BY <1>6, <2>1, <2>3, <2>4 DEF Identified
<1>7. QED BY <1>1, <1>2, <1>5, <1>6, Answering

(* Before anything runs there is no Beat and no file.                      *)
LEMMA ActivityStarts == ActivityInit => ActivityInv /\ QuietInv
<1>1. SUFFICES ASSUME ActivityInit PROVE ActivityInv /\ QuietInv
  OBVIOUS
<1>2. NoBeat \in BeatState /\ NoBeat.pid = None /\ NoBeat.pc = "gone" /\ NoBeat.ticks = 0 /\ NoBeat.attempt = None
  BY DEF NoBeat, BeatState
<1>3. ActivityTyped
  BY <1>1, <1>2 DEF ActivityInit, ActivityTyped
<1>4. OneBeat
  BY <1>1, <1>2, ActivityAssumption DEF ActivityInit, OneBeat
<1>5. Coming = {} /\ Lying = {} /\ Taken = {} /\ Told = {}
  BY <1>1, <1>2 DEF ActivityInit, Coming, Lying, Taken, Told, NoReader, NoReport
<1>6. WritingsRight
  BY <1>5 DEF WritingsRight
<1>7. Quiet
  BY <1>1, <1>2, <1>5 DEF ActivityInit, Quiet
<1>8. QED BY <1>3, <1>4, <1>6, <1>7 DEF ActivityInv, QuietInv

(* The invariant says what the type invariant says.                        *)
LEMMA ActivityTypeHolds == ActivityInv => ActivityTypeOK
<1>1. SUFFICES ASSUME ActivityInv PROVE ActivityTypeOK
  OBVIOUS
<1>2. beat.pc \in {"gone", "loop", "stamp", "replace"}
  BY <1>1 DEF ActivityInv, ActivityTyped, BeatState
<1>3. file # None => file.ticks \in 1..MaxTicks
  BY <1>1 DEF ActivityInv, WritingsRight, Lying
<1>4. QED BY <1>1, <1>2, <1>3 DEF ActivityInv, OneBeat, ActivityTypeOK

(* What an answer about Beat says is true, with any number of processes,   *)
(* starts, boots, suspensions, writes and reads.                           *)
THEOREM ReportsKept == ActivitySpec => ReportsTrue
<1>1. ActivitySpec => [](ActivityInv /\ QuietInv)
  <2>1. ActivityInit => ActivityInv /\ QuietInv
    BY ActivityStarts
  <2>2. ActivityInv /\ QuietInv /\ [ActivityNext]_activityVars => (ActivityInv /\ QuietInv)'
    BY ActivityKeeps, QuietKeeps
  <2>3. QED BY <2>1, <2>2, PTL DEF ActivitySpec
<1>2. ActivityInv => ActivityTypeOK
  BY ActivityTypeHolds
<1>3. ActivityInv /\ [ActivityNext]_activityVars => ActiveNow
  BY ActiveStep
<1>4. ActivityInv /\ [ActivityNext]_activityVars => GrownNow
  BY GrownStep
<1>5. ActivityInv /\ QuietInv /\ [ActivityNext]_activityVars => SeenNow
  BY SeenStep
<1>6. ActivitySpec => []ActivityTypeOK
  BY <1>1, <1>2, PTL
<1>7. ActivitySpec => [][ActiveNow]_activityVars
  BY <1>1, <1>3, PTL DEF ActivitySpec
<1>8. ActivitySpec => [][GrownNow]_activityVars
  BY <1>1, <1>4, PTL DEF ActivitySpec
<1>9. ActivitySpec => [][SeenNow]_activityVars
  BY <1>1, <1>5, PTL DEF ActivitySpec
<1>10. QED BY <1>6, <1>7, <1>8, <1>9 DEF ReportsTrue, ActiveIsAlive, CountersGrow, NotMissed, ActiveNow, GrownNow, SeenNow
=============================================================================
