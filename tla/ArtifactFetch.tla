----------------------------- MODULE ArtifactFetch -----------------------------
(***************************************************************************)
(* How an ingestion gets the bytes of a source document, and how it knows  *)
(* that the provider's copy has the same ones (infrastructure/external/    *)
(* artifact_content.py, RAGFlowClient.verify_document_content).            *)
(*                                                                         *)
(* A reference pins an object: version, size, digest, media type.  The     *)
(* object store is asked twice, HEAD then GET, and may answer each time    *)
(* with something else; a body may be longer or shorter than its           *)
(* Content-Length, since the client decodes it.  A body is a sequence of   *)
(* bytes and stands for its own digest: SHA-256 is taken to be injective.  *)
(***************************************************************************)
EXTENDS Naturals, Sequences

CONSTANTS RefLists,    \* source_artifact_refs of a job
          Objects,     \* what the store may hold: [length, type, body]
          Copies,      \* bodies the provider may hold
          Versions,    \* storage versions
          Types,       \* artifact_content_type_allowlist
          MaxSize,     \* artifact_max_size_bytes
          MaxChunk,    \* bytes the network delivers at once (bound)
          MaxReplaced, \* objects replaced in the store (bound)
          Missing

VARIABLES refs,
          objects,   \* the store: the object of every version
          pc,        \* "check", "head", "get", "stream", "fetched", "verifying", "verified", "refused"
          coming,    \* bytes of the open response that have not arrived
          got,       \* bytes of the open response kept or digested
          content,   \* ArtifactContent, or Missing
          copy,      \* the provider's document
          replaced,
          pristine   \* ghost: has the store answered with the pinned object alone?

ASSUME ArtifactAssumption ==
  /\ MaxSize \in Nat
  /\ \A o \in Objects : o.body \in Seq(Nat)
  /\ Copies \subseteq Seq(Nat)
  /\ \A rs \in RefLists : \A i \in DOMAIN rs : rs[i].sha256 \in Seq(Nat) /\ rs[i].size = Len(rs[i].sha256)

artifactVars == <<refs, objects, pc, coming, got, content, copy, replaced, pristine>>

Ref == refs[1]
Pins(r, o) == o.length = r.size /\ o.type = r.type /\ o.body = r.sha256

ArtifactInit == /\ refs \in RefLists /\ objects \in [Versions -> Objects] /\ pc = "check"
                /\ coming = <<>> /\ got = <<>> /\ content = Missing /\ copy \in Copies /\ replaced = 0
                /\ pristine = \A i \in DOMAIN refs : refs[i].version # Missing =>
                                Pins(refs[i], objects[refs[i].version])

Refused == pc' = "refused" /\ coming' = <<>> /\ got' = <<>> /\ content' = Missing

-----------------------------------------------------------------------------
\* _resolve_artifact_ref and the first half of _fetch_s3_object.
AnySize(rs) == Len(rs) = 1 /\ rs[1].place = "allowed" /\ rs[1].version # Missing /\ rs[1].type \in Types
Acceptable(rs) ==                         \* AnySize is a mutant
  /\ Len(rs) = 1
  /\ rs[1].place = "allowed"              \* s3 uri, allowed bucket and prefix, no dot segment
  /\ rs[1].version # Missing
  /\ rs[1].size \in 1..MaxSize
  /\ rs[1].type \in Types

CheckReference ==
  /\ pc = "check"
  /\ IF Acceptable(refs) THEN pc' = "head" /\ UNCHANGED <<coming, got, content>> ELSE Refused
  /\ UNCHANGED <<refs, objects, copy, replaced, pristine>>

\* A store that ignores versionId answers with another version or names none.
Answers == {[id |-> v, of |-> objects[v]] : v \in Versions}
             \cup {[id |-> Missing, of |-> objects[v]] : v \in Versions}

\* _verify_s3_headers
HeadersMatch(a) == /\ a.id = Ref.version
                   /\ a.of.length = Ref.size
                   /\ a.of.type = Ref.type
Honest(a) == pristine /\ a.id = Ref.version

AskHead ==
  /\ pc = "head"
  /\ \E a \in Answers :
       /\ IF HeadersMatch(a) THEN pc' = "get" /\ UNCHANGED <<coming, got, content>> ELSE Refused
       /\ pristine' = Honest(a)
  /\ UNCHANGED <<refs, objects, copy, replaced>>

Get ==
  /\ pc = "get"
  /\ \E a \in Answers :
       /\ IF HeadersMatch(a)
          THEN pc' = "stream" /\ coming' = a.of.body /\ got' = <<>> /\ UNCHANGED content
          ELSE Refused
       /\ pristine' = Honest(a)
  /\ UNCHANGED <<refs, objects, copy, replaced>>

\* received > expected_size or received > artifact_max_size_bytes
NeverTooLong(n) == FALSE                                             \* mutants of TooLong
TooLongEarly(n) == n >= Ref.size
TooLong(n) == n > Ref.size \/ (pc = "stream" /\ n > MaxSize)

Arrive ==
  /\ pc \in {"stream", "verifying"} /\ coming # <<>>
  /\ \E n \in 1..MaxChunk :
       /\ n <= Len(coming)
       /\ IF TooLong(Len(got) + n) THEN Refused
          ELSE /\ got' = got \o SubSeq(coming, 1, n) /\ coming' = SubSeq(coming, n + 1, Len(coming))
               /\ UNCHANGED <<pc, content>>
  /\ UNCHANGED <<refs, objects, copy, replaced, pristine>>

\* len(content) != expected_size, then the digest
SameSize(bytes) == Len(bytes) = Ref.size                             \* mutant of Matches
Matches(bytes) == Len(bytes) = Ref.size /\ bytes = Ref.sha256

Fetched ==
  /\ pc = "stream" /\ coming = <<>>
  /\ IF Matches(got) THEN pc' = "fetched" /\ content' = got /\ got' = <<>> /\ UNCHANGED coming
                     ELSE Refused
  /\ UNCHANGED <<refs, objects, copy, replaced, pristine>>

\* uploaded_document verifies the document it has uploaded or found.
OpenCopy ==
  /\ pc = "fetched"
  /\ pc' = "verifying" /\ coming' = copy /\ got' = <<>>
  /\ UNCHANGED <<refs, objects, content, copy, replaced, pristine>>

Verified ==
  /\ pc = "verifying" /\ coming = <<>>
  /\ IF Matches(got) THEN pc' = "verified" /\ UNCHANGED <<coming, got, content>> ELSE Refused
  /\ UNCHANGED <<refs, objects, copy, replaced, pristine>>

\* _s3_http_error, RAGFlowError: a status, a timeout, a connection that breaks.
Break ==
  /\ pc \in {"head", "get", "stream", "verifying"}
  /\ Refused /\ pristine' = FALSE
  /\ UNCHANGED <<refs, objects, copy, replaced>>

\* Somebody writes the key while it is read; the store lost its versions.
ReplaceObject ==
  /\ replaced < MaxReplaced /\ pc \in {"head", "get", "stream"}
  /\ \E v \in Versions, o \in Objects :
       /\ objects' = [objects EXCEPT ![v] = o]
       /\ pristine' = (pristine /\ v # Ref.version)
  /\ replaced' = replaced + 1
  /\ UNCHANGED <<refs, pc, coming, got, content, copy>>

ArtifactNext == \/ CheckReference \/ AskHead \/ Get \/ Arrive \/ Fetched
                \/ OpenCopy \/ Verified \/ Break \/ ReplaceObject
ArtifactSpec == ArtifactInit /\ [][ArtifactNext]_artifactVars

-----------------------------------------------------------------------------
ArtifactTypeOK == /\ pc \in {"check", "head", "get", "stream", "fetched", "verifying", "verified", "refused"}
                  /\ objects \in [Versions -> Objects]
                  /\ pc # "check" /\ pc # "refused" => Len(refs) = 1 /\ Ref.size \in 1..MaxSize

\* _fetch_s3_object: whatever the store answers to HEAD and to GET, and whoever
\* writes the object meanwhile, the content handed to ingestion is the pinned one,
\* and the provider's copy is confirmed only when it is the same, byte for byte.
Exact == /\ content # Missing => content = Ref.sha256
         /\ pc = "verified" => copy = content

\* A body that grows as it is decoded never fills the memory: what is collected
\* stays within the declared size and the configured maximum.  Beside it stands one
\* chunk, decoded before its length can be added and compared.
Kept == Len(got) <= MaxSize /\ (got # <<>> => Len(got) <= Ref.size)

\* An acceptable reference is refused only when the store, the network or the
\* provider's copy gave a reason: no check refuses the pinned content itself.
FetchesWhatIsThere == pc = "refused" /\ Acceptable(refs) /\ pristine => copy # Ref.sha256

\* What holds of a download at every moment: only the pinned content gets through,
\* no more than it is kept, and it does get through.
ContentRight == ArtifactTypeOK /\ Exact /\ Kept /\ FetchesWhatIsThere
=============================================================================
