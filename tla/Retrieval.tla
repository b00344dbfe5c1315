------------------------------ MODULE Retrieval ------------------------------
(***************************************************************************)
(* One retrieval (services/knowledge_retrieval_service.py): the versions   *)
(* that a request may be answered from are read, the provider is asked     *)
(* outside any transaction, and its chunks are mapped back to versions and *)
(* cut to the request's budget, one at a time (_assemble_response).        *)
(*                                                                         *)
(* A text is a sequence of characters, 1 for ink and 0 for white space;    *)
(* the adapter has stripped it.  A chunk goes by its place in the          *)
(* provider's answer.  Versions appear while the provider works.           *)
(***************************************************************************)
EXTENDS Integers, Sequences, SequencesExt, FiniteSets

CONSTANTS DocumentVersions,   \* id -> [dataset, scopes, active, indexed, binding, source]
          Requests,   \* [datasets, tenant, sources, topK, budget, scoped: the caller has the service scope]
          Chunks,     \* chunks the provider may return: [binding, text]
          MaxChunks,  \* length of its answer (bound)
          Totals,     \* how many candidates it may say it has
          Authorized, \* retrieval_datasets
          Tenant,     \* retrieval_default_tenant_id
          NoBinding   \* a chunk without a document

ASSUME RetrievalAssumption == /\ MaxChunks \in Nat /\ Totals \subseteq Nat
                              /\ \A r \in Requests : r.topK \in Nat /\ r.budget \in Nat
                              /\ \A c \in Chunks : c.text \in Seq({0, 1})

VARIABLES stored,    \* ids of the versions in the database
          request,
          pc,        \* "read", "ask", "map", "assemble", "answered"
          versions,  \* the versions read
          chunks, total,  \* the provider's answer
          next,      \* where the loop over chunks, then over mapped stands
          mapped,    \* the chunks of a version read
          evidence, left, cut,  \* the answer, what is left of its budget, whether a text was cut
          outcome    \* [kind, candidates, truncated]

retrievalVars == <<stored, request, pc, versions, chunks, total, next, mapped, evidence, left, cut, outcome>>
assembly == <<next, mapped, evidence, left, cut>>
NoOutcome == [kind |-> "none", candidates |-> 0, truncated |-> FALSE]
Fail(kind) == [NoOutcome EXCEPT !.kind = kind]

RetrievalInit == /\ stored \in SUBSET DOMAIN DocumentVersions
                 /\ request \in Requests
                 /\ pc = "read" /\ versions = {} /\ chunks = <<>> /\ total = 0
                 /\ next = 1 /\ mapped = <<>> /\ evidence = <<>> /\ left = request.budget /\ cut = FALSE
                 /\ outcome = NoOutcome

Allowed == request.datasets \subseteq Authorized /\ request.tenant = Tenant /\ request.scoped

AnyTenant(v) == /\ DocumentVersions[v].active /\ DocumentVersions[v].indexed        \* mutant of Eligible
                /\ DocumentVersions[v].dataset \in request.datasets
                /\ request.sources = {} \/ DocumentVersions[v].source \in request.sources
Eligible(v) == /\ DocumentVersions[v].active /\ DocumentVersions[v].indexed
               /\ DocumentVersions[v].dataset \in request.datasets
               /\ request.sources = {} \/ DocumentVersions[v].source \in request.sources
               /\ request.tenant \in DocumentVersions[v].scopes

Refuse ==
  /\ pc = "read" /\ ~Allowed
  /\ pc' = "answered" /\ outcome' = Fail("forbidden")
  /\ UNCHANGED <<stored, request, versions, chunks, total, assembly>>

ReadVersions ==
  /\ pc = "read" /\ Allowed
  /\ versions' = {v \in stored : Eligible(v)}
  /\ IF versions' = {} THEN pc' = "answered" /\ outcome' = Fail("answer")
                       ELSE pc' = "ask" /\ UNCHANGED outcome
  /\ UNCHANGED <<stored, request, chunks, total, assembly>>

\* The provider may return any chunks, also of documents it was not asked for,
\* and any total.
AskProvider ==
  /\ pc = "ask" /\ pc' = "map"
  /\ chunks' \in SeqOf(Chunks, MaxChunks) /\ total' \in Totals
  /\ UNCHANGED <<stored, request, versions, assembly, outcome>>

ProviderFails ==
  /\ pc = "ask" /\ pc' = "answered"
  /\ \E kind \in {"timeout", "bad gateway", "unavailable"} : outcome' = Fail(kind)
  /\ UNCHANGED <<stored, request, versions, chunks, total, assembly>>

-----------------------------------------------------------------------------
\* _assemble_response: by_binding, and the loop over the provider's chunks.
SourcesNow(c) == {v \in stored : DocumentVersions[v].binding = c.binding}  \* mutant of Sources
Sources(c) == {v \in versions : DocumentVersions[v].binding = c.binding}
Belongs(c) == c.binding # NoBinding /\ Sources(c) # {}

MapChunk ==
  /\ pc = "map" /\ next <= Len(chunks)
  /\ mapped' = IF Belongs(chunks[next]) THEN Append(mapped, next) ELSE mapped
  /\ next' = next + 1
  /\ UNCHANGED <<stored, request, pc, versions, chunks, total, evidence, left, cut, outcome>>

AllMapped ==
  /\ pc = "map" /\ next > Len(chunks)
  /\ pc' = "assemble" /\ next' = 1
  /\ UNCHANGED <<stored, request, versions, chunks, total, mapped, evidence, left, cut, outcome>>

\* content[:n].rstrip() or content[:n]
Trimmed(text, n) ==
  LET ink == {i \in 1..n : text[i] = 1}
  IN SubSeq(text, 1, IF ink = {} THEN n ELSE Max(ink))

WholeText(text) == text                                              \* mutant of Fitted
Fitted(text) == IF Len(text) > left THEN Trimmed(text, left) ELSE text

RoomForOne == Len(evidence) <= request.topK /\ left > 0              \* mutant of HasRoom
HasRoom == Len(evidence) < request.topK /\ left > 0

Text == chunks[mapped[next]].text
Piece == [chunk |-> mapped[next], version |-> CHOOSE v \in Sources(chunks[mapped[next]]) : TRUE,
          text |-> Fitted(Text), rank |-> Len(evidence) + 1, truncated |-> Len(Text) > left]

\* The loop over mapped passes over a chunk without text.
Place ==
  /\ pc = "assemble" /\ next <= Len(mapped) /\ HasRoom
  /\ IF Text = <<>> THEN UNCHANGED <<evidence, left, cut>>
     ELSE /\ evidence' = Append(evidence, Piece)
          /\ left' = left - Len(Fitted(Text))
          /\ cut' = (cut \/ Len(Text) > left)
  /\ next' = next + 1
  /\ UNCHANGED <<stored, request, pc, versions, chunks, total, mapped, outcome>>

CutOnly == cut                                                       \* mutant of Shortened
Shortened == cut \/ Len(evidence) < Len(mapped) \/ total > Len(chunks)

Respond ==
  /\ pc = "assemble" /\ (next > Len(mapped) \/ ~HasRoom)
  /\ pc' = "answered"
  /\ outcome' = [kind |-> "answer", candidates |-> Len(mapped), truncated |-> Shortened]
  /\ UNCHANGED <<stored, request, versions, chunks, total, assembly>>

\* Ingestion stores another version.
VersionIndexed ==
  /\ pc # "answered"
  /\ \E v \in DOMAIN DocumentVersions \ stored : stored' = stored \cup {v}
  /\ UNCHANGED <<request, pc, versions, chunks, total, assembly, outcome>>

RetrievalNext == \/ Refuse \/ ReadVersions \/ AskProvider \/ ProviderFails
                 \/ MapChunk \/ AllMapped \/ Place \/ Respond \/ VersionIndexed
RetrievalSpec == RetrievalInit /\ [][RetrievalNext]_retrievalVars

-----------------------------------------------------------------------------
Of(i) == DocumentVersions[evidence[i].version]

RetrievalTypeOK == /\ versions \subseteq stored /\ stored \subseteq DOMAIN DocumentVersions
                   /\ pc \in {"read", "ask", "map", "assemble", "answered"}
                   /\ Len(evidence) <= request.topK
                   /\ \A i \in DOMAIN evidence : evidence[i].rank = i /\ evidence[i].text # <<>>

\* _assemble_response: whatever the provider returns, a piece of evidence cites a
\* version of an authorized dataset, current, filtered and open to the tenant, and
\* one that was stored when the versions were read.
CitedOpenly == \A i \in DOMAIN evidence :
  /\ request.scoped
  /\ evidence[i].version \in versions
  /\ Of(i).active /\ Of(i).indexed /\ Of(i).dataset \in request.datasets \cap Authorized
  /\ Tenant \in Of(i).scopes
  /\ request.sources = {} \/ Of(i).source \in request.sources

\* The budget of the request bounds the characters of the whole answer, although a
\* text cut at white space leaves some of it to the next chunk; each text is the
\* start of a chunk of its version, and chunks keep the provider's order.
Characters == UNION {{i} \X DOMAIN evidence[i].text : i \in DOMAIN evidence}
WithinBudget ==
  /\ Cardinality(Characters) <= request.budget
  /\ \A i \in DOMAIN evidence : LET c == evidence[i].chunk IN
       /\ c \in DOMAIN chunks /\ chunks[c].binding = Of(i).binding
       /\ IsPrefix(evidence[i].text, chunks[c].text)
       /\ evidence[i].truncated <=> evidence[i].text # chunks[c].text
  /\ \A i, j \in DOMAIN evidence : i < j => evidence[i].chunk < evidence[j].chunk

\* An answer not marked as truncated holds in full all that the provider has for
\* the versions read.
NothingLeftOut == outcome.kind = "answer" /\ versions # {} /\ ~outcome.truncated =>
  /\ total <= Len(chunks)
  /\ {evidence[i].chunk : i \in DOMAIN evidence} = {c \in DOMAIN chunks : Belongs(chunks[c])}
  /\ \A i \in DOMAIN evidence : evidence[i].text = chunks[evidence[i].chunk].text

\* What holds of every answer: it cites what may be seen, within the budget, and is
\* complete or says that it is not.
RetrievalRight == RetrievalTypeOK /\ CitedOpenly /\ WithinBudget /\ NothingLeftOut
=============================================================================
