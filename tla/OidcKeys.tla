------------------------------ MODULE OidcKeys ------------------------------
(***************************************************************************)
(* The two caches of OidcProviderClient (infrastructure/security/oidc.py): *)
(* the provider's metadata and its key set.  Neither has a lock: requests  *)
(* that find a cache stale fetch side by side and the last answer stays,   *)
(* stamped with the time its request was sent.  The provider replaces its  *)
(* signing keys, and moves the address of its key set, as it likes.        *)
(*                                                                         *)
(* A verification decodes one token: with the cached keys, and if that     *)
(* fails with keys fetched on purpose.  A token is the key that signed it; *)
(* an address is the number of moves before it, and the old one is gone.   *)
(***************************************************************************)
EXTENDS Naturals

CONSTANTS Keys,         \* signing keys the provider ever has
          Verifiers,    \* verifications under way at once
          KeyTtl,          \* auth_discovery_cache_seconds = auth_jwks_cache_seconds
          FetchLatency,      \* bound: how long a fetch takes (auth_http_timeout_seconds)
          OidcMaxTime,      \* bound: length of a behaviour
          MaxMoves      \* bound: moves of the key set's address

\* By default a fetch takes ten seconds at most, and a cache lasts for 300.
ASSUME OidcAssumption == /\ KeyTtl \in Nat /\ FetchLatency \in Nat /\ FetchLatency < KeyTtl
                         /\ MaxMoves \in Nat

VARIABLES published,  \* the keys in the provider's key set
          lastPub,    \* key -> when it was last in the key set
          moves,      \* how often the address has moved
          movedAt,    \* when it last did
          cache,      \* "metadata", "keys" -> the cached value and its time
          v,          \* verification -> where it stands; gap: its key was not
                      \* published all the while
          oidcNow

oidcVars == <<published, lastPub, moves, movedAt, cache, v, oidcNow>>

Caches == {"metadata", "keys"}
Nothing == [value |-> {}, at |-> 0, set |-> FALSE]
NoVerification == [pc |-> "idle", key |-> {}, address |-> {}, force |-> FALSE,
                   at |-> 0, answer |-> {}, gap |-> FALSE]

OidcInit == /\ published \in {{k} : k \in Keys}
            /\ lastPub = [k \in Keys |-> 0]
            /\ moves = 0 /\ movedAt = 0
            /\ cache = [c \in Caches |-> Nothing]
            /\ v = [x \in Verifiers |-> NoVerification]
            /\ oidcNow = KeyTtl + FetchLatency

Waiting(x) == v[x].pc \in Caches /\ v[x].at # 0

\* The provider signs with another key; an old one may stay published.
Rotate(k, kept) ==
  /\ k \in Keys /\ kept \subseteq published /\ published # kept \cup {k}
  /\ published' = kept \cup {k}
  /\ lastPub' = [j \in Keys |-> IF j \in published \ published' THEN oidcNow ELSE lastPub[j]]
  /\ v' = [x \in Verifiers |-> IF v[x].pc \in Caches
                                THEN [v[x] EXCEPT !.gap = @ \/ ~(v[x].key \subseteq published')]
                                ELSE v[x]]
  /\ UNCHANGED <<moves, movedAt, cache, oidcNow>>

Move ==
  /\ moves < MaxMoves
  /\ moves' = moves + 1 /\ movedAt' = oidcNow
  /\ UNCHANGED <<published, lastPub, cache, v, oidcNow>>

-----------------------------------------------------------------------------
MetadataStays(c) ==                                             \* mutant of Fresh
  cache[c].set /\ (c = "metadata" \/ oidcNow - cache[c].at < KeyTtl)
Fresh(c) == cache[c].set /\ oidcNow - cache[c].at < KeyTtl
NeverForced(x) == FALSE                                         \* mutant of Forced
Forced(x) == v[x].force

\* What follows a key set that is there: the token is accepted, or decoded
\* once more with keys fetched on purpose, or refused.
Decoded(q, keys) ==
  IF q.key \subseteq keys THEN [q EXCEPT !.pc = "accepted", !.at = 0]
  ELSE IF q.force THEN [q EXCEPT !.pc = "refused", !.at = 0]
  ELSE [q EXCEPT !.force = TRUE, !.at = 0]

Verify(x, k) ==
  /\ v[x].pc \notin Caches
  /\ v' = [v EXCEPT ![x] = [NoVerification EXCEPT !.pc = "metadata", !.key = {k},
                                                      !.gap = k \notin published]]
  /\ UNCHANGED <<published, lastPub, moves, movedAt, cache, oidcNow>>

\* get_metadata and _get_key_set: the cached value, or a request sent now.
Look(x) ==
  LET q == v[x]  hit == Fresh(q.pc) /\ ~(q.pc = "keys" /\ Forced(x)) IN
  /\ q.pc \in Caches /\ q.at = 0
  /\ v' = [v EXCEPT ![x] =
       IF ~hit THEN [q EXCEPT !.at = oidcNow]
       ELSE IF q.pc = "metadata" THEN [q EXCEPT !.pc = "keys", !.address = cache["metadata"].value]
       ELSE Decoded(q, cache["keys"].value)]
  /\ UNCHANGED <<published, lastPub, moves, movedAt, cache, oidcNow>>

\* The provider reads the request and answers: with its metadata, with its
\* keys, or, at an address it has left, not at all.  The network may fail too.
Answer(x) ==
  LET q == v[x] IN
  /\ Waiting(x) /\ q.answer = {}
  /\ \/ v' = [v EXCEPT ![x].pc = "unreachable"]
     \/ q.pc = "metadata" /\ v' = [v EXCEPT ![x].answer = {moves}]
     \/ q.pc = "keys" /\ q.address = {moves} /\ v' = [v EXCEPT ![x].answer = published]
     \/ q.pc = "keys" /\ q.address # {moves} /\ v' = [v EXCEPT ![x].pc = "moved"]
  /\ UNCHANGED <<published, lastPub, moves, movedAt, cache, oidcNow>>

StampAtArrival(x) == oidcNow                                        \* mutant of Stamp
Stamp(x) == v[x].at

KeysOverMetadata(x) == "metadata"                               \* mutant of CacheOf
CacheOf(x) == v[x].pc

Save(x) ==
  LET q == [v[x] EXCEPT !.answer = {}]  got == v[x].answer IN
  /\ Waiting(x) /\ got # {}
  /\ cache' = [cache EXCEPT ![CacheOf(x)] = [value |-> got, at |-> Stamp(x), set |-> TRUE]]
  /\ v' = [v EXCEPT ![x] = IF q.pc = "metadata" THEN [q EXCEPT !.pc = "keys", !.address = got, !.at = 0]
                                                 ELSE Decoded(q, got)]
  /\ UNCHANGED <<published, lastPub, moves, movedAt, oidcNow>>

\* Time passes only while requests are under way, each for at most Latency.
OidcTick ==
  /\ oidcNow < OidcMaxTime
  /\ \A x \in Verifiers : v[x].pc \in Caches => v[x].at # 0 /\ oidcNow - v[x].at < FetchLatency
  /\ oidcNow' = oidcNow + 1
  /\ UNCHANGED <<published, lastPub, moves, movedAt, cache, v>>

OidcNext == \/ OidcTick \/ Move
            \/ \E k \in Keys, kept \in SUBSET Keys : Rotate(k, kept)
            \/ \E x \in Verifiers : Look(x) \/ Answer(x) \/ Save(x) \/ \E k \in Keys : Verify(x, k)

OidcSpec == OidcInit /\ [][OidcNext]_oidcVars

-----------------------------------------------------------------------------
Key(x) == CHOOSE k \in v[x].key : TRUE
PublishedSince(k, t) == k \in published \/ lastPub[k] > t

OidcTypeOK == /\ published \subseteq Keys /\ lastPub \in [Keys -> Nat]
              /\ moves \in 0..MaxMoves /\ movedAt \in Nat /\ oidcNow \in Nat
              /\ cache["metadata"].value \in {{}} \cup {{m} : m \in 0..moves}
              /\ cache["keys"].value \subseteq Keys
              /\ \A x \in Verifiers :
                   /\ v[x].pc \in {"idle", "accepted", "refused", "unreachable", "moved"} \cup Caches
                   /\ v[x].force \in BOOLEAN /\ v[x].at \in Nat

\* A token is refused as invalid only if its key was missing from the
\* provider's key set at some moment of the verification: a cache that another
\* request filled with older keys, even just now, refuses nobody.
FairlyRefused == \A x \in Verifiers : v[x].pc = "refused" => v[x].gap

\* A token is accepted only if its key was published within the last Ttl, or
\* within the time a fetch takes: an answer that arrives late and overwrites a
\* newer one does not make a retired key last longer.
RetiredSoon ==
  [][\A x \in Verifiers : v[x].pc # "accepted" /\ v'[x].pc = "accepted" =>
        PublishedSince(Key(x), oidcNow - KeyTtl) \/ PublishedSince(Key(x), oidcNow - FetchLatency - 1)]_oidcVars

\* A verification asks at an address the provider has left for at most Ttl,
\* and two fetches, after the move: forcing the keys never refreshes the metadata,
\* but the metadata expires.
MoveNoticed ==
  [][\A x \in Verifiers : v[x].pc # "moved" /\ v'[x].pc = "moved" =>
        oidcNow < movedAt + KeyTtl + 2 * FetchLatency]_oidcVars

\* What holds of the key caches at every moment.
KeysRight == OidcTypeOK /\ FairlyRefused

\* How long the caches lag behind the provider: behind its keys, and its address.
KeysFollow == RetiredSoon /\ MoveNoticed
=============================================================================
