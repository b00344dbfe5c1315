--------------------------- MODULE DatasetCatalog ---------------------------
(***************************************************************************)
(* The versions of one registered dataset, from registration to the        *)
(* reader: SqlDatasetRegistry.register (a transaction under an advisory    *)
(* lock), the process's DatasetCatalog, which keeps the active version it  *)
(* last read for Ttl, and the two kinds of reader, a tool call (resolve)   *)
(* and a catalogue page (DatasetPages.detail).                             *)
(*                                                                         *)
(* Coroutines interleave only where the code awaits: the advisory lock and *)
(* the commit, the catalogue's lock, the read of the registry, the default *)
(* dataset's info, the download, and the reading of the structure.         *)
(***************************************************************************)
EXTENDS Naturals

CONSTANTS Versions, Digests,
          Callers,    \* registrations under way at once
          Readers,    \* tool calls and page requests under way at once
          Pages,      \* what readers ask for: {FALSE} tool calls, {TRUE} pages, or both
          NoVersion,       \* no version, no digest
          Ttl,        \* DatasetCatalog._ttl
          Latency,    \* bound: how long a read of the registry takes
          MaxTime,    \* bound: length of a behaviour
          MaxEpoch    \* bound: registrations that change the registry

ASSUME CatalogAssumption == /\ NoVersion \notin Versions \cup Digests
                            /\ Ttl \in Nat \ {0} /\ Latency \in Nat /\ Pages \subseteq BOOLEAN

VARIABLES status,    \* version -> "absent", "active", "superseded"
          digest,    \* version -> registered sha256
          epoch,     \* how often the active version has changed
          activeAt,  \* version -> the last time it was active
          reg,       \* caller -> its registration
          now,
          known,     \* DatasetCatalog._known: the version, and its epoch
          loadedAt,  \* DatasetCatalog._loaded_at
          services,  \* the versions DatasetCatalog._services has open
          details,   \* DatasetPages._details: version of the key -> version of the structure
          req        \* reader -> its request

registry == <<status, digest, epoch, activeAt>>
catalog == <<known, loadedAt, services>>
catalogVars == <<registry, reg, now, catalog, details, req>>

Idle == [pc |-> "idle", version |-> NoVersion, digest |-> NoVersion, same |-> "absent"]
NoRequest == [pc |-> "idle", page |-> FALSE, start |-> 0, entry |-> NoVersion, got |-> NoVersion,
              epoch |-> 0, readAt |-> 0]

CatalogInit == /\ status = [v \in Versions |-> "absent"] /\ digest = [v \in Versions |-> NoVersion]
               /\ epoch = 0 /\ activeAt = [v \in Versions |-> 0]
               /\ reg = [c \in Callers |-> Idle]
               /\ now = Ttl + Latency
               /\ known = [version |-> NoVersion, epoch |-> 0] /\ loadedAt = 0 /\ services = {}
               /\ details = [v \in {} |-> NoVersion]
               /\ req = [r \in Readers |-> NoRequest]

Active == {v \in Versions : status[v] = "active"}
ActiveVersion == IF Active = {} THEN NoVersion ELSE CHOOSE v \in Active : TRUE

-----------------------------------------------------------------------------
(* Registration.                                                           *)

NeverLocked == FALSE                                  \* mutant of Locked
Locked == \E c \in Callers : reg[c].pc = "writing"
ConflictIgnored(v, d) == FALSE                        \* mutant of Conflict
Conflict(v, d) == digest[v] # NoVersion /\ digest[v] # d

\* The transaction takes the lock and reads the dataset's rows.
Register(c, v, d) ==
  /\ reg[c].pc # "writing" /\ ~Locked
  /\ reg' = [reg EXCEPT ![c] =
       [version |-> v, digest |-> d, same |-> status[v],
        pc |-> IF Conflict(v, d) THEN "conflict"
               ELSE IF status[v] = "active" THEN "done" ELSE "writing"]]
  /\ UNCHANGED <<registry, now, catalog, details, req>>

\* The active version is superseded, this one inserted or made active again.
\* The unique index on the version refuses a second insert.
Commit(c) ==
  LET r == reg[c] IN
  /\ r.pc = "writing" /\ epoch < MaxEpoch
  /\ IF r.same = "absent" /\ status[r.version] # "absent"
     THEN reg' = [reg EXCEPT ![c].pc = "collided"] /\ UNCHANGED registry
     ELSE /\ status' = [v \in Versions |->
                          IF v = r.version THEN "active"
                          ELSE IF status[v] = "active" THEN "superseded" ELSE status[v]]
          /\ digest' = [digest EXCEPT ![r.version] = IF r.same = "absent" THEN r.digest ELSE @]
          /\ activeAt' = [v \in Versions |-> IF status[v] = "active" THEN now ELSE activeAt[v]]
          /\ epoch' = epoch + 1
          /\ reg' = [reg EXCEPT ![c].pc = "done"]
  /\ UNCHANGED <<now, catalog, details, req>>

\* The connection or the process is lost; nothing is committed.
Abort(c) ==
  /\ reg[c].pc = "writing" /\ reg' = [reg EXCEPT ![c] = Idle]
  /\ UNCHANGED <<registry, now, catalog, details, req>>

-----------------------------------------------------------------------------
(* Reading.                                                                *)

FreshAtTtl == loadedAt # 0 /\ now - loadedAt <= Ttl   \* mutant of Fresh
Fresh == loadedAt # 0 /\ now - loadedAt < Ttl
FreeToLoad == TRUE                                    \* mutant of LoadLockFree
LoadLockFree == \A r \in Readers : req[r].pc # "loading"

\* The catalogue hands out version v: a tool call ends, a page reads on.
Served(q, v) == [q EXCEPT !.pc = IF q.page THEN "structure" ELSE "done", !.got = v]

\* What follows _refresh at once: resolve looks the version up, listing awaits
\* the default dataset before it looks at what is known.
Refreshed(q, version, open) ==
  IF q.page /\ q.entry = NoVersion THEN [q EXCEPT !.pc = "listing"]
  ELSE IF version = NoVersion THEN [q EXCEPT !.pc = "unknown"]
  ELSE IF version \in open THEN Served(q, version)
  ELSE [q EXCEPT !.pc = "fetching", !.got = version]

Ask(r, page) ==
  /\ req[r].pc \in {"idle", "done", "unknown", "failed"}
  /\ req' = [req EXCEPT ![r] = [NoRequest EXCEPT !.pc = "refresh", !.page = page, !.start = now]]
  /\ UNCHANGED <<registry, reg, now, catalog, details>>

Refresh(r) ==
  /\ req[r].pc = "refresh"
  /\ req' = [req EXCEPT ![r] = IF Fresh THEN Refreshed(@, known.version, services)
                                        ELSE [@ EXCEPT !.pc = "waiting"]]
  /\ UNCHANGED <<registry, reg, now, catalog, details>>

\* registry.active() answers with the rows of this moment.
Load(r) ==
  /\ req[r].pc = "waiting" /\ LoadLockFree
  /\ \/ req' = [req EXCEPT ![r].pc = "failed"]
     \/ req' = [req EXCEPT ![r] = [@ EXCEPT !.pc = "loading", !.readAt = now, !.epoch = epoch,
                                            !.got = ActiveVersion]]
  /\ UNCHANGED <<registry, reg, now, catalog, details>>

Loaded(r) ==
  LET q == req[r] IN
  /\ q.pc = "loading"
  /\ known' = [version |-> q.got, epoch |-> q.epoch]
  /\ loadedAt' = now
  /\ services' = services \cap {q.got}
  /\ req' = [req EXCEPT ![r] =
       Refreshed([q EXCEPT !.got = NoVersion, !.epoch = 0, !.readAt = 0], q.got, services')]
  /\ UNCHANGED <<registry, reg, now, details>>

\* ensure and open: two readers may both do it, the later one stores its own.
Fetched(r) ==
  /\ req[r].pc = "fetching"
  /\ \/ /\ req' = [req EXCEPT ![r].pc = "failed"] /\ UNCHANGED services
     \/ /\ services' = services \cup {req[r].got}
        /\ req' = [req EXCEPT ![r] = Served(@, req[r].got)]
  /\ UNCHANGED <<registry, reg, now, known, loadedAt, details>>

\* A page takes the entry it shows, and remembers the structure under its version.
ListEntry(r) ==
  LET v == known.version IN
  /\ req[r].pc = "listing"
  /\ req' = [req EXCEPT ![r] =
       IF v = NoVersion THEN [@ EXCEPT !.pc = "unknown"]
       ELSE IF v \in DOMAIN details THEN [@ EXCEPT !.pc = "done", !.entry = v, !.got = details[v]]
       ELSE [@ EXCEPT !.pc = "refresh", !.entry = v]]
  /\ UNCHANGED <<registry, reg, now, catalog, details>>

Structure(r) ==
  /\ req[r].pc = "structure"
  /\ \/ /\ req' = [req EXCEPT ![r].pc = "failed"] /\ UNCHANGED details
     \/ /\ details' = [v \in {req[r].entry} |-> req[r].got]
        /\ req' = [req EXCEPT ![r].pc = "done"]
  /\ UNCHANGED <<registry, reg, now, catalog>>

\* Time passes, but a read of the registry is answered within Latency.
CatalogTick ==
  /\ now < MaxTime /\ \A r \in Readers : req[r].pc = "loading" => now - req[r].readAt < Latency
  /\ now' = now + 1
  /\ UNCHANGED <<registry, reg, catalog, details, req>>

Registering(c) == Commit(c) \/ Abort(c) \/ \E v \in Versions, d \in Digests : Register(c, v, d)
Reading(r) == \/ Refresh(r) \/ Load(r) \/ Loaded(r) \/ Fetched(r) \/ ListEntry(r) \/ Structure(r)
              \/ \E page \in Pages : Ask(r, page)
CatalogNext == CatalogTick \/ (\E c \in Callers : Registering(c)) \/ (\E r \in Readers : Reading(r))
CatalogSpec == CatalogInit /\ [][CatalogNext]_catalogVars

-----------------------------------------------------------------------------
CatalogTypeOK ==
  /\ status \in [Versions -> {"absent", "active", "superseded"}]
  /\ digest \in [Versions -> Digests \cup {NoVersion}]
  /\ epoch \in Nat /\ now \in Nat /\ loadedAt \in Nat /\ activeAt \in [Versions -> Nat]
  /\ reg \in [Callers -> [pc : {"idle", "writing", "done", "conflict", "collided"},
                          version : Versions \cup {NoVersion}, digest : Digests \cup {NoVersion},
                          same : {"absent", "active", "superseded"}]]
  /\ known \in [version : Versions \cup {NoVersion}, epoch : Nat]
  /\ services \subseteq Versions
  /\ DOMAIN details \subseteq Versions /\ \A v \in DOMAIN details : details[v] \in Versions

\* The advisory lock keeps two registrations apart: none ever runs into the
\* unique indexes, and a dataset has at most one active version.
RegistersCleanly == /\ \A v, w \in Active : v = w
                    /\ \A c \in Callers : reg[c].pc # "collided"

\* A registration that is answered 201 is what the registry holds: the version
\* was not registered with other content, by whomever and however long ago.
AnsweredTruly == \A c \in Callers : reg[c].pc = "done" => digest[reg[c].version] = reg[c].digest

\* The catalogue never goes back to an older state of the registry, although
\* its readers refresh concurrently and their reads take their time; so of two
\* requests one after the other the later one never sees the older version.
NeverOlder == [][known'.epoch >= known.epoch]_catalogVars

\* Whoever is served version v, or shown its entry, asked less than Ttl, and the
\* time one read takes, after v was last the active one.
ServedFresh ==
  \A r \in Readers : LET q == req[r]  v == IF q.page THEN q.entry ELSE q.got IN
    q.pc = "done" => status[v] = "active" \/ q.start < activeAt[v] + Ttl + Latency

\* "By (dataset, version)": the structure a page shows is that of the version
\* it names (the comment on DatasetPages._details).
PageMatches == \A r \in Readers : req[r].pc = "done" /\ req[r].page => req[r].got = req[r].entry

\* What holds of registrations and of what readers are given at every moment.
CatalogRight == CatalogTypeOK /\ RegistersCleanly /\ AnsweredTruly /\ ServedFresh
=============================================================================
