---------------------------- MODULE DatasetFiles ----------------------------
(***************************************************************************)
(* The cache of dataset files (infrastructure/external/dataset_store.py):  *)
(* ObjectDatasetFiles.ensure for a registered dataset, ensure_dataset      *)
(* under the lock of _DefaultDataset for the default one, both over        *)
(* fetch_pinned_object.  The fetchers are threads (asyncio.to_thread) of   *)
(* one process; a thread of another process over the same directory would  *)
(* be one more fetcher whom no lock keeps apart.                           *)
(*                                                                         *)
(* A name refers to an inode (0: no such file), and a download writes      *)
(* through the inode it opened, whatever its name has become since.  An    *)
(* object arrives in Chunks pieces; a piece on disk is right, wrong, or a  *)
(* hole left below a writer's offset when another truncated its file.      *)
(***************************************************************************)
EXTENDS Naturals, Sequences, FiniteSets

CONSTANTS Fetchers,    \* threads that call ensure
          Chunks,      \* pieces an object arrives in
          Uses         \* what the cache is for: [registered, fetchers, limit];
                       \* registered: ObjectDatasetFiles, else the default dataset;
                       \* limit: kind of mishap -> how often it may happen (bound)

ASSUME FilesAssumption ==
  /\ Chunks \in Nat \ {0} /\ IsFiniteSet(Fetchers)
  /\ Uses \subseteq [registered : BOOLEAN, fetchers : SUBSET Fetchers,
                     limit : [{"download", "disk", "crash", "damage"} -> Nat]]

VARIABLES use,    \* the one of Uses at hand
          file,   \* name -> inode
          data,   \* inode -> pieces
          fetch,     \* fetcher -> where it stands
          fd,     \* fetcher -> the inode it writes to, or 0
          sent,   \* fetcher -> the pieces it received and hashed
          ready,  \* _DefaultDataset._ready
          crowded,   \* ghost: the fetchers that another one's call overlapped
          mishaps   \* kind of mishap -> how often it happened

filesVars == <<use, file, data, fetch, fd, sent, ready, crowded, mishaps>>

Names == {"final", "partial"}
FilesMishaps == {"download", "disk", "crash", "damage"}
Inodes == 1..Cardinality(Fetchers) + 2
Right == [i \in 1..Chunks |-> "right"]
Registered == use.registered

FilesTypeOK == /\ use \in Uses
               /\ file \in [Names -> 0..Cardinality(Fetchers) + 2]
               /\ data \in [Inodes -> UNION {[1..n -> {"right", "wrong", "hole"}] : n \in 0..Chunks}]
               /\ fetch \in [Fetchers -> {"idle", "look", "hash", "drop", "request", "write",
                                       "replace", "returned", "raised"}]
               /\ fd \in [Fetchers -> 0..Cardinality(Fetchers) + 2]
               /\ sent \in [Fetchers -> UNION {[1..n -> {"right", "wrong"}] : n \in 0..Chunks}]
               /\ ready \in BOOLEAN /\ crowded \subseteq Fetchers /\ mishaps \in [FilesMishaps -> Nat]

FilesInit == /\ use \in Uses
             /\ file = [n \in Names |-> 0]
             /\ data = [i \in Inodes |-> <<>>]
             /\ fetch = [f \in Fetchers |-> "idle"]
             /\ fd = [f \in Fetchers |-> 0]
             /\ sent = [f \in Fetchers |-> <<>>]
             /\ ready = FALSE /\ crowded = {}
             /\ mishaps = [k \in FilesMishaps |-> 0]

FilesIdle(f) == fetch[f] \in {"idle", "returned", "raised"}
Busy == {f \in Fetchers : ~FilesIdle(f)}
FilesGoto(f, l) == fetch' = [fetch EXCEPT ![f] = l]
Finish(f, l) == FilesGoto(f, l) /\ fd' = [fd EXCEPT ![f] = 0] /\ sent' = [sent EXCEPT ![f] = <<>>]
FilesMishap(k) == mishaps[k] < use.limit[k] /\ mishaps' = [mishaps EXCEPT ![k] = @ + 1]
KeepFile(n) == file' = [file EXCEPT ![n] = @]                 \* mutant of Discard
Discard(n) == file' = [file EXCEPT ![n] = 0]

\* The default dataset is fetched under a lock, a registered one is not.
AdmittedAtOnce(f) == f \in Fetchers                           \* mutant of Admitted
Admitted(f) == Registered \/ \A g \in Fetchers : FilesIdle(g)

Ensure(f) ==
  /\ f \in use.fetchers /\ FilesIdle(f) /\ Admitted(f)
  /\ FilesGoto(f, IF ~Registered /\ ready THEN "returned" ELSE "look")
  /\ crowded' = IF Busy = {} THEN {} ELSE Busy \cup {f}
  /\ UNCHANGED <<use, file, data, fd, sent, ready, mishaps>>

Look(f) ==
  /\ fetch[f] = "look"
  /\ FilesGoto(f, IF file["final"] # 0 THEN "hash" ELSE "request")
  /\ UNCHANGED <<use, file, data, fd, sent, ready, crowded, mishaps>>

VerifiedByName(i) == i # 0                                    \* mutant of Verified
Verified(i) == data[i] = Right
MismatchRefused == "raised"                                   \* mutant of Mismatch
Mismatch == IF Registered THEN "drop" ELSE "raised"

\* A file that is there is read again before it is used; one that another
\* fetcher has unlinked meanwhile raises FileNotFoundError.
Hash(f) ==
  /\ fetch[f] = "hash"
  /\ \/ file["final"] = 0 /\ FilesGoto(f, "raised") /\ UNCHANGED ready
     \/ /\ file["final"] # 0 /\ Verified(file["final"])
        /\ FilesGoto(f, "returned") /\ ready' = ~Registered
     \/ /\ file["final"] # 0 /\ ~Verified(file["final"])
        /\ FilesGoto(f, Mismatch) /\ UNCHANGED ready
  /\ UNCHANGED <<use, file, data, fd, sent, crowded, mishaps>>

Drop(f) ==
  /\ fetch[f] = "drop"
  /\ Discard("final") /\ FilesGoto(f, "request")
  /\ UNCHANGED <<use, data, fd, sent, ready, crowded, mishaps>>

Unused == CHOOSE i \in Inodes : \A n \in Names, g \in Fetchers : i # file[n] /\ i # fd[g]

\* open(partial, "wb") truncates the file of that name, whoever is writing it.
OpenPartial(f) ==
  LET i == IF file["partial"] = 0 THEN Unused ELSE file["partial"]
  IN /\ fetch[f] = "request"
     /\ file' = [file EXCEPT !["partial"] = i]
     /\ data' = [data EXCEPT ![i] = <<>>]
     /\ fd' = [fd EXCEPT ![f] = i]
     /\ FilesGoto(f, "write")
     /\ UNCHANGED <<use, sent, ready, crowded, mishaps>>

\* The response is an error, the connection breaks, or the object is too large.
BreakDownload(f) ==
  /\ fetch[f] \in {"request", "write"}
  /\ FilesMishap("download")
  /\ Discard("partial") /\ Finish(f, "raised")
  /\ UNCHANGED <<use, data, ready, crowded>>

\* out.write finds the disk full: an OSError that fetch_pinned_object does not catch.
FillDisk(f) ==
  /\ fetch[f] = "write"
  /\ FilesMishap("disk")
  /\ Finish(f, "raised")
  /\ UNCHANGED <<use, file, data, ready, crowded>>

WriteShifted(d, k, p) == Append(d, p) \o <<p>>                 \* mutant of WriteAt
WriteAt(d, k, p) ==
  [i \in 1..(IF k > Len(d) THEN k ELSE Len(d)) |->
     IF i = k THEN p ELSE IF i <= Len(d) THEN d[i] ELSE "hole"]

ReceivePiece(f) ==
  /\ fetch[f] = "write" /\ Len(sent[f]) < Chunks
  /\ \E p \in {"right", "wrong"} :
       /\ IF p = "wrong" THEN FilesMishap("download") ELSE UNCHANGED mishaps
       /\ sent' = [sent EXCEPT ![f] = Append(@, p)]
       /\ data' = [data EXCEPT ![fd[f]] = WriteAt(@, Len(sent[f]) + 1, p)]
  /\ UNCHANGED <<use, file, fetch, fd, ready, crowded>>

CheckDigest(f) ==
  /\ fetch[f] = "write" /\ Len(sent[f]) = Chunks
  /\ IF sent[f] = Right THEN FilesGoto(f, "replace") /\ UNCHANGED <<file, fd, sent>>
                        ELSE Discard("partial") /\ Finish(f, "raised")
  /\ UNCHANGED <<use, data, ready, crowded, mishaps>>

\* os.replace moves whatever the partial name refers to now.
Replace(f) ==
  /\ fetch[f] = "replace"
  /\ \/ /\ file["partial"] = 0
        /\ Finish(f, "raised") /\ UNCHANGED <<file, ready>>
     \/ /\ file["partial"] # 0
        /\ file' = [final |-> file["partial"], partial |-> 0]
        /\ Finish(f, "returned") /\ ready' = ~Registered
  /\ UNCHANGED <<use, data, crowded, mishaps>>

\* The process dies; the directory stays.
CrashFetchers ==
  /\ FilesMishap("crash")
  /\ fetch' = [f \in Fetchers |-> "idle"] /\ fd' = [f \in Fetchers |-> 0]
  /\ sent' = [f \in Fetchers |-> <<>>] /\ ready' = FALSE
  /\ UNCHANGED <<use, file, data, crowded>>

\* Somebody else changes a cached file.
DamageFile ==
  /\ file["final"] # 0 /\ data[file["final"]] = Right /\ FilesMishap("damage")
  /\ data' = [data EXCEPT ![file["final"]][1] = "wrong"]
  /\ UNCHANGED <<use, file, fetch, fd, sent, ready, crowded>>

FetchStep(f) == \/ Look(f) \/ Hash(f) \/ Drop(f) \/ OpenPartial(f)
                \/ ReceivePiece(f) \/ CheckDigest(f) \/ Replace(f)
FilesNext == \/ CrashFetchers \/ DamageFile
             \/ \E f \in Fetchers : Ensure(f) \/ BreakDownload(f) \/ FillDisk(f) \/ FetchStep(f)

FilesSpec == FilesInit /\ [][FilesNext]_filesVars

\* A thread that runs goes on running, and datasets keep being asked for.
FilesFairness == \A f \in Fetchers : WF_filesVars(Ensure(f)) /\ WF_filesVars(FetchStep(f))

-----------------------------------------------------------------------------
Whole == file["final"] # 0 /\ data[file["final"]] = Right
Alone == Registered /\ Cardinality(use.fetchers) = 1

\* "The file in the cache either is not there or is the right one"
\* (the docstring of ObjectDatasetFiles), as long as nobody damages it.
CacheRight == mishaps["damage"] = 0 /\ file["final"] # 0 => Whole

\* So it is for the default dataset, whose lock lets one thread fetch at a time,
\* and for a registered one that a single thread asks for; not for a registered
\* one that two threads ask for, since ObjectDatasetFiles has no lock.
LockedRight == ~Registered \/ Alone => CacheRight

\* A fetcher whose call no other one's overlapped is handed the verified content: whatever those before
\* it left behind, unfinished, damaged or put together by two of them, ensure reads it again, drops it or
\* downloads it anew.  No more is promised to fetchers that overlap, which only the default dataset's lock
\* keeps apart; that dataset is looked at once per process, so later damage to it goes unnoticed.
ReturnedRight ==
  [][\A f \in Fetchers : fetch[f] # "returned" /\ fetch'[f] = "returned" /\ f \notin crowded'
        => Whole' \/ (ready /\ mishaps["damage"] > 0)]_filesVars

\* A download that fails leaves no file behind (fetch_pinned_object): once all
\* fetchers are done, none was killed and the disk was never full, the partial name
\* is free, in whatever order they opened, replaced and discarded it.
NoLitter == Busy = {} /\ mishaps["crash"] = 0 /\ mishaps["disk"] = 0 => file["partial"] = 0

\* A damaged or missing file of a registered dataset is replaced sooner or later, for
\* a single fetcher (Alone): ensure does not stop at a file it finds to be wrong.
Heals == Alone => <>[]Whole

\* What holds of the files at every moment: no name shows another content than its
\* digest where the code promises it, and failed downloads leave nothing behind.
FilesRight == FilesTypeOK /\ LockedRight /\ NoLitter
=============================================================================
