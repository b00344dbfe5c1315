---------------------------- MODULE SemanticCache ----------------------------
(***************************************************************************)
(* How a dataset file becomes a DuckDB database that several processes     *)
(* share (SemanticDataset._prepared in infrastructure/semantic/dataset.py  *)
(* and convert in duckdb_store.py): the file is described, hashed, looked  *)
(* up in the cache directory under its digest, converted when what is      *)
(* there does not have the described number of rows, and attached.         *)
(*                                                                         *)
(* A content stands for a dataset file, and for its digest; all the code   *)
(* compares of two of them is their row counts, which may agree.  The file *)
(* may be replaced at any time, a process may die, and a cached database   *)
(* may be damaged (lose rows), except between the check of its rows and    *)
(* its attachment.                                                         *)
(***************************************************************************)
EXTENDS Naturals, Sequences

CONSTANTS Processes,
          Contents,
          Rows,      \* content -> rows of each of its tables
          Tables,    \* tables of a dataset
          NoContent,      \* no content
          SemanticLimit      \* kind of mishap -> how often it may happen (bound)

ASSUME RowsAssumption ==
  /\ NoContent \notin Contents /\ Tables \in Nat \ {0}
  /\ \A k \in {"change", "crash", "damage"} : SemanticLimit[k] \in Nat

VARIABLES source,  \* the content of the dataset file
          db,      \* digest -> the tables of its database, each by the content it came from
          stage,      \* process -> where _prepared stands
          desc,    \* process -> the content it described
          name,    \* process -> the digest it computed
          input,   \* process -> the content of the file convert opened
          copied,  \* process -> the tables it has copied to its partial file
          served,  \* process -> the tables it attached
          overtaken,   \* ghost: processes the file was replaced under, or that found a mislabelled database
          mislabelled,     \* ghost: digests whose database an overtaken process published
          semanticSpent    \* kind of mishap -> how often it happened

local == <<desc, name, input, copied, served>>
doubts == <<overtaken, mislabelled>>
semanticVars == <<source, db, stage, local, doubts, semanticSpent>>

Absent == <<>>
SemanticMishaps == {"change", "crash", "damage"}

SemanticInit == /\ source \in Contents
                /\ db = [c \in Contents |-> Absent]
                /\ stage = [p \in Processes |-> "idle"]
                /\ desc = [p \in Processes |-> NoContent] /\ name = desc /\ input = desc
                /\ copied = [p \in Processes |-> <<>>] /\ served = copied
                /\ overtaken = {} /\ mislabelled = {}
                /\ semanticSpent = [k \in SemanticMishaps |-> 0]

SemanticGoto(p, l) == stage' = [stage EXCEPT ![p] = l]
SemanticMishap(k) == semanticSpent[k] < SemanticLimit[k] /\ semanticSpent' = [semanticSpent EXCEPT ![k] = @ + 1]

\* The tables t have the rows that content d describes.
CountsMatch(t, d) == Len(t) = Tables /\ \A i \in 1..Len(t) : t[i] # NoContent /\ Rows[t[i]] = Rows[d]

Describe(p) ==
  /\ stage[p] = "idle"
  /\ desc' = [desc EXCEPT ![p] = source] /\ SemanticGoto(p, "digest")
  /\ overtaken' = overtaken \ {p}
  /\ UNCHANGED <<source, db, name, input, copied, served, mislabelled, semanticSpent>>

Digest(p) ==
  /\ stage[p] = "digest"
  /\ name' = [name EXCEPT ![p] = source] /\ SemanticGoto(p, "check")
  /\ UNCHANGED <<source, db, desc, input, copied, served, doubts, semanticSpent>>

FileThere(p) == db[name[p]] # Absent                       \* mutant of Intact
Intact(p) == db[name[p]] # Absent /\ CountsMatch(db[name[p]], desc[p])
RefuseBroken(p) == IF db[name[p]] = Absent THEN "convert" ELSE "idle"  \* mutant of Rebuild
Rebuild(p) == "convert"

CheckRows(p) ==
  /\ stage[p] = "check"
  /\ SemanticGoto(p, IF Intact(p) THEN "attach" ELSE Rebuild(p))
  /\ UNCHANGED <<source, db, local, doubts, semanticSpent>>

\* convert opens the file once and reads every table from what it opened.
Convert(p) ==
  /\ stage[p] = "convert"
  /\ input' = [input EXCEPT ![p] = source] /\ copied' = [copied EXCEPT ![p] = <<>>]
  /\ SemanticGoto(p, "copy")
  /\ UNCHANGED <<source, db, desc, name, served, doubts, semanticSpent>>

CountIgnored(p) == TRUE                                      \* mutant of Counted
Counted(p) == Rows[input[p]] = Rows[desc[p]]

CopyTable(p) ==
  /\ stage[p] = "copy" /\ Len(copied[p]) < Tables
  /\ IF Counted(p) THEN copied' = [copied EXCEPT ![p] = Append(@, input[p])] /\ UNCHANGED stage
                   ELSE copied' = [copied EXCEPT ![p] = <<>>] /\ SemanticGoto(p, "idle")
  /\ UNCHANGED <<source, db, desc, name, input, served, doubts, semanticSpent>>

ReadyAtOnce(p) == copied[p] # <<>>                           \* mutant of Ready
Ready(p) == Len(copied[p]) = Tables

\* os.replace, whoever else has put a database there meanwhile.
Publish(p) ==
  /\ stage[p] = "copy" /\ Ready(p)
  /\ db' = [db EXCEPT ![name[p]] = copied[p]]
  /\ copied' = [copied EXCEPT ![p] = <<>>] /\ SemanticGoto(p, "attach")
  /\ mislabelled' = IF p \in overtaken THEN mislabelled \cup {name[p]} ELSE mislabelled \ {name[p]}
  /\ UNCHANGED <<source, desc, name, input, served, overtaken, semanticSpent>>

\* An attached database is the file of that moment, also when it is replaced later.
Attach(p) ==
  /\ stage[p] = "attach"
  /\ served' = [served EXCEPT ![p] = db[name[p]]] /\ SemanticGoto(p, "serving")
  /\ overtaken' = IF name[p] \in mislabelled THEN overtaken \cup {p} ELSE overtaken
  /\ UNCHANGED <<source, db, desc, name, input, copied, mislabelled, semanticSpent>>

\* A process dies, or closes the dataset it serves.
CrashProcess(p) ==
  /\ stage[p] # "idle" /\ SemanticMishap("crash") /\ SemanticGoto(p, "idle")
  /\ copied' = [copied EXCEPT ![p] = <<>>] /\ served' = [served EXCEPT ![p] = <<>>]
  /\ UNCHANGED <<source, db, desc, name, input, doubts>>

\* Another file takes the place of the dataset's; what is still to be read of it is read of the new one.
ReplaceSource ==
  /\ SemanticMishap("change") /\ \E c \in Contents \ {source} : source' = c
  /\ overtaken' = overtaken \cup {p \in Processes : stage[p] \in {"digest", "check", "convert"}}
  /\ UNCHANGED <<db, stage, local, mislabelled>>

DamageDb(c) ==
  /\ db[c] # Absent /\ SemanticMishap("damage")
  /\ \A p \in Processes : stage[p] = "attach" => name[p] # c
  /\ db' = [db EXCEPT ![c][1] = NoContent]
  /\ UNCHANGED <<source, stage, local, doubts>>

PrepareStep(p) == \/ Describe(p) \/ Digest(p) \/ CheckRows(p) \/ Convert(p)
                  \/ CopyTable(p) \/ Publish(p) \/ Attach(p)
SemanticNext == \/ ReplaceSource \/ \E c \in Contents : DamageDb(c)
                \/ \E p \in Processes : PrepareStep(p) \/ CrashProcess(p)
SemanticSpec == SemanticInit /\ [][SemanticNext]_semanticVars

\* A dataset goes on being asked for until it is served, and a thread that runs goes on.
SemanticFairness == \A p \in Processes : WF_semanticVars(PrepareStep(p))

-----------------------------------------------------------------------------
SemanticTypeOK == /\ source \in Contents
                  /\ \A c \in Contents : Len(db[c]) \in {0, Tables}
                  /\ stage \in [Processes -> {"idle", "digest", "check", "convert", "copy", "attach", "serving"}]
                  /\ desc \in [Processes -> Contents \cup {NoContent}]
                  /\ \A p \in Processes : Len(copied[p]) <= Tables

Full(c) == [i \in 1..Tables |-> c]

\* _prepared and convert, however often the file is replaced: a process answers from whole data of one
\* content, though others convert, or damage leaves, something else under the digest; and it is the content
\* it described unless the file was replaced between its description and its conversion, or the database
\* it found was built by a process that happened to.
ServedTrue == \A p \in Processes : stage[p] = "serving" =>
  \E c \in Contents : served[p] = Full(c) /\ (p \notin overtaken => c = desc[p])

\* What the row counts add while the file is replaced once at most: even a process that was overtaken
\* serves a content with the row counts it described.  Nothing tells it from another of the same counts.
ServedCounted == SemanticLimit["change"] <= 1 => \A p \in Processes : stage[p] = "serving" =>
  \A i \in 1..Tables : Rows[served[p][i]] = Rows[desc[p]]

\* _prepared: every process serves in the end: a damaged database is converted anew.
Settles == <>[](\A p \in Processes : stage[p] = "serving")

\* What holds of the shared DuckDB directory at every moment.
SemanticRight == SemanticTypeOK /\ ServedTrue /\ ServedCounted
=============================================================================
