----------------------------- MODULE MetricQuery -----------------------------
(***************************************************************************)
(* Queries by metric name: which metrics of a dataset may be asked for,    *)
(* the query built for a request (services/semantic_metrics.py), its       *)
(* execution by DuckDB under a row limit and a timeout (duckdb_store.py)   *)
(* and the answer (SemanticQueryService.query_metric).                     *)
(*                                                                         *)
(* A row of the base table has a key of two columns, a label, the value of *)
(* a metric's expression, what its condition evaluates to, and the number  *)
(* of rows of the linked table that match.  That keys are unique and that  *)
(* one row matches is what the description declares of the data; nothing   *)
(* checks it.  DuckDB may return rows that ORDER BY does not tell apart in *)
(* any order.                                                              *)
(***************************************************************************)
EXTENDS Integers, Sequences, SequencesExt, FiniteSets

CONSTANTS RowIds,      \* the rows of the base table
          BaseTables,  \* what the rows may be: row -> [key, label, input, cond, matches]
          NotFinite,   \* numbers that stand for what is none: NaN and the infinities
          Declared,  \* the metric dictionary: set of metric records
          Linked,    \* tables the base table has a link to
          Queries,   \* the requests that are asked
          MaxRows,   \* the service's own row limit
          Null,
          MaxAsks    \* how often a request is asked (bound)

VARIABLES table,    \* row -> [key, label, input, cond, matches]
          query,
          answers   \* what each asking returned

metricVars == <<table, query, answers>>

Columns == {"code", "period", "label"}    \* key columns, then label columns
Base == "base"

ASSUME MetricAssumption ==
  /\ IsFiniteSet(RowIds) /\ NotFinite \subseteq Int /\ MaxRows \in Nat
  /\ BaseTables \subseteq [RowIds -> [key : Int \X Int, label : Int \cup {Null}, input : Int \cup {Null},
                                     cond : {"true", "false", "unknown"}, matches : Nat]]
  /\ \A q \in Queries : q.order \in Seq([by : STRING, desc : BOOLEAN])

-----------------------------------------------------------------------------
\* Which entries of the metric dictionary can be asked for by name.
Offered == {d \in Declared : /\ d.queryable /\ d.kind = "row" /\ d.base = Base
                             /\ d.name \notin Columns
                             /\ d.reads \subseteq Linked \cup {Base}}
Named(n) == CHOOSE d \in Offered : d.name = n
Wanted(q) == {Named(q.metrics[i]) : i \in DOMAIN q.metrics}

AcceptOrder(q) ==
  \A i \in DOMAIN q.order : \/ q.order[i].by \in Columns
                            \/ \E j \in DOMAIN q.metrics : q.order[i].by = q.metrics[j]
Accepts(q) ==
  /\ q.metrics # <<>> /\ IsInjective(q.metrics)
  /\ \A i \in DOMAIN q.metrics : \E d \in Offered : d.name = q.metrics[i]
  /\ \A f \in q.filters : f.column \in Columns
  /\ AcceptOrder(q)
  /\ q.max \in Nat \ {0}

\* _order: the key columns that the request does not order by complete its order.
Completing(q, c) == IF \E i \in DOMAIN q.order : q.order[i].by = c THEN <<>>
                    ELSE <<[by |-> c, desc |-> FALSE]>>
FirstKeyOnly(q) == q.order \o Completing(q, "code")               \* mutant of Order
Order(q) == q.order \o Completing(q, "code") \o Completing(q, "period")

-----------------------------------------------------------------------------
\* A row of the result before it is shaped: a row of the base table and the linked row it met.
Column(n, c) == CASE c = "code" -> table[n].key[1] [] c = "period" -> table[n].key[2]
                  [] c = "label" -> table[n].label

\* LEFT JOIN: one row for each match, or one without the linked columns.
LinkedTo(q) == (UNION {d.reads : d \in Wanted(q)}) \ {Base}
JoinedRows(q, n) ==
  {[row |-> n, match |-> i] : i \in IF LinkedTo(q) = {} \/ table[n].matches = 0 THEN {0}
                                    ELSE 1..table[n].matches}

\* WHERE keeps a row whose filters are all true; a comparison with NULL is not.
Holds(x, f) == CASE f.op = "in" -> x \in f.values [] f.op = "not_in" -> x \notin f.values
                 [] f.op = "gte" -> \A v \in f.values : x >= v
NullDiffers(n, f) == IF Column(n, f.column) = Null THEN f.op = "not_in"    \* mutant of Passes
                     ELSE Holds(Column(n, f.column), f)
Passes(n, f) == Column(n, f.column) # Null /\ Holds(Column(n, f.column), f)

UnknownApplies(d, r) == d.conditional => table[r.row].cond # "false"   \* mutant of Applicable
\* COALESCE(condition, false)
Applicable(d, r) == d.conditional => table[r.row].cond = "true"
Input(d, r) == IF d.reads \subseteq {Base} \/ r.match > 0 THEN table[r.row].input ELSE Null
\* CASE WHEN applicable THEN expression END
Value(d, r) == IF Applicable(d, r) THEN Input(d, r) ELSE Null

Result(q) == UNION {JoinedRows(q, n) : n \in {m \in RowIds : \A f \in q.filters : Passes(m, f)}}

Sort(r, by) == IF by \in Columns THEN Column(r.row, by) ELSE Value(Named(by), r)
\* NULLS LAST in both directions.
Before(x, y, desc) == x # Null /\ (y = Null \/ IF desc THEN x > y ELSE x < y)
Ahead(a, b, o) == \E i \in DOMAIN o : /\ Before(Sort(a, o[i].by), Sort(b, o[i].by), o[i].desc)
                                      /\ \A j \in 1..(i - 1) : Sort(a, o[j].by) = Sort(b, o[j].by)
Orderings(q) == {s \in SetToSeqs(Result(q)) :
                   \A i, j \in DOMAIN s : i < j => ~Ahead(s[j], s[i], Order(q))}

-----------------------------------------------------------------------------
AsAsked(q) == q.max                                       \* mutant of Cap
Cap(q) == IF q.max < MaxRows THEN q.max ELSE MaxRows
Fetch(q) == Cap(q) + 1

AsFetched(x) == x                                         \* mutant of Normalize
\* What is no finite number is shown as NULL, and so with the reason of a NULL; it is ordered by what it is.
Normalize(x) == IF x \in NotFinite THEN Null ELSE x

Cell(d, r) == [value |-> Normalize(Value(d, r)), applicable |-> Applicable(d, r),
               reason |-> IF ~Applicable(d, r) THEN "not applicable"
                          ELSE IF Normalize(Value(d, r)) = Null THEN "missing" ELSE Null]
\* A row of the answer repeats the columns of its row of the base table.
Shape(q, r) == [row |-> r.row, cells |-> [i \in DOMAIN q.metrics |-> Cell(Named(q.metrics[i]), r)]]

Page(q, s) == LET fetched == SubSeq(s, 1, IF Len(s) < Fetch(q) THEN Len(s) ELSE Fetch(q))
                  n == IF Len(fetched) < Cap(q) THEN Len(fetched) ELSE Cap(q)
              IN [kind |-> "rows", rows |-> [i \in 1..n |-> Shape(q, fetched[i])],
                  truncated |-> Len(fetched) > Cap(q)]
Rejected(why) == [kind |-> why, rows |-> <<>>, truncated |-> FALSE]

Answer(a) == Len(answers) < MaxAsks /\ answers' = Append(answers, a) /\ UNCHANGED <<table, query>>

RefuseQuery == ~Accepts(query) /\ Answer(Rejected("rejected"))
Run == Accepts(query) /\ \E s \in Orderings(query) : Answer(Page(query, s))
\* The timer interrupts the cursor; or DuckDB finds an error in the data, or a value that cannot be returned.
TimeOut == Accepts(query) /\ Answer(Rejected("cancelled"))
QueryFails == Accepts(query) /\ Answer(Rejected("failed"))

MetricInit == table \in BaseTables /\ query \in Queries /\ answers = <<>>
MetricNext == RefuseQuery \/ Run \/ TimeOut \/ QueryFails
MetricSpec == MetricInit /\ [][MetricNext]_metricVars

-----------------------------------------------------------------------------
Rows == {i \in DOMAIN answers : answers[i].kind = "rows"}
Listed(a) == {a.rows[i].row : i \in DOMAIN a.rows}

\* What the description declares: no two rows have one key, and links are one-to-one or many-to-one.
UniqueKeys == \A m, n \in RowIds : table[m].key = table[n].key => m = n
OneMatch == \A n \in RowIds : table[n].matches <= 1

MetricTypeOK == \A i \in DOMAIN answers : /\ answers[i].kind \in {"rows", "rejected", "cancelled", "failed"}
                                          /\ Len(answers[i].rows) <= MaxRows

\* _order: where keys and links are as declared, asking again lists the same rows in
\* the same order, whichever order DuckDB picks among rows its ORDER BY does not tell apart.
Repeatable == UniqueKeys /\ OneMatch => \A i, j \in Rows : answers[i] = answers[j]

\* The rows whose known column values satisfy every filter of the request.
Matching == {n \in RowIds : \A f \in query.filters :
               \E x \in {Column(n, f.column)} \ {Null} : Holds(x, f)}

\* build_query, execute: where links are as declared, an answer holds each matching row of the base
\* table once, and what it leaves out, for the smaller of the two limits alone, it admits to.
OnePerRow == OneMatch => \A i \in Rows :
  LET a == answers[i] IN
    /\ Listed(a) \subseteq Matching
    /\ \A m, n \in DOMAIN a.rows : a.rows[m].row = a.rows[n].row => m = n
    /\ IF a.truncated THEN Len(a.rows) = Cap(query) /\ Listed(a) # Matching
                      ELSE Listed(a) = Matching
    /\ Len(a.rows) <= query.max

\* build_query's CASE, normalize and shape's own test, whatever the data: a number is shown exactly where
\* the metric's condition is known to hold, its inputs are there and the result is finite.  The reason
\* "not applicable" is given exactly where the condition is not known to hold.  "missing" covers the rest:
\* it is the true reason of an input that is not there, and also all that is said of inputs that are there
\* and give no finite number, like a quotient by 0.
Explained == \A i \in Rows : \A m \in DOMAIN answers[i].rows, j \in DOMAIN query.metrics :
  LET row == answers[i].rows[m]  d == Named(query.metrics[j])  at == table[row.row]
      holds == ~d.conditional \/ at.cond = "true"
      there == at.input # Null /\ (d.reads \subseteq {Base} \/ at.matches > 0)
      number == there /\ at.input \notin NotFinite
  IN row.cells[j].reason = (IF ~holds THEN "not applicable" ELSE IF ~number THEN "missing" ELSE Null)
     /\ row.cells[j].value = (IF holds /\ number THEN at.input ELSE Null)

\* What holds of every answer: it can be repeated, lists each row once and completely
\* or says that it does not, and explains each number it leaves out.
MetricRight == MetricTypeOK /\ Repeatable /\ OnePerRow /\ Explained
=============================================================================
