------------------------------ MODULE MCAnswers ------------------------------
(***************************************************************************)
(* Three parts that answer questions: the catalogue of a dataset's         *)
(* versions, queries by metric name, and retrieval.  They share nothing.   *)
(* A behaviour is one of part's, within the bounds of part.                *)
(***************************************************************************)
EXTENDS DatasetCatalog, MetricQuery, Retrieval, FiniteSets, TLC

CONSTANTS v1, v2, d1, d2, a1, a2

VARIABLE part

allVars == <<part, catalogVars, metricVars, retrievalVars>>

(* DatasetCatalog: two registrations; tool calls with one registration at a  *)
(* time; tool calls and pages of one reader.                                *)
Registrations == now = 2 /\ \A r \in Readers : req[r].pc = "idle"
OneCaller == /\ Cardinality({c \in Callers : reg[c].pc # "idle"}) <= 1
             /\ \A c \in Callers : reg[c].digest # d2
ToolCalls == OneCaller /\ epoch <= 2 /\ now <= 5 /\ \A r \in Readers : ~req[r].page
OneReader == OneCaller /\ epoch <= 2 /\ Cardinality({r \in Readers : req[r].pc # "idle"}) <= 1

(* MetricQuery: three rows under a two-column key, a value that is no finite *)
(* number, a metric with a condition, one over a linked table, and entries  *)
(* with a defect.  Some tables have two rows of one key, or a row that two  *)
(* linked rows match.                                                       *)
KeyOf == <<<<1, 1>>, <<1, 2>>, <<2, 1>>>>
Inputs == {<<1, "true">>, <<2, "true">>, <<2, "unknown">>, <<Null, "true">>, <<9, "true">>, <<1, "false">>}
Attrs(k, ls, xs, ms) == {[key |-> k, label |-> l, input |-> x[1], cond |-> x[2], matches |-> m] :
                           l \in ls, x \in xs, m \in ms}
TableSet == {<<a, b, c>> : a \in Attrs(KeyOf[1], {7, Null}, Inputs, {0, 1}),
                           b \in Attrs(KeyOf[2], {7, Null}, Inputs, {0, 1}),
                           c \in Attrs(KeyOf[3], {7}, Inputs, {1})}
            \cup {<<a, b, c>> : a \in Attrs(KeyOf[1], {7}, Inputs, {1}),
                                b \in Attrs(KeyOf[1], {7}, Inputs, {1, 2}),
                                c \in Attrs(KeyOf[3], {7}, {<<1, "true">>}, {0, 2})}
Entry(n, cond, reads) ==
  [name |-> n, queryable |-> TRUE, kind |-> "row", base |-> Base, conditional |-> cond, reads |-> reads]
Dictionary == {Entry("margin", TRUE, {Base}), Entry("rate", FALSE, {Base, "other"}),
               Entry("label", FALSE, {Base}), Entry("far", FALSE, {"unlinked"}),
               [Entry("sum", FALSE, {Base}) EXCEPT !.kind = "aggregate"]}
By(c, d) == [by |-> c, desc |-> d]
Query(ms, fs, o, n) == [metrics |-> ms, filters |-> fs, order |-> o, max |-> n]
Filter(c, op, vs) == [column |-> c, op |-> op, values |-> vs]
QuerySet == {Query(<<"margin">>, {}, <<>>, 2),
             Query(<<"margin", "rate">>, {Filter("label", "not_in", {8})}, <<By("rate", TRUE)>>, 9),
             Query(<<"margin">>, {Filter("code", "gte", {1})}, <<By("margin", FALSE), By("period", TRUE)>>, 1),
             Query(<<"rate">>, {Filter("period", "in", {1})}, <<By("label", TRUE)>>, 2),
             Query(<<"far">>, {}, <<>>, 1), Query(<<"rate">>, {}, <<By("margin", TRUE)>>, 1)}

(* Retrieval: two current versions of two datasets and two that may not be   *)
(* cited, one of which is always stored.                                    *)
Version(d, sc, a, x, b) ==
  [dataset |-> d, scopes |-> sc, active |-> a, indexed |-> x, binding |-> b, source |-> b]
VersionTable == ("i1" :> Version("s1", {"t1"}, TRUE, TRUE, "b1"))
                @@ ("i2" :> Version("s2", {"t1", "t2"}, TRUE, TRUE, "b2"))
                @@ ("i3" :> Version("s1", {"t2"}, TRUE, TRUE, "b3"))
                @@ ("i4" :> Version("s1", {"t1"}, FALSE, TRUE, "b4"))
Question(ds, t, src, k, b) == [datasets |-> ds, tenant |-> t, sources |-> src, topK |-> k, budget |-> b, scoped |-> TRUE]
QuestionSet == {Question({"s1", "s2"}, "t1", {}, 3, b) : b \in 1..6}
               \cup {Question({"s1", "s2"}, "t1", {}, 1, 5), Question({"s1", "s2"}, "t1", {}, 2, 5),
                     Question({"s1"}, "t1", {}, 2, 4), Question({"s1", "s2"}, "t1", {"b2"}, 2, 4),
                     Question({"s1"}, "t2", {}, 2, 4), Question({"s1", "s3"}, "t1", {}, 2, 4),
                     [Question({"s1"}, "t1", {}, 2, 4) EXCEPT !.scoped = FALSE]}
ChunkSet == {[binding |-> b, text |-> s] : b \in {"b1", "b2"}, s \in {<<>>, <<1, 1>>, <<1, 0, 1>>}}
            \cup {[binding |-> b, text |-> <<1>>] : b \in {"b3", NoBinding}}

\* A part that rests is at one of its states.
MetricRest == /\ table = [n \in RowIds |-> [key |-> KeyOf[n], label |-> 7, input |-> 1, cond |-> "true", matches |-> 1]]
              /\ query = Query(<<"far">>, {}, <<>>, 1)
              /\ MetricInit
RetrievalRest == stored = {} /\ request = Question({"s1"}, "t2", {}, 2, 4) /\ RetrievalInit
CatalogParts == {"registrations", "tool calls", "one reader"}

Init == \/ part \in CatalogParts /\ CatalogInit /\ MetricRest /\ RetrievalRest
        \/ part = "metric" /\ CatalogInit /\ MetricInit /\ RetrievalRest
        \/ part = "retrieval" /\ CatalogInit /\ MetricRest /\ RetrievalInit /\ "i4" \in stored

CatalogPart(p, bound) == part = p /\ CatalogNext /\ bound /\ UNCHANGED <<part, metricVars, retrievalVars>>

Next == \/ CatalogPart("registrations", Registrations') \/ CatalogPart("tool calls", ToolCalls')
        \/ CatalogPart("one reader", OneReader')
        \/ part = "metric" /\ MetricNext /\ UNCHANGED <<part, catalogVars, retrievalVars>>
        \/ part = "retrieval" /\ RetrievalNext /\ UNCHANGED <<part, catalogVars, metricVars>>

Spec == Init /\ [][Next]_allVars

Symmetry == Permutations({a1, a2}) \cup Permutations({v1, v2})
=============================================================================
