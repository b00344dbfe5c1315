-------------------------- MODULE ServiceCalls_proof --------------------------
(***************************************************************************)
(* Machine-checked proofs about the calls the service answers and makes:   *)
(* the keys and metadata of its identity provider with which it verifies a *)
(* caller (OidcKeys), for every set of keys and verifications, any number  *)
(* of moves and every time to live that is longer than a fetch; the tokens *)
(* of its own calls (TokenCache), for every set of callers and any margin  *)
(* that covers an exchange and a request; and the tool calls at its MCP    *)
(* endpoint (KnowledgeMcp), for any requests, batches, tokens and limits.  *)
(***************************************************************************)
EXTENDS OidcKeys, TokenCache, KnowledgeMcp, Integers, WellFoundedInduction, FiniteSetTheorems,
        SequenceTheorems, TLAPS

-----------------------------------------------------------------------------
(* A set of naturals has a least member.                                   *)
LEMMA LeastMember ==
  ASSUME NEW T \in SUBSET Nat, T # {}
  PROVE  \E x \in T : \A y \in T : x <= y
<1>1. IsWellFoundedOn(OpToRel(<, Nat), Nat)
  BY NatLessThanWellFounded
<1>2. PICK x \in T : \A y \in T : <<y, x>> \notin OpToRel(<, Nat)
  BY <1>1, WFMin
<1>3. ASSUME NEW y \in T, y < x PROVE FALSE
  <2>1. <<y, x>> \in Nat \X Nat
    OBVIOUS
  <2>2. <<y, x>>[1] < <<y, x>>[2]
    BY <1>3
  <2>3. <<y, x>> \in OpToRel(<, Nat)
    BY <2>1, <2>2, Zenon DEF OpToRel
  <2>4. QED BY <1>2, <2>3
<1>4. QED BY <1>3

-----------------------------------------------------------------------------
(* The calls of one key: the limiter's deque c is an end of all those that *)
(* were admitted, and what it has dropped lies more than a minute back.    *)
KeptIn(a, c) ==
  /\ \A i, j \in 1..Len(a) : i <= j => a[i] <= a[j]
  /\ \A i \in 1..Len(a) : a[i] <= mcpNow
  /\ Len(c) <= Len(a) /\ Len(c) <= PerMinute
  /\ \A i \in 1..Len(c) : c[i] = a[Len(a) - Len(c) + i]
  /\ \A i \in 1..(Len(a) - Len(c)) : mcpNow - a[i] > Minute
  /\ \A i \in 1..Len(a) : i + PerMinute <= Len(a) => a[i + PerMinute] - a[i] > Minute

(* How many calls allow drops: all the leading ones that are too old.      *)
Dropped(c) == {m \in 0..Len(c) : \A i \in 1..m : Outlived(c[i])}

(* allow drops a longest such run: the next time, if any, is recent.       *)
LEMMA DropsAll ==
  ASSUME NEW c \in Seq(Nat)
  PROVE  /\ Max(Dropped(c)) \in Dropped(c)
         /\ Max(Dropped(c)) < Len(c) => ~Outlived(c[Max(Dropped(c)) + 1])
<1>0. Len(c) \in Nat
  OBVIOUS
<1>1. CASE \A i \in 1..Len(c) : Outlived(c[i])
  <2>1. Len(c) \in Dropped(c) /\ \A y \in Dropped(c) : Len(c) >= y
    BY <1>0, <1>1 DEF Dropped
  <2>2. Max(Dropped(c)) \in Dropped(c) /\ Max(Dropped(c)) >= Len(c)
    BY <2>1 DEF Max
  <2>3. QED BY <1>0, <2>2 DEF Dropped
<1>2. CASE \E i \in 1..Len(c) : ~Outlived(c[i])
  <2> DEFINE T == {i \in 1..Len(c) : ~Outlived(c[i])}
  <2>1. T \in SUBSET Nat /\ T # {}
    BY <1>0, <1>2
  <2>2. PICK x \in T : \A y \in T : x <= y
    BY <2>1, LeastMember
  <2>3. x \in 1..Len(c) /\ ~Outlived(c[x]) /\ \A i \in 1..(x - 1) : Outlived(c[i])
    BY <1>0, <2>2
  <2>4. x - 1 \in Dropped(c) /\ \A y \in Dropped(c) : x - 1 >= y
    BY <1>0, <2>3 DEF Dropped
  <2>5. Max(Dropped(c)) \in Dropped(c) /\ Max(Dropped(c)) >= x - 1
    BY <2>4 DEF Max
  <2>6. Max(Dropped(c)) = x - 1
    BY <1>0, <2>3, <2>4, <2>5 DEF Dropped
  <2>7. QED BY <1>0, <2>3, <2>5, <2>6
<1>3. QED BY <1>1, <1>2

(* What allow leaves of a deque is still an end of what was admitted, and  *)
(* lies in the last minute.                                                *)
LEMMA RecentKept ==
  ASSUME McpAssumption, mcpNow \in Nat, NEW a \in Seq(Nat), NEW c \in Seq(Nat), KeptIn(a, c)
  PROVE  /\ Recent(c) \in Seq(Nat) /\ KeptIn(a, Recent(c))
         /\ \A i \in 1..Len(Recent(c)) : mcpNow - Recent(c)[i] <= Minute
<1> DEFINE n == Max(Dropped(c))
<1> DEFINE q == SubSeq(c, n + 1, Len(c))
<1>0. Len(c) \in Nat /\ Len(a) \in Nat /\ PerMinute \in Nat /\ Minute \in Nat
  BY McpAssumption
<1>1. Recent(c) = q
  BY DEF Recent, Dropped
<1>2. /\ n \in 0..Len(c) /\ \A i \in 1..n : Outlived(c[i])
      /\ n < Len(c) => ~Outlived(c[n + 1])
  BY DropsAll DEF Dropped
<1> HIDE DEF n
<1>3. /\ q \in Seq(Nat) /\ Len(q) = Len(c) - n
      /\ \A i \in 1..(Len(c) - n) : q[i] = c[n + i]
  <2>1. \A i \in (n + 1)..Len(c) : c[i] \in Nat
    BY <1>0, <1>2
  <2>2. /\ q \in Seq(Nat) /\ Len(q) = IF n + 1 <= Len(c) THEN Len(c) - (n + 1) + 1 ELSE 0
        /\ \A i \in 1..(Len(c) - (n + 1) + 1) : q[i] = c[n + 1 + i - 1]
    BY <1>0, <1>2, <2>1, SubSeqProperties
  <2>3. QED BY <1>0, <1>2, <2>2
<1> HIDE DEF q
<1>4. /\ Len(c) \in Nat /\ Len(a) \in Nat /\ n \in Nat /\ n <= Len(c)
      /\ Len(q) \in Nat /\ Len(q) = Len(c) - n
  BY <1>0, <1>2, <1>3
<1>5. \A i \in 1..Len(q) : q[i] = a[Len(a) - Len(q) + i]
  <2>1. ASSUME NEW i \in 1..Len(q) PROVE q[i] = a[Len(a) - Len(q) + i]
    <3>1. n + i \in 1..Len(c) /\ Len(a) - Len(c) + (n + i) = Len(a) - Len(q) + i
      BY <1>4, <2>1
    <3>2. c[n + i] = a[Len(a) - Len(c) + (n + i)]
      BY <3>1 DEF KeptIn
    <3>3. QED BY <1>3, <2>1, <3>1, <3>2
  <2>2. QED BY <2>1
<1>6. \A i \in 1..(Len(a) - Len(q)) : mcpNow - a[i] > Minute
  <2>1. ASSUME NEW i \in 1..(Len(a) - Len(q)), i > Len(a) - Len(c) PROVE mcpNow - a[i] > Minute
    <3>1. PICK j \in 1..n : i = Len(a) - Len(c) + j
      <4>1. i - (Len(a) - Len(c)) \in 1..n
        BY <1>4, <2>1
      <4>2. i = Len(a) - Len(c) + (i - (Len(a) - Len(c)))
        BY <1>4, <2>1
      <4>3. QED BY <4>1, <4>2
    <3>2. a[i] = c[j]
      BY <1>0, <1>2, <3>1 DEF KeptIn
    <3>3. QED BY <1>2, <3>1, <3>2 DEF Outlived
  <2>2. QED BY <1>0, <1>2, <1>3, <2>1 DEF KeptIn
<1>7. KeptIn(a, q)
  <2>1. Len(q) <= Len(a) /\ Len(q) <= PerMinute
    <3>1. Len(c) <= Len(a) /\ Len(c) <= PerMinute
      BY DEF KeptIn
    <3>2. QED BY <1>0, <1>4, <3>1
  <2>2. QED BY <1>5, <1>6, <2>1 DEF KeptIn
<1>8. \A i \in 1..Len(q) : mcpNow - q[i] <= Minute
  <2>1. SUFFICES ASSUME NEW i \in 1..Len(q) PROVE mcpNow - q[i] <= Minute
    OBVIOUS
  <2>2. ~Outlived(c[n + 1]) /\ c[n + 1] = q[1]
    <3>1. n < Len(c) /\ 1 \in 1..(Len(c) - n)
      BY <1>4, <2>1
    <3>2. QED BY <1>2, <1>3, <3>1
  <2>3. q[1] = a[Len(a) - Len(q) + 1] /\ q[i] = a[Len(a) - Len(q) + i]
    BY <1>0, <1>3, <1>5, <2>1
  <2>4. Len(q) <= Len(a) /\ Len(q) \in Nat
    <3>1. Len(c) <= Len(a)
      BY DEF KeptIn
    <3>2. QED BY <1>4, <3>1
  <2>5. q[1] <= q[i]
    <3>1. Len(a) - Len(q) + 1 \in 1..Len(a) /\ Len(a) - Len(q) + i \in 1..Len(a)
          /\ Len(a) - Len(q) + 1 <= Len(a) - Len(q) + i
      BY <1>0, <2>1, <2>4
    <3>2. QED BY <2>3, <3>1 DEF KeptIn
  <2>6. q[1] \in Nat /\ q[i] \in Nat
    BY <1>3, <2>1, <2>4
  <2>7. QED BY <1>0, <2>2, <2>5, <2>6 DEF Outlived
<1>9. QED BY <1>1, <1>3, <1>7, <1>8

(* One more call in a deque that has room keeps every window.              *)
LEMMA AdmitKept ==
  ASSUME McpAssumption, mcpNow \in Nat, NEW a \in Seq(Nat), NEW q \in Seq(Nat), KeptIn(a, q), Room(q)
  PROVE  KeptIn(Append(a, mcpNow), Append(q, mcpNow))
<1> DEFINE b == Append(a, mcpNow)
<1> DEFINE p == Append(q, mcpNow)
<1>0. Len(q) \in Nat /\ Len(a) \in Nat /\ PerMinute \in Nat /\ Minute \in Nat /\ Len(q) < PerMinute /\ Len(q) <= Len(a)
  BY McpAssumption DEF Room, KeptIn
<1>1. /\ Len(b) = Len(a) + 1 /\ b[Len(a) + 1] = mcpNow /\ \A i \in 1..Len(a) : b[i] = a[i]
      /\ Len(p) = Len(q) + 1 /\ p[Len(q) + 1] = mcpNow /\ \A i \in 1..Len(q) : p[i] = q[i]
  BY AppendProperties
<1> HIDE DEF b, p
<1>2. \A i \in 1..Len(a) : a[i] \in Nat /\ a[i] <= mcpNow
  BY DEF KeptIn
<1>3. \A i \in 1..Len(b) : b[i] <= mcpNow
  <2>1. ASSUME NEW i \in 1..Len(b) PROVE b[i] <= mcpNow
    <3>1. CASE i = Len(a) + 1
      BY <1>1, <3>1
    <3>2. CASE i # Len(a) + 1
      <4>1. i \in 1..Len(a)
        BY <1>0, <1>1, <2>1, <3>2
      <4>2. QED BY <1>1, <1>2, <4>1
    <3>3. QED BY <3>1, <3>2
  <2>2. QED BY <2>1
<1>4. \A i, j \in 1..Len(b) : i <= j => b[i] <= b[j]
  <2>1. ASSUME NEW i \in 1..Len(b), NEW j \in 1..Len(b), i <= j PROVE b[i] <= b[j]
    <3>1. CASE j = Len(a) + 1
      BY <1>1, <1>3, <3>1
    <3>2. CASE j # Len(a) + 1
      <4>1. i \in 1..Len(a) /\ j \in 1..Len(a)
        BY <1>0, <1>1, <2>1, <3>2
      <4>2. QED BY <1>1, <2>1, <4>1 DEF KeptIn
    <3>3. QED BY <3>1, <3>2
  <2>2. QED BY <2>1
<1>5. \A i \in 1..Len(p) : p[i] = b[Len(b) - Len(p) + i]
  <2>1. ASSUME NEW i \in 1..Len(p) PROVE p[i] = b[Len(b) - Len(p) + i]
    <3>1. CASE i = Len(q) + 1
      BY <1>0, <1>1, <3>1
    <3>2. CASE i # Len(q) + 1
      <4>1. i \in 1..Len(q) /\ Len(b) - Len(p) + i = Len(a) - Len(q) + i /\ Len(a) - Len(q) + i \in 1..Len(a)
        BY <1>0, <1>1, <2>1, <3>2
      <4>2. QED BY <1>1, <4>1 DEF KeptIn
    <3>3. QED BY <3>1, <3>2
  <2>2. QED BY <2>1
<1>6. \A i \in 1..(Len(b) - Len(p)) : mcpNow - b[i] > Minute
  <2>1. ASSUME NEW i \in 1..(Len(b) - Len(p)) PROVE mcpNow - b[i] > Minute
    <3>1. i \in 1..(Len(a) - Len(q)) /\ i \in 1..Len(a)
      BY <1>0, <1>1, <2>1
    <3>2. QED BY <1>1, <3>1 DEF KeptIn
  <2>2. QED BY <2>1
<1>7. \A i \in 1..Len(b) : i + PerMinute <= Len(b) => b[i + PerMinute] - b[i] > Minute
  <2>1. ASSUME NEW i \in 1..Len(b), i + PerMinute <= Len(b) PROVE b[i + PerMinute] - b[i] > Minute
    <3>1. CASE i + PerMinute = Len(a) + 1
      <4>1. i \in 1..(Len(a) - Len(q)) /\ i \in 1..Len(a)
        BY <1>0, <2>1, <3>1
      <4>2. QED BY <1>1, <3>1, <4>1 DEF KeptIn
    <3>2. CASE i + PerMinute # Len(a) + 1
      <4>1. i \in Nat /\ i >= 1 /\ i + PerMinute <= Len(a) + 1
        BY <1>0, <1>1, <2>1
      <4>2. i \in 1..Len(a) /\ i + PerMinute \in 1..Len(a) /\ i + PerMinute <= Len(a)
        <5>1. i + PerMinute <= Len(a)
          BY <1>0, <3>2, <4>1
        <5>2. QED BY <1>0, <4>1, <5>1
      <4>3. a[i + PerMinute] - a[i] > Minute
        BY <4>2 DEF KeptIn
      <4>4. QED BY <1>1, <4>2, <4>3
    <3>3. QED BY <3>1, <3>2
  <2>2. QED BY <2>1
<1>8. Len(p) <= Len(b) /\ Len(p) <= PerMinute
  BY <1>0, <1>1
<1>9. KeptIn(b, p)
  BY <1>3, <1>4, <1>5, <1>6, <1>7, <1>8 DEF KeptIn
<1>10. QED BY <1>9 DEF b, p

-----------------------------------------------------------------------------
Kinds == {"unauthorized", "ok", "nomethod", "unknown", "forbidden", "limited", "failed"}
ReplyRec == [kind : Kinds, id : Nat]
McpTyped ==
  /\ mcpNow \in 0..McpMaxTime
  /\ token \in [Requests -> DOMAIN Tokens] /\ batch \in [Requests -> Batches]
  /\ pc \in [Requests -> {"new", "open", "running", "closed", "refused", "failed"}]
  /\ replies \in [Requests -> Seq(ReplyRec)] /\ next \in [Requests -> Nat]
  /\ calls \in [CallKeys -> Seq(Nat)] /\ admitted \in [CallKeys -> Seq(Nat)]
  /\ anomalies \in [Users -> Nat]

DequesKept == \A k \in CallKeys : KeptIn(admitted[k], calls[k])

(* The replies to the messages before the next one: one for each that asks *)
(* for one, in their order, and from tools this token was given.           *)
Allowed(r, m) == batch[r][m].method = "tools/call" => batch[r][m].tool \in Tools \cap Grant(r).tools
RepliedUpTo(r) ==
  /\ next[r] \in 1..(Len(batch[r]) + 1) /\ Len(replies[r]) <= next[r] - 1
  /\ \A i \in 1..Len(replies[r]) : replies[r][i].id \in 1..(next[r] - 1) /\ Answered(batch[r][replies[r][i].id])
  /\ \A m \in 1..(next[r] - 1) : Answered(batch[r][m]) => \E i \in 1..Len(replies[r]) : replies[r][i].id = m
  /\ \A i, j \in 1..Len(replies[r]) : i < j => replies[r][i].id < replies[r][j].id
  /\ \A i \in 1..Len(replies[r]) :
       replies[r][i].kind \in {"ok", "failed", "limited"} => Allowed(r, replies[r][i].id)
Calling(r) == next[r] <= Len(batch[r]) /\ Message(r).method = "tools/call" /\ Permitted(r)
RequestRight(r) ==
  /\ pc[r] = "new" => replies[r] = <<>>
  /\ pc[r] # "refused" => RepliedUpTo(r)
  /\ pc[r] = "running" => Calling(r)
  /\ pc[r] = "closed" => next[r] = Len(batch[r]) + 1
RepliesRight == \A r \in Requests : RequestRight(r)

(* The calls answered as forbidden or put off, and their number.           *)
AnomaliesOf(u) == UNION {Anomalous(r) : r \in {r \in Requests : Grant(r).user = u}}
Tallied == \A u \in Users : IsFiniteSet(AnomaliesOf(u)) /\ anomalies[u] = Cardinality(AnomaliesOf(u))

McpInv == McpTyped /\ DequesKept /\ RepliesRight /\ Tallied

(* Which calls are among those of a user.                                  *)
LEMMA AmongAnomalies ==
  ASSUME NEW u, NEW x
  PROVE  x \in AnomaliesOf(u) <=>
           \E r \in Requests : Grant(r).user = u /\
             \E i \in DOMAIN replies[r] : x = <<r, i>> /\ replies[r][i].kind \in {"forbidden", "limited"}
BY DEF AnomaliesOf, Anomalous

-----------------------------------------------------------------------------
(* One request gets a reply, and nothing else is told to anyone.           *)
LEMMA ReplyTyped ==
  ASSUME McpTyped, NEW r \in Requests, NEW kind \in Kinds, Reply(r, kind)
  PROVE  /\ replies' \in [Requests -> Seq(ReplyRec)] /\ next' \in [Requests -> Nat]
         /\ \A q \in Requests \ {r} : replies'[q] = replies[q] /\ next'[q] = next[q]
         /\ next'[r] = next[r] + 1
         /\ Len(replies[r]) \in Nat /\ Len(replies'[r]) = Len(replies[r]) + 1
         /\ DOMAIN replies[r] = 1..Len(replies[r]) /\ DOMAIN replies'[r] = 1..Len(replies'[r])
         /\ \A i \in 1..Len(replies[r]) : replies'[r][i] = replies[r][i]
         /\ replies'[r][Len(replies[r]) + 1].kind = kind /\ replies'[r][Len(replies[r]) + 1].id = next[r]
<1> DEFINE e == [kind |-> kind, id |-> next[r]]
<1>1. replies \in [Requests -> Seq(ReplyRec)] /\ next \in [Requests -> Nat]
  BY DEF McpTyped
<1>2. e \in ReplyRec /\ e.kind = kind /\ e.id = next[r]
  BY <1>1 DEF ReplyRec
<1> HIDE DEF e
<1>3. replies' = [replies EXCEPT ![r] = Append(replies[r], e)] /\ next' = [next EXCEPT ![r] = next[r] + 1]
  BY DEF Reply, e
<1>4. /\ Append(replies[r], e) \in Seq(ReplyRec) /\ Len(Append(replies[r], e)) = Len(replies[r]) + 1
      /\ \A i \in 1..Len(replies[r]) : Append(replies[r], e)[i] = replies[r][i]
      /\ Append(replies[r], e)[Len(replies[r]) + 1] = e
  BY <1>1, <1>2, AppendProperties
<1>5. replies'[r] = Append(replies[r], e) /\ \A q \in Requests \ {r} : replies'[q] = replies[q]
  BY <1>1, <1>3
<1>6. replies' \in [Requests -> Seq(ReplyRec)]
  BY <1>1, <1>3, <1>4
<1>7. /\ next' \in [Requests -> Nat] /\ next'[r] = next[r] + 1
      /\ \A q \in Requests \ {r} : next'[q] = next[q]
  BY <1>1, <1>3
<1>8. DOMAIN replies[r] = 1..Len(replies[r]) /\ DOMAIN replies'[r] = 1..Len(replies'[r]) /\ Len(replies[r]) \in Nat
  BY <1>1, <1>6
<1>9. QED BY <1>2, <1>4, <1>5, <1>6, <1>7, <1>8

(* The request itself: the message is answered as the protocol asks.       *)
LEMMA ReplyRight ==
  ASSUME McpAssumption, McpTyped, NEW r \in Requests, NEW kind \in Kinds, Reply(r, kind), RepliedUpTo(r),
         next[r] <= Len(batch[r]), Answered(Message(r)),
         kind \in {"ok", "failed", "limited"} => Allowed(r, next[r]),
         token' = token, batch' = batch
  PROVE  RepliedUpTo(r)' /\ (next[r] = Len(batch[r]) + 1)' = (next[r] = Len(batch[r]))
<1>0. Len(batch[r]) \in Nat /\ next[r] \in Nat /\ next[r] >= 1
  BY McpAssumption DEF McpTyped, RepliedUpTo
<1>1. /\ next'[r] = next[r] + 1
      /\ Len(replies[r]) \in Nat /\ Len(replies'[r]) = Len(replies[r]) + 1
      /\ \A i \in 1..Len(replies[r]) : replies'[r][i] = replies[r][i]
      /\ replies'[r][Len(replies[r]) + 1].kind = kind /\ replies'[r][Len(replies[r]) + 1].id = next[r]
  BY ReplyTyped
<1>2. ASSUME NEW i \in 1..Len(replies'[r]), i \notin 1..Len(replies[r])
      PROVE  i = Len(replies[r]) + 1
  BY <1>1, <1>2
<1>3. next'[r] \in 1..(Len(batch'[r]) + 1) /\ Len(replies'[r]) <= next'[r] - 1
  BY <1>0, <1>1 DEF RepliedUpTo
<1>4. ASSUME NEW i \in 1..Len(replies'[r])
      PROVE  replies'[r][i].id \in 1..(next'[r] - 1) /\ Answered(batch'[r][replies'[r][i].id])
  <2>1. CASE i \in 1..Len(replies[r])
    <3>1. replies[r][i].id \in 1..(next[r] - 1) /\ Answered(batch[r][replies[r][i].id])
      BY <2>1 DEF RepliedUpTo
    <3>2. replies'[r][i].id = replies[r][i].id /\ replies[r][i].id \in 1..next[r] /\ next'[r] - 1 = next[r]
      BY <1>0, <1>1, <2>1, <3>1
    <3>3. QED BY <3>1, <3>2
  <2>2. CASE i = Len(replies[r]) + 1
    BY <1>0, <1>1, <2>2 DEF Message
  <2>3. QED BY <1>2, <1>4, <2>1, <2>2
<1>5. ASSUME NEW m \in 1..(next'[r] - 1), Answered(batch'[r][m])
      PROVE  \E i \in 1..Len(replies'[r]) : replies'[r][i].id = m
  <2>1. CASE m = next[r]
    <3>1. Len(replies[r]) + 1 \in 1..Len(replies'[r])
      BY <1>1
    <3>2. QED BY <1>1, <2>1, <3>1
  <2>2. CASE m # next[r]
    <3>1. m \in 1..(next[r] - 1)
      BY <1>0, <1>1, <2>2
    <3>2. PICK i \in 1..Len(replies[r]) : replies[r][i].id = m
      BY <1>5, <3>1 DEF RepliedUpTo
    <3>3. i \in 1..Len(replies'[r])
      BY <1>1
    <3>4. QED BY <1>1, <3>2, <3>3
  <2>3. QED BY <2>1, <2>2
<1>6. ASSUME NEW i \in 1..Len(replies'[r]), NEW j \in 1..Len(replies'[r]), i < j
      PROVE  replies'[r][i].id < replies'[r][j].id
  <2>1. i \in 1..Len(replies[r])
    BY <1>1, <1>6
  <2>2. CASE j \in 1..Len(replies[r])
    BY <1>1, <1>6, <2>1, <2>2 DEF RepliedUpTo
  <2>3. CASE j = Len(replies[r]) + 1
    <3>1. replies[r][i].id \in 1..(next[r] - 1)
      BY <2>1 DEF RepliedUpTo
    <3>2. replies[r][i].id < next[r]
      BY <1>0, <3>1
    <3>3. QED BY <1>1, <2>1, <2>3, <3>2
  <2>4. QED BY <1>2, <1>6, <2>2, <2>3
<1>7. ASSUME NEW i \in 1..Len(replies'[r]), replies'[r][i].kind \in {"ok", "failed", "limited"}
      PROVE  Allowed(r, replies[r][i].id)'
  <2>1. Grant(r)' = Grant(r)
    BY DEF Grant
  <2>2. CASE i \in 1..Len(replies[r])
    <3>1. Allowed(r, replies[r][i].id)
      BY <1>1, <1>7, <2>2 DEF RepliedUpTo
    <3>2. QED BY <1>1, <2>1, <2>2, <3>1 DEF Allowed
  <2>3. CASE i = Len(replies[r]) + 1
    BY <1>1, <1>7, <2>1, <2>3 DEF Allowed
  <2>4. QED BY <1>2, <1>7, <2>2, <2>3
<1>8. RepliedUpTo(r)'
  BY <1>3, <1>4, <1>5, <1>6, <1>7 DEF RepliedUpTo
<1>9. (next'[r] = Len(batch'[r]) + 1) = (next[r] = Len(batch[r]))
  BY <1>0, <1>1
<1>10. QED BY <1>8, <1>9

(* A message that asks for no answer gets none.                            *)
LEMMA SilentRight ==
  ASSUME McpAssumption, McpTyped, NEW r \in Requests, Silent(r), RepliedUpTo(r),
         next[r] <= Len(batch[r]), ~Answered(Message(r)), token' = token, batch' = batch
  PROVE  RepliedUpTo(r)' /\ next' \in [Requests -> Nat] /\ \A q \in Requests \ {r} : next'[q] = next[q]
<1>0. Len(batch[r]) \in Nat /\ next \in [Requests -> Nat] /\ next[r] \in Nat /\ next[r] >= 1
  BY McpAssumption DEF McpTyped, RepliedUpTo
<1>1. replies' = replies /\ next' = [next EXCEPT ![r] = next[r] + 1]
  BY DEF Silent
<1>2. /\ next'[r] = next[r] + 1 /\ next' \in [Requests -> Nat]
      /\ \A q \in Requests \ {r} : next'[q] = next[q]
  BY <1>0, <1>1
<1>3. Grant(r)' = Grant(r)
  BY DEF Grant
<1>4. Len(replies[r]) \in Nat
  BY DEF McpTyped
<1>5. next'[r] \in 1..(Len(batch'[r]) + 1) /\ Len(replies'[r]) <= next'[r] - 1
  BY <1>0, <1>1, <1>2, <1>4 DEF RepliedUpTo
<1>6. ASSUME NEW i \in 1..Len(replies'[r])
      PROVE  replies'[r][i].id \in 1..(next'[r] - 1) /\ Answered(batch'[r][replies'[r][i].id])
  <2>1. replies[r][i].id \in 1..(next[r] - 1) /\ Answered(batch[r][replies[r][i].id])
    BY <1>1 DEF RepliedUpTo
  <2>2. QED BY <1>0, <1>1, <1>2, <2>1
<1>7. ASSUME NEW m \in 1..(next'[r] - 1), Answered(batch'[r][m])
      PROVE  \E i \in 1..Len(replies'[r]) : replies'[r][i].id = m
  <2>1. m # next[r]
    BY <1>7 DEF Message
  <2>2. m \in 1..(next[r] - 1)
    BY <1>0, <1>2, <2>1
  <2>3. QED BY <1>1, <1>7, <2>2 DEF RepliedUpTo
<1>8. ASSUME NEW i \in 1..Len(replies'[r]), replies'[r][i].kind \in {"ok", "failed", "limited"}
      PROVE  Allowed(r, replies[r][i].id)'
  BY <1>1, <1>3, <1>8 DEF RepliedUpTo, Allowed
<1>9. \A i, j \in 1..Len(replies'[r]) : i < j => replies'[r][i].id < replies'[r][j].id
  BY <1>1 DEF RepliedUpTo
<1>10. QED BY <1>2, <1>5, <1>6, <1>7, <1>8, <1>9 DEF RepliedUpTo

(* A request about which nothing changes.                                  *)
LEMMA OtherRight ==
  ASSUME NEW r, RequestRight(r), token' = token, batch' = batch,
         pc'[r] = pc[r], replies'[r] = replies[r], next'[r] = next[r]
  PROVE  RequestRight(r)'
<1>1. Grant(r)' = Grant(r) /\ Message(r)' = Message(r)
  BY DEF Grant, Message
<1>2. \A m : Allowed(r, m)' = Allowed(r, m)
  BY <1>1 DEF Allowed
<1>3. RepliedUpTo(r) => RepliedUpTo(r)'
  BY <1>2 DEF RepliedUpTo
<1>4. Calling(r) => Calling(r)'
  BY <1>1 DEF Calling, Permitted
<1>5. QED BY <1>3, <1>4 DEF RequestRight

(* The number of anomalies is that of the replies that tell of one.        *)
LEMMA ReplyTally ==
  ASSUME McpTyped, Tallied, NEW r \in Requests, NEW kind \in Kinds, Reply(r, kind), token' = token,
         IF kind \in {"forbidden", "limited"} THEN Count(r) ELSE anomalies' = anomalies
  PROVE  Tallied' /\ anomalies' \in [Users -> Nat]
<1> DEFINE n == Len(replies[r]) + 1
<1>1. /\ \A q \in Requests \ {r} : replies'[q] = replies[q]
      /\ Len(replies[r]) \in Nat /\ Len(replies'[r]) = Len(replies[r]) + 1
      /\ DOMAIN replies[r] = 1..Len(replies[r]) /\ DOMAIN replies'[r] = 1..Len(replies'[r])
      /\ \A i \in 1..Len(replies[r]) : replies'[r][i] = replies[r][i]
      /\ replies'[r][Len(replies[r]) + 1].kind = kind
  BY ReplyTyped
<1>2. DOMAIN replies'[r] = DOMAIN replies[r] \cup {n} /\ n \notin DOMAIN replies[r]
  BY <1>1
<1>3. \A q : Grant(q)' = Grant(q)
  BY DEF Grant
<1>4. /\ \A i \in DOMAIN replies[r] : replies'[r][i] = replies[r][i]
      /\ replies'[r][n].kind = kind
  BY <1>1
<1> HIDE DEF n
<1>5. Grant(r).user \in Users /\ anomalies \in [Users -> Nat]
  BY DEF Grant, Users, McpTyped
<1>6. ASSUME NEW u \in Users
      PROVE  AnomaliesOf(u)' = IF kind \in {"forbidden", "limited"} /\ u = Grant(r).user
                               THEN AnomaliesOf(u) \cup {<<r, n>>} ELSE AnomaliesOf(u)
  <2>1. \A x : x \in AnomaliesOf(u) <=>
           \E q \in Requests : Grant(q).user = u /\
             \E i \in DOMAIN replies[q] : x = <<q, i>> /\ replies[q][i].kind \in {"forbidden", "limited"}
    BY AmongAnomalies
  <2>2. \A x : x \in AnomaliesOf(u)' <=>
           \E q \in Requests : Grant(q).user = u /\
             \E i \in DOMAIN replies'[q] : x = <<q, i>> /\ replies'[q][i].kind \in {"forbidden", "limited"}
    BY <1>3 DEF AnomaliesOf, Anomalous
  <2>3. ASSUME NEW x \in AnomaliesOf(u) PROVE x \in AnomaliesOf(u)'
    <3>0. PICK q \in Requests : Grant(q).user = u /\
            \E i \in DOMAIN replies[q] : x = <<q, i>> /\ replies[q][i].kind \in {"forbidden", "limited"}
      BY <2>1
    <3>1. PICK i \in DOMAIN replies[q] : x = <<q, i>> /\ replies[q][i].kind \in {"forbidden", "limited"}
      BY <3>0
    <3>2. i \in DOMAIN replies'[q] /\ replies'[q][i] = replies[q][i]
      BY <1>1, <1>2, <1>4, <3>1
    <3>3. QED BY <2>2, <3>0, <3>1, <3>2
  <2>4. ASSUME NEW x \in AnomaliesOf(u)'
        PROVE  \/ x \in AnomaliesOf(u)
               \/ x = <<r, n>> /\ kind \in {"forbidden", "limited"} /\ u = Grant(r).user
    <3>0. PICK q \in Requests : Grant(q).user = u /\
            \E i \in DOMAIN replies'[q] : x = <<q, i>> /\ replies'[q][i].kind \in {"forbidden", "limited"}
      BY <2>2
    <3>1. PICK i \in DOMAIN replies'[q] : x = <<q, i>> /\ replies'[q][i].kind \in {"forbidden", "limited"}
      BY <3>0
    <3>2. CASE q = r /\ i = n
      BY <1>4, <3>0, <3>1, <3>2
    <3>3. CASE ~(q = r /\ i = n)
      <4>1. i \in DOMAIN replies[q] /\ replies'[q][i] = replies[q][i]
        BY <1>1, <1>2, <1>4, <3>1, <3>3
      <4>2. QED BY <2>1, <3>0, <3>1, <4>1
    <3>4. QED BY <3>2, <3>3
  <2>5. ASSUME kind \in {"forbidden", "limited"}, u = Grant(r).user PROVE <<r, n>> \in AnomaliesOf(u)'
    BY <1>2, <1>4, <2>2, <2>5
  <2>6. QED BY <2>3, <2>4, <2>5
<1>7. \A u \in Users : <<r, n>> \notin AnomaliesOf(u)
  <2>1. ASSUME NEW u \in Users, <<r, n>> \in AnomaliesOf(u) PROVE FALSE
    <3>1. \E q \in Requests : \E i \in DOMAIN replies[q] : <<r, n>> = <<q, i>>
      BY <2>1, AmongAnomalies
    <3>2. QED BY <1>2, <3>1
  <2>2. QED BY <2>1
<1>8. CASE kind \in {"forbidden", "limited"}
  <2>1. anomalies' = [anomalies EXCEPT ![Grant(r).user] = anomalies[Grant(r).user] + 1]
    BY <1>8 DEF Count
  <2>2. anomalies' \in [Users -> Nat]
    BY <1>5, <2>1
  <2>3. ASSUME NEW u \in Users
        PROVE  IsFiniteSet(AnomaliesOf(u)') /\ anomalies'[u] = Cardinality(AnomaliesOf(u)')
    <3>1. IsFiniteSet(AnomaliesOf(u)) /\ anomalies[u] = Cardinality(AnomaliesOf(u))
      BY DEF Tallied
    <3>2. CASE u = Grant(r).user
      <4>1. AnomaliesOf(u)' = AnomaliesOf(u) \cup {<<r, n>>}
        BY <1>6, <1>8, <3>2
      <4>2. /\ IsFiniteSet(AnomaliesOf(u) \cup {<<r, n>>})
            /\ Cardinality(AnomaliesOf(u) \cup {<<r, n>>}) = Cardinality(AnomaliesOf(u)) + 1
        BY <1>7, <3>1, FS_AddElement
      <4>3. anomalies'[u] = anomalies[u] + 1
        BY <1>5, <2>1, <3>2
      <4>4. QED BY <3>1, <4>1, <4>2, <4>3
    <3>3. CASE u # Grant(r).user
      BY <1>5, <1>6, <2>1, <3>1, <3>3
    <3>4. QED BY <3>2, <3>3
  <2>4. QED BY <2>2, <2>3 DEF Tallied
<1>9. CASE ~(kind \in {"forbidden", "limited"})
  <2>1. anomalies' = anomalies
    BY <1>9
  <2>2. \A u \in Users : AnomaliesOf(u)' = AnomaliesOf(u)
    BY <1>6, <1>9
  <2>3. QED BY <1>5, <2>1, <2>2 DEF Tallied
<1>10. QED BY <1>8, <1>9

(* No reply, no anomaly.                                                   *)
LEMMA TallySame ==
  ASSUME Tallied, token' = token, replies' = replies, anomalies' = anomalies
  PROVE  Tallied'
<1>1. \A u : AnomaliesOf(u)' = AnomaliesOf(u)
  BY DEF AnomaliesOf, Anomalous, Grant
<1>2. QED BY <1>1 DEF Tallied

(* A reply to the message that is handled keeps everything but the deques. *)
Telling(r, kind) ==
  /\ kind \in Kinds /\ Reply(r, kind) /\ (kind \in {"ok", "failed", "limited"} => Allowed(r, next[r]))
  /\ IF kind \in {"forbidden", "limited"} THEN Count(r) ELSE anomalies' = anomalies

(* A step that answers one message keeps the invariant.                    *)
LEMMA ReplyStep ==
  ASSUME McpAssumption, McpInv, NEW r \in Requests, NEW kind, Telling(r, kind),
         pc[r] \in {"open", "running"}, pc' = [pc EXCEPT ![r] = "open"], token' = token, batch' = batch,
         next[r] <= Len(batch[r]), Answered(Message(r)),
         mcpNow' = mcpNow, admitted' = admitted, calls' \in [CallKeys -> Seq(Nat)], DequesKept'
  PROVE  McpInv'
<1>0. /\ McpTyped /\ RepliesRight /\ Tallied
      /\ kind \in Kinds /\ Reply(r, kind) /\ (kind \in {"ok", "failed", "limited"} => Allowed(r, next[r]))
      /\ IF kind \in {"forbidden", "limited"} THEN Count(r) ELSE anomalies' = anomalies
  BY DEF McpInv, Telling
<1>1. /\ replies' \in [Requests -> Seq(ReplyRec)] /\ next' \in [Requests -> Nat]
      /\ \A q \in Requests \ {r} : replies'[q] = replies[q] /\ next'[q] = next[q]
  BY <1>0, ReplyTyped
<1>2. Tallied' /\ anomalies' \in [Users -> Nat]
  BY <1>0, ReplyTally
<1>3. RepliedUpTo(r)
  BY <1>0 DEF RepliesRight, RequestRight
<1>4. RepliedUpTo(r)'
  BY <1>0, <1>3, ReplyRight
<1>5. /\ pc'[r] = "open" /\ \A q \in Requests \ {r} : pc'[q] = pc[q]
      /\ pc' \in [Requests -> {"new", "open", "running", "closed", "refused", "failed"}]
  BY <1>0 DEF McpTyped
<1>6. RequestRight(r)'
  BY <1>4, <1>5 DEF RequestRight
<1>7. ASSUME NEW q \in Requests \ {r} PROVE RequestRight(q)'
  <2>1. RequestRight(q) /\ pc'[q] = pc[q] /\ replies'[q] = replies[q] /\ next'[q] = next[q]
    BY <1>0, <1>1, <1>5 DEF RepliesRight
  <2>2. QED BY <2>1, OtherRight
<1>8. RepliesRight'
  BY <1>6, <1>7 DEF RepliesRight
<1>9. McpTyped'
  BY <1>0, <1>1, <1>2, <1>5 DEF McpTyped
<1>10. QED BY <1>2, <1>8, <1>9 DEF McpInv

(* Where no reply is added and only one request moves.                     *)
LEMMA QuietStep ==
  ASSUME McpInv, NEW r \in Requests, RequestRight(r)',
         NEW to \in {"new", "open", "running", "closed", "refused", "failed"}, pc' = [pc EXCEPT ![r] = to],
         token' = token, batch' = batch, replies' = replies, anomalies' = anomalies, mcpNow' = mcpNow,
         next' \in [Requests -> Nat], \A q \in Requests \ {r} : next'[q] = next[q],
         calls' \in [CallKeys -> Seq(Nat)], admitted' \in [CallKeys -> Seq(Nat)], DequesKept'
  PROVE  McpInv'
<1>0. McpTyped /\ RepliesRight /\ Tallied
  BY DEF McpInv
<1>1. Tallied'
  BY <1>0, TallySame
<1>2. /\ \A q \in Requests \ {r} : pc'[q] = pc[q]
      /\ pc' \in [Requests -> {"new", "open", "running", "closed", "refused", "failed"}]
  BY <1>0 DEF McpTyped
<1>3. ASSUME NEW q \in Requests \ {r} PROVE RequestRight(q)'
  <2>1. RequestRight(q) /\ pc'[q] = pc[q] /\ replies'[q] = replies[q] /\ next'[q] = next[q]
    BY <1>0, <1>2 DEF RepliesRight
  <2>2. QED BY <2>1, OtherRight
<1>4. RepliesRight'
  BY <1>3 DEF RepliesRight
<1>5. McpTyped'
  BY <1>0, <1>2 DEF McpTyped
<1>6. QED BY <1>1, <1>4, <1>5 DEF McpInv

(* The deques while nothing is admitted and none is pruned.                *)
LEMMA DequesSame ==
  ASSUME McpAssumption, McpTyped, DequesKept, calls' = calls, admitted' = admitted,
         mcpNow' = mcpNow \/ mcpNow' = mcpNow + 1
  PROVE  DequesKept'
<1>1. SUFFICES ASSUME NEW k \in CallKeys PROVE KeptIn(admitted[k], calls[k])'
  BY DEF DequesKept
<1>2. KeptIn(admitted[k], calls[k]) /\ admitted[k] \in Seq(Nat) /\ calls[k] \in Seq(Nat) /\ mcpNow \in Nat
  BY McpAssumption DEF DequesKept, McpTyped
<1>3. mcpNow' \in Nat /\ mcpNow <= mcpNow'
  BY <1>2
<1>4. \A i \in 1..Len(admitted[k]) : admitted[k][i] \in Nat /\ admitted[k][i] <= mcpNow
  BY <1>2 DEF KeptIn
<1>5. \A i \in 1..Len(admitted[k]) : admitted'[k][i] <= mcpNow'
  <2>1. ASSUME NEW i \in 1..Len(admitted[k]) PROVE admitted[k][i] <= mcpNow'
    <3>1. admitted[k][i] \in Nat /\ admitted[k][i] <= mcpNow /\ mcpNow \in Nat
      BY <1>2, <1>4
    <3>2. \A x, y, z \in Nat : x <= y /\ y <= z => x <= z
      OBVIOUS
    <3>3. QED BY <1>3, <3>1, <3>2
  <2>2. admitted' = admitted
    OBVIOUS
  <2>3. QED BY <2>1, <2>2, Zenon
<1>6. \A i \in 1..(Len(admitted[k]) - Len(calls[k])) : mcpNow' - admitted'[k][i] > Minute
  <2>1. ASSUME NEW i \in 1..(Len(admitted[k]) - Len(calls[k])) PROVE mcpNow' - admitted[k][i] > Minute
    <3>1. mcpNow - admitted[k][i] > Minute /\ i \in 1..Len(admitted[k])
      BY <1>2 DEF KeptIn
    <3>2. admitted[k][i] \in Nat /\ Minute \in Nat
      BY <1>4, <3>1, McpAssumption
    <3>3. QED BY <1>2, <1>3, <3>1, <3>2
  <2>2. QED BY <2>1
<1>7. QED BY <1>2, <1>5, <1>6 DEF KeptIn

-----------------------------------------------------------------------------
(* The handlers.                                                           *)
LEMMA ArriveKeeps ==
  ASSUME McpAssumption, McpInv, NEW r \in Requests, Arrive(r)
  PROVE  McpInv'
<1>0. McpTyped /\ DequesKept /\ RepliesRight /\ Tallied /\ pc[r] = "new"
  BY DEF McpInv, Arrive
<1>1. /\ token' = token /\ batch' = batch /\ mcpNow' = mcpNow /\ anomalies' = anomalies /\ next' = next
      /\ calls' = calls /\ admitted' = admitted
  BY DEF Arrive
<1>2. DequesKept'
  BY <1>0, <1>1, DequesSame
<1>3. /\ next \in [Requests -> Nat] /\ calls \in [CallKeys -> Seq(Nat)] /\ admitted \in [CallKeys -> Seq(Nat)]
      /\ replies \in [Requests -> Seq(ReplyRec)]
      /\ pc \in [Requests -> {"new", "open", "running", "closed", "refused", "failed"}]
  BY <1>0 DEF McpTyped
<1>4. CASE Resolves(r)
  <2>1. pc' = [pc EXCEPT ![r] = "open"] /\ replies' = replies
    BY <1>4 DEF Arrive
  <2>2. pc'[r] = "open"
    BY <1>3, <2>1
  <2>3. RepliedUpTo(r)
    BY <1>0 DEF RepliesRight, RequestRight
  <2>4. Grant(r)' = Grant(r)
    BY <1>1 DEF Grant
  <2>5. RequestRight(r)'
    BY <1>1, <2>1, <2>2, <2>3, <2>4 DEF RequestRight, RepliedUpTo, Allowed
  <2>6. QED BY <1>1, <1>2, <1>3, <2>1, <2>5, QuietStep
<1>5. CASE ~Resolves(r)
  <2> DEFINE told == <<[kind |-> "unauthorized", id |-> 0]>>
  <2>1. pc' = [pc EXCEPT ![r] = "refused"] /\ replies' = [replies EXCEPT ![r] = told]
    BY <1>5 DEF Arrive
  <2>2. told \in Seq(ReplyRec) /\ told[1].kind = "unauthorized" /\ DOMAIN told = {1}
    <3>1. [kind |-> "unauthorized", id |-> 0] \in ReplyRec
      BY DEF ReplyRec, Kinds
    <3>2. told \in Seq(ReplyRec) /\ told[1] = [kind |-> "unauthorized", id |-> 0]
      BY <3>1
    <3>3. QED BY <3>2
  <2>3. replies[r] = <<>>
    BY <1>0 DEF RepliesRight, RequestRight
  <2> HIDE DEF told
  <2>4. /\ pc'[r] = "refused" /\ \A q \in Requests \ {r} : pc'[q] = pc[q] /\ replies'[q] = replies[q]
        /\ replies'[r] = told /\ replies' \in [Requests -> Seq(ReplyRec)]
        /\ pc' \in [Requests -> {"new", "open", "running", "closed", "refused", "failed"}]
    BY <1>3, <2>1, <2>2
  <2>5. RequestRight(r)'
    BY <2>4 DEF RequestRight
  <2>6. ASSUME NEW q \in Requests \ {r} PROVE RequestRight(q)'
    <3>1. RequestRight(q) /\ pc'[q] = pc[q] /\ replies'[q] = replies[q] /\ next'[q] = next[q]
      BY <1>0, <1>1, <2>4 DEF RepliesRight
    <3>2. QED BY <1>1, <3>1, OtherRight
  <2>7. Anomalous(r) = {} /\ Anomalous(r)' = {}
    <3>1. DOMAIN replies[r] = {}
      BY <2>3
    <3>2. \A i \in DOMAIN replies'[r] : replies'[r][i].kind = "unauthorized"
      BY <2>2, <2>4
    <3>3. QED BY <3>1, <3>2 DEF Anomalous
  <2>8. \A q \in Requests : Anomalous(q)' = Anomalous(q) /\ Grant(q)' = Grant(q)
    BY <1>1, <2>4, <2>7 DEF Anomalous, Grant
  <2>9. \A u : AnomaliesOf(u)' = AnomaliesOf(u)
    BY <2>8 DEF AnomaliesOf
  <2>10. Tallied'
    BY <1>0, <1>1, <2>9 DEF Tallied
  <2>11. McpTyped'
    BY <1>0, <1>1, <2>4 DEF McpTyped
  <2>12. QED BY <1>2, <2>5, <2>6, <2>10, <2>11 DEF McpInv, RepliesRight
<1>6. QED BY <1>4, <1>5

(* The methods but for tools/call.                                         *)
LEMMA SimpleKeeps ==
  ASSUME McpAssumption, McpInv, NEW r \in Requests, Simple(r)
  PROVE  McpInv'
<1>0. McpTyped /\ DequesKept /\ RepliesRight /\ Tallied /\ pc[r] = "open" /\ next[r] <= Len(batch[r])
  BY DEF McpInv, Simple, Handled
<1>1. /\ token' = token /\ batch' = batch /\ mcpNow' = mcpNow /\ anomalies' = anomalies /\ pc' = pc
      /\ calls' = calls /\ admitted' = admitted /\ Message(r).method \notin {"tools/call", "broken"}
  BY DEF Simple
<1>2. DequesKept'
  BY <1>0, <1>1, DequesSame
<1>3. /\ next \in [Requests -> Nat] /\ calls \in [CallKeys -> Seq(Nat)] /\ admitted \in [CallKeys -> Seq(Nat)]
      /\ pc \in [Requests -> {"new", "open", "running", "closed", "refused", "failed"}]
  BY <1>0 DEF McpTyped
<1>4. pc' = [pc EXCEPT ![r] = "open"]
  BY <1>0, <1>1, <1>3
<1>5. RepliedUpTo(r)
  BY <1>0 DEF RepliesRight, RequestRight
<1>6. Allowed(r, next[r])
  BY <1>1 DEF Allowed, Message
<1>7. ASSUME NEW kind \in {"ok", "nomethod"}, Reply(r, kind), Answered(Message(r)) PROVE McpInv'
  <2>1. Telling(r, kind)
    BY <1>1, <1>6, <1>7 DEF Telling, Kinds
  <2>2. QED BY <1>0, <1>1, <1>2, <1>3, <1>4, <1>7, <2>1, ReplyStep
<1>8. ASSUME Silent(r), ~Answered(Message(r)) PROVE McpInv'
  <2>1. replies' = replies
    BY <1>8 DEF Silent
  <2>2. RepliedUpTo(r)' /\ next' \in [Requests -> Nat] /\ \A q \in Requests \ {r} : next'[q] = next[q]
    BY <1>0, <1>1, <1>5, <1>8, SilentRight
  <2>3. RequestRight(r)'
    BY <1>0, <1>1, <2>2 DEF RequestRight
  <2>4. QED BY <1>1, <1>2, <1>3, <1>4, <2>1, <2>2, <2>3, QuietStep
<1>9. CASE Message(r).method \in Methods /\ Reply(r, "ok")
  BY <1>7, <1>9 DEF Methods, Answered
<1>10. CASE Message(r).method \in Notices /\ Silent(r)
  BY <1>8, <1>10 DEF Notices, Answered
<1>11. CASE /\ Message(r).method \notin Methods \cup Notices
            /\ IF Message(r).id THEN Reply(r, "nomethod") ELSE Silent(r)
  <2>1. Answered(Message(r)) <=> Message(r).id
    BY <1>1, <1>11 DEF Answered, Methods, Notices
  <2>2. QED BY <1>7, <1>8, <1>11, <2>1
<1>12. QED BY <1>9, <1>10, <1>11 DEF Simple

(* A message that breaks its batch off.                                    *)
LEMMA BrokenKeeps ==
  ASSUME McpAssumption, McpInv, NEW r \in Requests, Broken(r)
  PROVE  McpInv'
<1>0. McpTyped /\ DequesKept /\ RepliesRight /\ Tallied /\ pc[r] = "open"
  BY DEF McpInv, Broken, Handled
<1>1. /\ token' = token /\ batch' = batch /\ mcpNow' = mcpNow /\ anomalies' = anomalies /\ next' = next
      /\ replies' = replies /\ calls' = calls /\ admitted' = admitted /\ pc' = [pc EXCEPT ![r] = "failed"]
  BY DEF Broken
<1>2. DequesKept'
  BY <1>0, <1>1, DequesSame
<1>3. /\ calls \in [CallKeys -> Seq(Nat)] /\ admitted \in [CallKeys -> Seq(Nat)] /\ next \in [Requests -> Nat]
      /\ pc \in [Requests -> {"new", "open", "running", "closed", "refused", "failed"}]
  BY <1>0 DEF McpTyped
<1>4. RequestRight(r)'
  <2>1. pc'[r] = "failed"
    BY <1>1, <1>3
  <2>2. RepliedUpTo(r)
    BY <1>0 DEF RepliesRight, RequestRight
  <2>3. Grant(r)' = Grant(r)
    BY <1>1 DEF Grant
  <2>4. RepliedUpTo(r)'
    BY <1>1, <2>2, <2>3 DEF RepliedUpTo, Allowed
  <2>5. QED BY <2>1, <2>4 DEF RequestRight
<1>5. QED BY <1>1, <1>2, <1>3, <1>4, QuietStep

(* A call of a tool that is answered at once.                              *)
LEMMA CallKeeps ==
  ASSUME McpAssumption, McpInv, NEW r \in Requests, UnknownTool(r) \/ Forbidden(r) \/ Limited(r)
  PROVE  McpInv'
<1>0. McpTyped /\ DequesKept /\ RepliesRight /\ Tallied /\ pc[r] = "open" /\ next[r] <= Len(batch[r])
  BY DEF McpInv, UnknownTool, Forbidden, Limited, Handled
<1>1. /\ token' = token /\ batch' = batch /\ mcpNow' = mcpNow /\ pc' = pc
      /\ admitted' = admitted /\ Message(r).method = "tools/call"
  BY DEF UnknownTool, Forbidden, Limited
<1>2. Answered(Message(r))
  BY <1>1 DEF Answered
<1>3. /\ calls \in [CallKeys -> Seq(Nat)] /\ admitted \in [CallKeys -> Seq(Nat)]
      /\ pc \in [Requests -> {"new", "open", "running", "closed", "refused", "failed"}]
  BY <1>0 DEF McpTyped
<1>4. pc' = [pc EXCEPT ![r] = "open"]
  BY <1>0, <1>1, <1>3
<1>5. CASE UnknownTool(r)
  <2>1. Reply(r, "unknown") /\ calls' = calls /\ anomalies' = anomalies
    BY <1>5 DEF UnknownTool
  <2>2. DequesKept'
    BY <1>0, <1>1, <2>1, DequesSame
  <2>3. Telling(r, "unknown")
    BY <2>1 DEF Telling, Kinds
  <2>4. QED BY <1>0, <1>1, <1>2, <1>3, <1>4, <2>1, <2>2, <2>3, ReplyStep
<1>6. CASE Forbidden(r)
  <2>1. Reply(r, "forbidden") /\ calls' = calls /\ Count(r)
    BY <1>6 DEF Forbidden
  <2>2. DequesKept'
    BY <1>0, <1>1, <2>1, DequesSame
  <2>3. Telling(r, "forbidden")
    BY <2>1 DEF Telling, Kinds
  <2>4. QED BY <1>0, <1>1, <1>2, <1>3, <1>4, <2>1, <2>2, <2>3, ReplyStep
<1>7. CASE Limited(r)
  <2> DEFINE k == Grant(r).key
  <2>1. Reply(r, "limited") /\ Count(r) /\ calls' = [calls EXCEPT ![k] = Recent(calls[k])]
    BY <1>7 DEF Limited
  <2>2. k \in CallKeys
    BY <1>0 DEF Grant, CallKeys, McpTyped
  <2> HIDE DEF k
  <2>3. Recent(calls[k]) \in Seq(Nat) /\ KeptIn(admitted[k], Recent(calls[k]))
    BY <1>0, <1>3, <2>2, RecentKept, McpAssumption DEF DequesKept, McpTyped
  <2>4. calls' \in [CallKeys -> Seq(Nat)]
    BY <1>3, <2>1, <2>3
  <2>5. ASSUME NEW j \in CallKeys PROVE KeptIn(admitted[j], calls[j])'
    <3>1. KeptIn(admitted[j], calls'[j])
      <4>1. CASE j = k
        BY <1>3, <2>1, <2>3, <4>1
      <4>2. CASE j # k
        BY <1>0, <1>3, <2>1, <4>2 DEF DequesKept
      <4>3. QED BY <4>1, <4>2
    <3>2. QED BY <1>1, <3>1 DEF KeptIn
  <2>6. DequesKept'
    BY <2>5 DEF DequesKept
  <2>7. Allowed(r, next[r])
    BY <1>7 DEF Limited, Permitted, Allowed, Message
  <2>8. Telling(r, "limited")
    BY <2>1, <2>7 DEF Telling, Kinds
  <2>9. QED BY <1>0, <1>1, <1>2, <1>3, <1>4, <2>4, <2>6, <2>8, ReplyStep
<1>8. QED BY <1>5, <1>6, <1>7

(* A call that is let through.                                             *)
LEMMA AdmitKeeps ==
  ASSUME McpAssumption, McpInv, NEW r \in Requests, Admit(r)
  PROVE  McpInv'
<1> DEFINE k == Grant(r).key
<1> DEFINE q == Recent(calls[k])
<1>0. /\ McpTyped /\ DequesKept /\ RepliesRight /\ Tallied /\ pc[r] = "open" /\ next[r] <= Len(batch[r])
      /\ Message(r).method = "tools/call" /\ Permitted(r)
  BY DEF McpInv, Admit, Handled
<1>1. /\ token' = token /\ batch' = batch /\ mcpNow' = mcpNow /\ anomalies' = anomalies /\ next' = next
      /\ replies' = replies /\ pc' = [pc EXCEPT ![r] = "running"]
  BY DEF Admit
<1>2. /\ Room(q) /\ calls' = [calls EXCEPT ![k] = Append(q, mcpNow)]
      /\ admitted' = [admitted EXCEPT ![k] = Append(admitted[k], mcpNow)]
  BY DEF Admit
<1>3. k \in CallKeys
  BY <1>0 DEF Grant, CallKeys, McpTyped
<1> HIDE DEF k
<1>4. /\ calls \in [CallKeys -> Seq(Nat)] /\ admitted \in [CallKeys -> Seq(Nat)] /\ next \in [Requests -> Nat]
      /\ pc \in [Requests -> {"new", "open", "running", "closed", "refused", "failed"}] /\ mcpNow \in Nat
  BY <1>0, McpAssumption DEF McpTyped
<1>5. q \in Seq(Nat) /\ KeptIn(admitted[k], q)
  BY <1>0, <1>3, <1>4, RecentKept DEF DequesKept
<1> HIDE DEF q
<1>6. KeptIn(Append(admitted[k], mcpNow), Append(q, mcpNow))
  BY <1>2, <1>3, <1>4, <1>5, AdmitKept
<1>7. /\ Append(q, mcpNow) \in Seq(Nat) /\ Append(admitted[k], mcpNow) \in Seq(Nat)
  BY <1>3, <1>4, <1>5, AppendProperties
<1>8. calls' \in [CallKeys -> Seq(Nat)] /\ admitted' \in [CallKeys -> Seq(Nat)]
  BY <1>2, <1>4, <1>7
<1>9. ASSUME NEW j \in CallKeys PROVE KeptIn(admitted[j], calls[j])'
  <2>1. KeptIn(admitted'[j], calls'[j])
    <3>1. CASE j = k
      BY <1>2, <1>3, <1>4, <1>6, <3>1
    <3>2. CASE j # k
      BY <1>0, <1>2, <1>4, <3>2 DEF DequesKept
    <3>3. QED BY <3>1, <3>2
  <2>2. QED BY <1>1, <2>1 DEF KeptIn
<1>10. DequesKept'
  BY <1>9 DEF DequesKept
<1>11. RequestRight(r)'
  <2>1. pc'[r] = "running"
    BY <1>1, <1>4
  <2>2. RepliedUpTo(r)
    BY <1>0 DEF RepliesRight, RequestRight
  <2>3. Grant(r)' = Grant(r) /\ Message(r)' = Message(r)
    BY <1>1 DEF Grant, Message
  <2>4. RepliedUpTo(r)'
    BY <1>1, <2>2, <2>3 DEF RepliedUpTo, Allowed
  <2>5. Calling(r)'
    BY <1>0, <1>1, <2>3 DEF Calling, Permitted
  <2>6. QED BY <2>1, <2>4, <2>5 DEF RequestRight
<1>12. QED BY <1>1, <1>4, <1>8, <1>10, <1>11, QuietStep

(* Its tool has run.                                                       *)
LEMMA DoneKeeps ==
  ASSUME McpAssumption, McpInv, NEW r \in Requests, ToolDone(r)
  PROVE  McpInv'
<1>0. McpTyped /\ DequesKept /\ RepliesRight /\ Tallied /\ pc[r] = "running"
  BY DEF McpInv, ToolDone
<1>1. /\ token' = token /\ batch' = batch /\ mcpNow' = mcpNow /\ anomalies' = anomalies
      /\ calls' = calls /\ admitted' = admitted /\ pc' = [pc EXCEPT ![r] = "open"]
  BY DEF ToolDone
<1>2. PICK kind \in {"ok", "failed"} : Reply(r, kind)
  BY DEF ToolDone
<1>3. DequesKept'
  BY <1>0, <1>1, DequesSame
<1>4. Calling(r)
  BY <1>0 DEF RepliesRight, RequestRight
<1>5. next[r] <= Len(batch[r]) /\ Answered(Message(r)) /\ Allowed(r, next[r])
  BY <1>4 DEF Calling, Answered, Allowed, Permitted, Message
<1>6. calls' \in [CallKeys -> Seq(Nat)]
  BY <1>0, <1>1 DEF McpTyped
<1>7. Telling(r, kind)
  BY <1>1, <1>2, <1>5 DEF Telling, Kinds
<1>8. QED BY <1>0, <1>1, <1>3, <1>5, <1>6, <1>7, ReplyStep

(* The response is sent.                                                   *)
LEMMA RespondKeeps ==
  ASSUME McpAssumption, McpInv, NEW r \in Requests, Respond(r)
  PROVE  McpInv'
<1>0. McpTyped /\ DequesKept /\ RepliesRight /\ Tallied /\ pc[r] = "open" /\ next[r] > Len(batch[r])
  BY DEF McpInv, Respond
<1>1. /\ token' = token /\ batch' = batch /\ mcpNow' = mcpNow /\ anomalies' = anomalies /\ next' = next
      /\ replies' = replies /\ calls' = calls /\ admitted' = admitted /\ pc' = [pc EXCEPT ![r] = "closed"]
  BY DEF Respond
<1>2. DequesKept'
  BY <1>0, <1>1, DequesSame
<1>3. /\ calls \in [CallKeys -> Seq(Nat)] /\ admitted \in [CallKeys -> Seq(Nat)] /\ next \in [Requests -> Nat]
      /\ pc \in [Requests -> {"new", "open", "running", "closed", "refused", "failed"}]
  BY <1>0 DEF McpTyped
<1>4. RequestRight(r)'
  <2>1. pc'[r] = "closed"
    BY <1>1, <1>3
  <2>2. RepliedUpTo(r)
    BY <1>0 DEF RepliesRight, RequestRight
  <2>3. Grant(r)' = Grant(r)
    BY <1>1 DEF Grant
  <2>4. RepliedUpTo(r)'
    BY <1>1, <2>2, <2>3 DEF RepliedUpTo, Allowed
  <2>5. next'[r] = Len(batch'[r]) + 1
    <3>1. Len(batch[r]) \in Nat
      BY <1>0, McpAssumption DEF McpTyped
    <3>2. QED BY <1>0, <1>1, <2>2, <3>1 DEF RepliedUpTo
  <2>6. QED BY <2>1, <2>4, <2>5 DEF RequestRight
<1>5. QED BY <1>1, <1>2, <1>3, <1>4, QuietStep

(* Every step.                                                             *)
LEMMA McpKeeps ==
  ASSUME McpAssumption, McpInv, [McpNext]_mcpVars
  PROVE  McpInv'
<1>1. CASE McpTick \/ UNCHANGED mcpVars
  <2>0. McpTyped /\ DequesKept /\ RepliesRight /\ Tallied
    BY DEF McpInv
  <2>1. /\ token' = token /\ batch' = batch /\ pc' = pc /\ replies' = replies /\ next' = next
        /\ calls' = calls /\ admitted' = admitted /\ anomalies' = anomalies
        /\ (mcpNow' = mcpNow \/ (mcpNow' = mcpNow + 1 /\ mcpNow < McpMaxTime))
    BY <1>1 DEF McpTick, mcpVars
  <2>2. DequesKept'
    BY <2>0, <2>1, DequesSame
  <2>3. Tallied'
    BY <2>0, <2>1, TallySame
  <2>4. RepliesRight'
    BY <2>0, <2>1, OtherRight DEF RepliesRight
  <2>5. mcpNow' \in 0..McpMaxTime
    BY <2>0, <2>1, McpAssumption DEF McpTyped
  <2>6. QED BY <2>0, <2>1, <2>2, <2>3, <2>4, <2>5 DEF McpInv, McpTyped
<1>2. QED BY <1>1, ArriveKeeps, SimpleKeeps, BrokenKeeps, CallKeeps, AdmitKeeps, DoneKeeps, RespondKeeps DEF McpNext, Work

(* Initially.                                                              *)
LEMMA McpStarts == McpAssumption /\ McpInit => McpInv
<1>1. SUFFICES ASSUME McpAssumption, McpInit PROVE McpInv
  OBVIOUS
<1>2. McpTyped
  BY <1>1 DEF McpInit, McpTyped
<1>3. DequesKept
  BY <1>1 DEF McpInit, DequesKept, KeptIn
<1>4. RepliesRight
  <2>1. SUFFICES ASSUME NEW r \in Requests PROVE RequestRight(r)
    BY DEF RepliesRight
  <2>2. pc[r] = "new" /\ replies[r] = <<>> /\ next[r] = 1 /\ Len(batch[r]) \in Nat
    BY <1>1, <1>2 DEF McpInit, McpTyped
  <2>3. QED BY <2>2 DEF RequestRight, RepliedUpTo
<1>5. \A u : AnomaliesOf(u) = {}
  BY <1>1 DEF McpInit, AnomaliesOf, Anomalous
<1>6. Tallied
  BY <1>1, <1>5, FS_EmptySet DEF McpInit, Tallied
<1>7. QED BY <1>2, <1>3, <1>4, <1>6 DEF McpInv

-----------------------------------------------------------------------------
(* What holds of every state.                                              *)
LEMMA McpStates ==
  ASSUME McpAssumption, McpInv
  PROVE  McpTypeOK /\ WindowHolds /\ AnomaliesCounted /\ BatchAnswered
<1>0. McpTyped /\ DequesKept /\ RepliesRight /\ Tallied
  BY DEF McpInv
<1>1. \A r \in Requests : Len(batch[r]) \in Nat /\ DOMAIN batch[r] = 1..Len(batch[r])
                          /\ DOMAIN replies[r] = 1..Len(replies[r]) /\ Len(replies[r]) \in Nat
  BY <1>0, McpAssumption DEF McpTyped
<1>2. McpTypeOK
  <2>1. \A k \in CallKeys : Len(calls[k]) <= PerMinute
    BY <1>0 DEF DequesKept, KeptIn
  <2>2. ASSUME NEW r \in Requests, pc[r] # "refused" PROVE Len(replies[r]) <= Len(batch[r])
    <3>1. RepliedUpTo(r)
      BY <1>0, <2>2 DEF RepliesRight, RequestRight
    <3>2. QED BY <1>1, <3>1 DEF RepliedUpTo
  <2>3. QED BY <1>0, <2>1, <2>2 DEF McpTypeOK, McpTyped
<1>3. WindowHolds
  <2>1. SUFFICES ASSUME NEW k \in CallKeys, NEW i \in DOMAIN admitted[k], i + PerMinute <= Len(admitted[k])
                 PROVE  admitted[k][i + PerMinute] - admitted[k][i] > Minute
    BY DEF WindowHolds
  <2>2. admitted[k] \in Seq(Nat) /\ KeptIn(admitted[k], calls[k])
    BY <1>0 DEF McpTyped, DequesKept
  <2>3. DOMAIN admitted[k] = 1..Len(admitted[k])
    BY <2>2
  <2>4. QED BY <2>1, <2>2, <2>3 DEF KeptIn
<1>4. AnomaliesCounted
  BY <1>0 DEF AnomaliesCounted, Tallied, AnomaliesOf
<1>5. BatchAnswered
  <2>1. SUFFICES ASSUME NEW r \in Requests, pc[r] = "closed"
                 PROVE  /\ {replies[r][i].id : i \in DOMAIN replies[r]} = {i \in DOMAIN batch[r] : Answered(batch[r][i])}
                        /\ \A i, j \in DOMAIN replies[r] : i < j => replies[r][i].id < replies[r][j].id
                        /\ \A t : Ran(r, t) => t \in Tools \cap Grant(r).tools
    BY DEF BatchAnswered
  <2>2. RepliedUpTo(r) /\ next[r] = Len(batch[r]) + 1
    BY <1>0, <2>1 DEF RepliesRight, RequestRight
  <2>3. next[r] - 1 = Len(batch[r])
    BY <1>1, <2>2
  <2>4. \A i \in DOMAIN replies[r] : replies[r][i].id \in DOMAIN batch[r] /\ Answered(batch[r][replies[r][i].id])
    BY <1>1, <2>2, <2>3 DEF RepliedUpTo
  <2>5. \A m \in DOMAIN batch[r] : Answered(batch[r][m]) => \E i \in DOMAIN replies[r] : replies[r][i].id = m
    BY <1>1, <2>2, <2>3 DEF RepliedUpTo
  <2>6. \A i, j \in DOMAIN replies[r] : i < j => replies[r][i].id < replies[r][j].id
    BY <1>1, <2>2 DEF RepliedUpTo
  <2>7. ASSUME NEW t, Ran(r, t) PROVE t \in Tools \cap Grant(r).tools
    <3>1. PICK i \in DOMAIN replies[r] :
            /\ replies[r][i].kind \in {"ok", "failed", "limited"}
            /\ batch[r][replies[r][i].id] = [method |-> "tools/call", tool |-> t, id |-> TRUE]
      BY <2>7 DEF Ran
    <3>2. Allowed(r, replies[r][i].id)
      BY <1>1, <2>2, <3>1 DEF RepliedUpTo
    <3>3. QED BY <3>1, <3>2 DEF Allowed
  <2>8. QED BY <2>4, <2>5, <2>6, <2>7
<1>6. QED BY <1>2, <1>3, <1>4, <1>5

(* A call that is put off meets a minute that is full.                     *)
FullNow == \A r \in Requests :
  (Len(replies'[r]) > Len(replies[r]) /\ Last(replies'[r]).kind = "limited") =>
     Cardinality({i \in DOMAIN admitted[Grant(r).key] :
                    mcpNow - admitted[Grant(r).key][i] <= Minute}) >= PerMinute

(* Where a deque without room is, there are PerMinute calls of that minute. *)
LEMMA FullDeque ==
  ASSUME McpAssumption, mcpNow \in Nat, NEW a \in Seq(Nat), NEW c \in Seq(Nat), KeptIn(a, c), ~Room(Recent(c))
  PROVE  Cardinality({i \in DOMAIN a : mcpNow - a[i] <= Minute}) >= PerMinute
<1> DEFINE q == Recent(c)
<1> DEFINE S == {i \in DOMAIN a : mcpNow - a[i] <= Minute}
<1>1. q \in Seq(Nat) /\ KeptIn(a, q) /\ \A i \in 1..Len(q) : mcpNow - q[i] <= Minute
  BY RecentKept
<1>2. Len(q) \in Nat /\ Len(a) \in Nat /\ Len(q) <= Len(a) /\ DOMAIN a = 1..Len(a) /\ PerMinute \in Nat
      /\ Len(q) >= PerMinute
  BY <1>1, McpAssumption DEF KeptIn, Room
<1> HIDE DEF q
<1> DEFINE m == Len(a) - Len(q)
<1>3. m \in Nat /\ m + Len(q) = Len(a)
  BY <1>2
<1>4. \A j \in (m + 1)..Len(a) : j \in S
  <2>1. SUFFICES ASSUME NEW j \in (m + 1)..Len(a) PROVE j \in S
    OBVIOUS
  <2>2. PICK i \in 1..Len(q) : j = m + i
    <3>1. j - m \in 1..Len(q) /\ j = m + (j - m)
      BY <1>2, <1>3, <2>1
    <3>2. QED BY <3>1
  <2>3. q[i] = a[j]
    BY <1>1, <2>2 DEF KeptIn
  <2>4. j \in DOMAIN a
    BY <1>2, <1>3, <2>1
  <2>5. QED BY <1>1, <2>2, <2>3, <2>4
<1>5. IsFiniteSet(S)
  <2>1. IsFiniteSet(1..Len(a)) /\ S \in SUBSET (1..Len(a))
    BY <1>2, FS_Interval
  <2>2. QED BY <2>1, FS_Subset
<1>6. Cardinality((m + 1)..Len(a)) = Len(q)
  <2>1. PICK low \in Int, high \in Int : low = m + 1 /\ high = Len(a)
    <3>1. m + 1 \in Int /\ Len(a) \in Int
      BY <1>2, <1>3
    <3>2. QED BY <3>1
  <2>2. Cardinality(low..high) = IF low > high THEN 0 ELSE high - low + 1
    BY FS_Interval
  <2>3. QED BY <1>2, <1>3, <2>1, <2>2
<1>7. Cardinality((m + 1)..Len(a)) <= Cardinality(S)
  <2>1. (m + 1)..Len(a) \in SUBSET S
    BY <1>4
  <2>2. QED BY <1>5, <2>1, FS_Subset
<1>8. Cardinality(S) \in Nat
  BY <1>5, FS_CardinalityType
<1>9. QED BY <1>2, <1>6, <1>7, <1>8

(* A call is put off only where its minute is full.                        *)
LEMMA FullStep ==
  ASSUME McpAssumption, McpInv, [McpNext]_mcpVars
  PROVE  FullNow
<1>0. McpTyped /\ DequesKept
  BY DEF McpInv
<1>1. SUFFICES ASSUME NEW r \in Requests, Len(replies'[r]) > Len(replies[r]), Last(replies'[r]).kind = "limited"
               PROVE  Cardinality({i \in DOMAIN admitted[Grant(r).key] :
                                     mcpNow - admitted[Grant(r).key][i] <= Minute}) >= PerMinute
  BY DEF FullNow
<1>2. Len(replies[r]) \in Nat
  BY <1>0 DEF McpTyped
<1>3. replies'[r] # replies[r]
  BY <1>1, <1>2
<1>4. ASSUME NEW q \in Requests, NEW kind \in Kinds, Reply(q, kind) PROVE q = r /\ kind = "limited"
  <2>1. /\ \A p \in Requests \ {q} : replies'[p] = replies[p]
        /\ Len(replies'[q]) = Len(replies[q]) + 1 /\ replies'[q][Len(replies[q]) + 1].kind = kind
    BY <1>0, <1>4, ReplyTyped
  <2>2. QED BY <1>1, <1>3, <2>1 DEF Last
<1>5. Limited(r)
  <2>1. PICK q \in Requests : Work(q)
    BY <1>3 DEF McpNext, McpTick, mcpVars
  <2>2. CASE Arrive(q)
    <3>1. replies' = [replies EXCEPT ![q] = <<[kind |-> "unauthorized", id |-> 0]>>]
      BY <1>3, <2>2 DEF Arrive
    <3>2. replies'[r] = <<[kind |-> "unauthorized", id |-> 0]>>
      BY <1>0, <1>3, <3>1 DEF McpTyped
    <3>3. Last(replies'[r]).kind = "unauthorized"
      BY <3>2 DEF Last
    <3>4. QED BY <1>1, <3>3
  <2>3. ASSUME Simple(q) PROVE FALSE
    <3>1. PICK kind \in {"ok", "nomethod"} : Reply(q, kind)
      BY <1>3, <2>3 DEF Simple, Silent
    <3>2. QED BY <1>4, <3>1 DEF Kinds
  <2>4. ASSUME UnknownTool(q) PROVE FALSE
    BY <1>4, <2>4 DEF UnknownTool, Kinds
  <2>5. ASSUME Forbidden(q) PROVE FALSE
    BY <1>4, <2>5 DEF Forbidden, Kinds
  <2>6. CASE Limited(q)
    <3>1. Reply(q, "limited")
      BY <2>6 DEF Limited
    <3>2. QED BY <1>4, <2>6, <3>1 DEF Kinds
  <2>7. ASSUME ToolDone(q) PROVE FALSE
    <3>1. PICK kind \in {"ok", "failed"} : Reply(q, kind)
      BY <2>7 DEF ToolDone
    <3>2. QED BY <1>4, <3>1 DEF Kinds
  <2>8. ASSUME Admit(q) \/ Respond(q) \/ Broken(q) PROVE FALSE
    BY <1>3, <2>8 DEF Admit, Respond, Broken
  <2>9. QED BY <2>1, <2>2, <2>3, <2>4, <2>5, <2>6, <2>7, <2>8 DEF Work
<1>6. Grant(r).key \in CallKeys
  BY <1>0 DEF Grant, CallKeys, McpTyped
<1>7. PICK k \in CallKeys : k = Grant(r).key
  BY <1>6
<1>8. ~Room(Recent(calls[k]))
  BY <1>5, <1>7 DEF Limited
<1>9. /\ admitted[k] \in Seq(Nat) /\ calls[k] \in Seq(Nat) /\ KeptIn(admitted[k], calls[k]) /\ mcpNow \in Nat
  BY <1>0, McpAssumption DEF McpTyped, DequesKept
<1>10. QED BY <1>7, <1>8, <1>9, FullDeque

(* The limit holds for every user, token, batch and interleaving, and it   *)
(* alone puts a call off; anomalies are counted, batches answered.         *)
THEOREM CallsKept == McpSpec => CallsRight
<1>1. McpSpec => []McpInv
  <2>1. McpInit => McpInv
    BY McpStarts, McpAssumption
  <2>2. McpInv /\ [McpNext]_mcpVars => McpInv'
    BY McpKeeps, McpAssumption
  <2>3. QED BY <2>1, <2>2, PTL DEF McpSpec
<1>2. McpInv => McpTypeOK /\ WindowHolds /\ AnomaliesCounted /\ BatchAnswered
  BY McpStates, McpAssumption
<1>3. McpInv /\ [McpNext]_mcpVars => FullNow
  BY FullStep, McpAssumption
<1>4. McpSpec => [](McpTypeOK /\ WindowHolds /\ AnomaliesCounted /\ BatchAnswered)
  BY <1>1, <1>2, PTL
<1>5. McpSpec => [][FullNow]_mcpVars
  BY <1>1, <1>3, PTL DEF McpSpec
<1>6. McpSpec => RefusedWhenFull
  BY <1>5, PTL DEF RefusedWhenFull, FullNow
<1>7. QED BY <1>4, <1>6, PTL DEF CallsRight

-----------------------------------------------------------------------------
USE OidcAssumption

Places == {"idle", "accepted", "refused", "unreachable", "moved", "metadata", "keys"}
Verification == [pc : Places, key : SUBSET Keys, address : SUBSET Nat, force : BOOLEAN, at : Nat,
                 answer : SUBSET (Keys \cup Nat), gap : BOOLEAN]
Cached == [value : SUBSET (Keys \cup Nat), at : Nat, set : BOOLEAN]

Typed == /\ published \subseteq Keys /\ lastPub \in [Keys -> Nat] /\ moves \in 0..MaxMoves
         /\ movedAt \in Nat /\ oidcNow \in Nat /\ movedAt <= oidcNow /\ oidcNow > 0
         /\ cache \in [Caches -> Cached] /\ v \in [Verifiers -> Verification]

(* What the provider answered at time t or later: an address, keys.        *)
AddressAt(a, t) == \E m \in 0..moves : a = {m} /\ (m = moves \/ t <= movedAt)
KeysAt(keys, t) == keys \subseteq Keys /\ \A k \in keys : k \in published \/ lastPub[k] >= t

CachesOk ==
  /\ \A c \in Caches : cache[c].at <= oidcNow
  /\ IF cache["metadata"].set THEN AddressAt(cache["metadata"].value, cache["metadata"].at)
                              ELSE cache["metadata"].value = {}
  /\ KeysAt(cache["keys"].value, cache["keys"].at)

(* An old address is used no later than the caches and one fetch allow.    *)
AskedAt(q) == IF q.at # 0 THEN q.at ELSE oidcNow
Deadline(q) == AskedAt(q) < movedAt + KeyTtl + (IF q.force THEN FetchLatency ELSE 0)

VerificationOk(q) ==
  /\ q.pc = "refused" => q.gap
  /\ q.pc \in Caches =>
       /\ \E k \in Keys : q.key = {k}
       /\ q.gap \/ q.key \subseteq published
       /\ q.at <= oidcNow /\ (q.at # 0 => oidcNow <= q.at + FetchLatency)
       /\ q.answer # {} => q.at # 0
  /\ q.pc = "metadata" /\ q.answer # {} => AddressAt(q.answer, q.at)
  /\ q.pc = "keys" /\ q.answer # {} => KeysAt(q.answer, q.at) /\ (q.gap \/ q.key \subseteq q.answer)
  /\ q.pc = "keys" /\ q.address # {moves} => Deadline(q)

OidcInv == Typed /\ CachesOk /\ \A x \in Verifiers : VerificationOk(v[x])

(* A verification that moves to q keeps the invariant.                     *)
LEMMA VerificationMoves ==
    ASSUME OidcInv, NEW x \in Verifiers, NEW q \in Verification, v' = [v EXCEPT ![x] = q],
           VerificationOk(q), UNCHANGED <<published, lastPub, moves, movedAt, oidcNow>>,
           cache' \in [Caches -> Cached], CachesOk'
    PROVE  OidcInv'
<1>1. v' \in [Verifiers -> Verification] /\ \A y \in Verifiers : v'[y] = IF y = x THEN q ELSE v[y]
  BY DEF OidcInv, Typed
<1>2. Typed'
  BY <1>1 DEF OidcInv, Typed
<1>3. \A y \in Verifiers : VerificationOk(v[y])'
  BY <1>1 DEF OidcInv, VerificationOk, AddressAt, KeysAt, Deadline, AskedAt
<1>4. QED BY <1>2, <1>3 DEF OidcInv

(* What is known of one verification.                                      *)
LEMMA OneVerification ==
    ASSUME OidcInv, NEW x \in Verifiers
    PROVE  v[x] \in Verification /\ VerificationOk(v[x])
BY DEF OidcInv, Typed

(* Decoding with keys that were published since t.  What fails without     *)
(* force is sent again now; what fails with it had no published key.       *)
LEMMA DecodedOk ==
    ASSUME Typed, NEW q \in Verification, NEW keys \in SUBSET Keys, q.pc = "keys", q.answer = {},
           \E k \in Keys : q.key = {k}, q.gap \/ q.key \subseteq published,
           q.force => q.gap \/ q.key \subseteq keys,
           ~q.force /\ q.address # {moves} => oidcNow < movedAt + KeyTtl + FetchLatency
    PROVE  Decoded(q, keys) \in Verification /\ VerificationOk(Decoded(q, keys))
<1>1. CASE q.key \subseteq keys
  <2>1. PICK p \in Verification : p = [q EXCEPT !.pc = "accepted", !.at = 0]
    BY DEF Verification, Places
  <2>2. VerificationOk(p)
    BY <2>1 DEF VerificationOk, Verification, Caches
  <2>3. QED BY <1>1, <2>1, <2>2 DEF Decoded
<1>2. CASE ~(q.key \subseteq keys) /\ q.force
  <2>1. PICK p \in Verification : p = [q EXCEPT !.pc = "refused", !.at = 0]
    BY DEF Verification, Places
  <2>2. p.gap
    BY <1>2, <2>1 DEF Verification
  <2>3. VerificationOk(p)
    BY <2>1, <2>2 DEF VerificationOk, Verification, Caches
  <2>4. QED BY <1>2, <2>1, <2>3 DEF Decoded
<1>3. CASE ~(q.key \subseteq keys) /\ ~q.force
  <2>1. PICK p \in Verification : p = [q EXCEPT !.force = TRUE, !.at = 0]
    BY DEF Verification, Places
  <2>2. /\ p.pc = "keys" /\ p.key = q.key /\ p.address = q.address /\ p.force /\ p.at = 0
        /\ p.answer = {} /\ p.gap = q.gap
    BY <2>1 DEF Verification
  <2>3. VerificationOk(p)
    BY <1>3, <2>2 DEF VerificationOk, Deadline, AskedAt, Caches, Typed
  <2>4. QED BY <1>3, <2>1, <2>3 DEF Decoded
<1>4. QED BY <1>1, <1>2, <1>3

LEMMA RotateStep == ASSUME OidcInv, NEW k \in Keys, NEW kept \in SUBSET Keys, Rotate(k, kept)
                    PROVE  OidcInv'
<1>1. /\ published' = kept \cup {k} /\ kept \subseteq published
      /\ lastPub' = [j \in Keys |-> IF j \in published \ published' THEN oidcNow ELSE lastPub[j]]
      /\ v' = [x \in Verifiers |-> IF v[x].pc \in Caches
                                    THEN [v[x] EXCEPT !.gap = @ \/ ~(v[x].key \subseteq published')]
                                    ELSE v[x]]
      /\ UNCHANGED <<moves, movedAt, cache, oidcNow>>
  BY DEF Rotate
<1>2. published' \subseteq Keys /\ lastPub' \in [Keys -> Nat]
  BY <1>1 DEF OidcInv, Typed
<1>3. ASSUME NEW keys, NEW t \in Nat, t <= oidcNow, KeysAt(keys, t)
      PROVE  \A j \in keys : j \in published' \/ lastPub'[j] >= t
  BY <1>1, <1>3 DEF KeysAt, OidcInv, Typed
<1>4. CachesOk'
  <2>1. KeysAt(cache["keys"].value, cache["keys"].at)'
    BY <1>1, <1>3 DEF KeysAt, CachesOk, OidcInv, Typed, Cached, Caches
  <2>2. QED BY <1>1, <2>1 DEF CachesOk, AddressAt, OidcInv
<1>5. ASSUME NEW x \in Verifiers PROVE v'[x] \in Verification /\ VerificationOk(v[x])'
  <2>1. PICK q \in Verification : q = v[x] /\ VerificationOk(q)
    BY OneVerification
  <2>2. CASE q.pc \notin Caches
    BY <1>1, <2>1, <2>2 DEF VerificationOk, Caches
  <2>3. CASE q.pc \in Caches
    <3>1. PICK p \in Verification : p = [q EXCEPT !.gap = q.gap \/ ~(q.key \subseteq published')]
      BY DEF Verification
    <3>2. /\ v'[x] = p /\ p.pc = q.pc /\ p.key = q.key /\ p.address = q.address /\ p.force = q.force
          /\ p.at = q.at /\ p.answer = q.answer /\ (p.gap <=> q.gap \/ ~(q.key \subseteq published'))
      BY <1>1, <2>1, <2>3, <3>1 DEF Verification
    <3>3. p.answer # {} /\ p.pc = "keys" => \A j \in p.answer : j \in published' \/ lastPub'[j] >= p.at
      BY <1>3, <2>1, <2>3, <3>2 DEF VerificationOk, Verification
    <3>4. QED BY <1>1, <2>1, <2>3, <3>2, <3>3 DEF VerificationOk, AddressAt, KeysAt, Deadline, AskedAt
  <2>4. QED BY <2>2, <2>3
<1>6. v' \in [Verifiers -> Verification]
  BY <1>1, <1>5
<1>7. Typed'
  BY <1>1, <1>2, <1>6 DEF OidcInv, Typed
<1>8. QED BY <1>4, <1>5, <1>7 DEF OidcInv

LEMMA MoveStep == ASSUME OidcInv, Move PROVE OidcInv'
<1>1. /\ moves' = moves + 1 /\ moves < MaxMoves /\ movedAt' = oidcNow
      /\ UNCHANGED <<published, lastPub, cache, v, oidcNow>>
  BY DEF Move
<1>2. ASSUME NEW a, NEW t, t <= oidcNow, AddressAt(a, t) PROVE AddressAt(a, t)'
  BY <1>1, <1>2 DEF AddressAt, OidcInv, Typed
<1>3. Typed'
  BY <1>1 DEF OidcInv, Typed
<1>4. CachesOk'
  BY <1>1, <1>2 DEF CachesOk, KeysAt, AddressAt, OidcInv, Caches, Typed
<1>5. ASSUME NEW x \in Verifiers PROVE VerificationOk(v[x])'
  <2>1. v[x] \in Verification /\ VerificationOk(v[x])
    BY OneVerification
  <2>2. v[x].pc = "metadata" /\ v[x].answer # {} => AddressAt(v[x].answer, v[x].at)'
    BY <1>1, <2>1 DEF VerificationOk, AddressAt, Caches, OidcInv, Typed
  <2>3. v[x].pc = "keys" => Deadline(v[x])'
    BY <1>1, <2>1 DEF VerificationOk, Deadline, AskedAt, Caches, OidcInv, Typed, Verification
  <2>4. QED BY <1>1, <2>1, <2>2, <2>3 DEF VerificationOk, KeysAt
<1>6. QED BY <1>3, <1>4, <1>5 DEF OidcInv

LEMMA TickStep == ASSUME OidcInv, OidcTick PROVE OidcInv'
<1>1. /\ oidcNow' = oidcNow + 1 /\ oidcNow \in Nat
      /\ \A x \in Verifiers : v[x].pc \in Caches => v[x].at # 0 /\ oidcNow - v[x].at < FetchLatency
      /\ UNCHANGED <<published, lastPub, moves, movedAt, cache, v>>
  BY DEF OidcTick, OidcInv, Typed
<1>2. Typed' /\ CachesOk'
  BY <1>1 DEF OidcInv, Typed, CachesOk, AddressAt, KeysAt, Caches, Cached
<1>3. ASSUME NEW x \in Verifiers PROVE VerificationOk(v[x])'
  <2>1. v[x] \in Verification /\ VerificationOk(v[x])
    BY OneVerification
  <2>2. QED BY <1>1, <2>1 DEF VerificationOk, AddressAt, KeysAt, Deadline, AskedAt, Caches, Verification
<1>4. QED BY <1>2, <1>3 DEF OidcInv

LEMMA VerifyStep == ASSUME OidcInv, NEW x \in Verifiers, NEW k \in Keys, Verify(x, k) PROVE OidcInv'
<1> DEFINE q == [NoVerification EXCEPT !.pc = "metadata", !.key = {k}, !.gap = k \notin published]
<1>1. v' = [v EXCEPT ![x] = q] /\ UNCHANGED <<published, lastPub, moves, movedAt, cache, oidcNow>>
  BY DEF Verify
<1>2. /\ q \in Verification /\ q.pc = "metadata" /\ q.key = {k} /\ q.at = 0 /\ q.answer = {}
      /\ (q.gap <=> k \notin published)
  BY DEF NoVerification, Verification, Places
<1> HIDE DEF q
<1>3. VerificationOk(q)
  BY <1>2 DEF VerificationOk, Caches, OidcInv, Typed
<1>4. cache' \in [Caches -> Cached] /\ CachesOk'
  BY <1>1 DEF OidcInv, Typed, CachesOk, AddressAt, KeysAt
<1>5. QED BY <1>1, <1>2, <1>3, <1>4, VerificationMoves

LEMMA LookStep == ASSUME OidcInv, NEW x \in Verifiers, Look(x) PROVE OidcInv'
<1>1. PICK q \in Verification : q = v[x] /\ VerificationOk(q)
  BY OneVerification
<1>2. q.pc \in Caches /\ q.at = 0 /\ UNCHANGED <<published, lastPub, moves, movedAt, cache, oidcNow>>
  BY <1>1 DEF Look
<1>3. cache' \in [Caches -> Cached] /\ CachesOk'
  BY <1>2 DEF OidcInv, Typed, CachesOk, AddressAt, KeysAt
<1>4. /\ q.answer = {} /\ (\E k \in Keys : q.key = {k}) /\ (q.gap \/ q.key \subseteq published)
      /\ oidcNow \in Nat \ {0}
  BY <1>1, <1>2 DEF VerificationOk, OidcInv, Typed
<1> DEFINE hit == Fresh(q.pc) /\ ~(q.pc = "keys" /\ Forced(x))
<1>5. CASE ~hit
  <2>1. PICK p \in Verification : p = [q EXCEPT !.at = oidcNow]
    BY <1>4 DEF Verification
  <2>2. /\ p.pc = q.pc /\ p.key = q.key /\ p.address = q.address /\ p.force = q.force
        /\ p.at = oidcNow /\ p.answer = {} /\ p.gap = q.gap
    BY <1>4, <2>1 DEF Verification
  <2>3. VerificationOk(p)
    BY <1>1, <1>2, <1>4, <2>2 DEF VerificationOk, Deadline, AskedAt, Caches
  <2>4. v' = [v EXCEPT ![x] = p]
    BY <1>1, <1>5, <2>1 DEF Look
  <2>5. QED BY <1>2, <1>3, <2>3, <2>4, VerificationMoves
<1>6. CASE hit /\ q.pc = "metadata"
  <2>1. PICK m \in 0..moves : /\ cache["metadata"].value = {m}
                              /\ (m = moves \/ cache["metadata"].at <= movedAt)
    BY <1>6 DEF Fresh, OidcInv, CachesOk, AddressAt
  <2>2. PICK p \in Verification : p = [q EXCEPT !.pc = "keys", !.address = {m}]
    <3>1. {m} \in SUBSET Nat /\ "keys" \in Places
      BY DEF Places
    <3>2. QED BY <3>1 DEF Verification
  <2>3. /\ p.pc = "keys" /\ p.key = q.key /\ p.address = {m} /\ p.force = q.force
        /\ p.at = 0 /\ p.answer = {} /\ p.gap = q.gap
    BY <1>2, <1>4, <2>2 DEF Verification
  <2>4. cache["metadata"].at \in Nat /\ oidcNow - cache["metadata"].at < KeyTtl
    BY <1>6 DEF Fresh, OidcInv, Typed, Caches, Cached
  <2>5. VerificationOk(p)
    BY <1>4, <2>1, <2>3, <2>4 DEF VerificationOk, Deadline, AskedAt, Caches, OidcInv, Typed
  <2>6. v' = [v EXCEPT ![x] = p]
    BY <1>1, <1>6, <2>1, <2>2 DEF Look
  <2>7. QED BY <1>2, <1>3, <2>5, <2>6, VerificationMoves
<1>7. CASE hit /\ q.pc = "keys"
  <2>1. PICK keys \in SUBSET Keys : keys = cache["keys"].value
    BY DEF OidcInv, CachesOk, KeysAt
  <2>2. ~q.force
    BY <1>1, <1>7 DEF Forced
  <2>3. q.address # {moves} => oidcNow < movedAt + KeyTtl + FetchLatency
    BY <1>1, <1>2, <1>7, <2>2 DEF VerificationOk, Deadline, AskedAt, OidcInv, Typed
  <2>4. PICK p \in Verification : p = Decoded(q, keys) /\ VerificationOk(p)
    BY <1>4, <1>7, <2>2, <2>3, DecodedOk DEF OidcInv
  <2>5. v' = [v EXCEPT ![x] = p]
    BY <1>1, <1>7, <2>1, <2>4 DEF Look
  <2>6. QED BY <1>2, <1>3, <2>4, <2>5, VerificationMoves
<1>8. QED BY <1>2, <1>5, <1>6, <1>7 DEF Caches

LEMMA AnswerStep == ASSUME OidcInv, NEW x \in Verifiers, Answer(x) PROVE OidcInv'
<1>1. PICK q \in Verification : q = v[x] /\ VerificationOk(q)
  BY OneVerification
<1>2. /\ q.pc \in Caches /\ q.at # 0 /\ q.answer = {}
      /\ UNCHANGED <<published, lastPub, moves, movedAt, cache, oidcNow>>
  BY <1>1 DEF Answer, Waiting
<1>3. cache' \in [Caches -> Cached] /\ CachesOk'
  BY <1>2 DEF OidcInv, Typed, CachesOk, AddressAt, KeysAt
<1>4. ASSUME NEW to \in {"unreachable", "moved"}, v' = [v EXCEPT ![x].pc = to] PROVE OidcInv'
  <2>1. PICK p \in Verification : p = [q EXCEPT !.pc = to]
    BY DEF Verification, Places
  <2>2. VerificationOk(p)
    BY <2>1 DEF VerificationOk, Verification, Caches
  <2>3. v' = [v EXCEPT ![x] = p]
    BY <1>1, <1>4, <2>1
  <2>4. QED BY <1>2, <1>3, <2>2, <2>3, VerificationMoves
<1>5. ASSUME NEW answer \in SUBSET (Keys \cup Nat), v' = [v EXCEPT ![x].answer = answer],
             q.pc = "metadata" => answer = {moves},
             q.pc = "keys" => answer = published
      PROVE  OidcInv'
  <2>1. PICK p \in Verification : p = [q EXCEPT !.answer = answer]
    BY DEF Verification
  <2>2. /\ p.pc = q.pc /\ p.key = q.key /\ p.address = q.address /\ p.force = q.force
        /\ p.at = q.at /\ p.answer = answer /\ p.gap = q.gap
    BY <2>1 DEF Verification
  <2>3. VerificationOk(p)
    BY <1>1, <1>2, <1>5, <2>2 DEF VerificationOk, AddressAt, KeysAt, Deadline, AskedAt, Caches, OidcInv, Typed
  <2>4. v' = [v EXCEPT ![x] = p]
    BY <1>1, <1>5, <2>1
  <2>5. QED BY <1>2, <1>3, <2>3, <2>4, VerificationMoves
<1>6. {moves} \in SUBSET (Keys \cup Nat) /\ published \in SUBSET (Keys \cup Nat)
  BY DEF OidcInv, Typed
<1>7. \/ v' = [v EXCEPT ![x].pc = "unreachable"]
      \/ v' = [v EXCEPT ![x].pc = "moved"]
      \/ q.pc = "metadata" /\ v' = [v EXCEPT ![x].answer = {moves}]
      \/ q.pc = "keys" /\ v' = [v EXCEPT ![x].answer = published]
  BY <1>1 DEF Answer
<1>8. CASE q.pc = "metadata" /\ v' = [v EXCEPT ![x].answer = {moves}]
  BY <1>5, <1>6, <1>8
<1>9. CASE q.pc = "keys" /\ v' = [v EXCEPT ![x].answer = published]
  BY <1>5, <1>6, <1>9
<1>10. QED BY <1>4, <1>7, <1>8, <1>9

LEMMA SaveStep == ASSUME OidcInv, NEW x \in Verifiers, Save(x) PROVE OidcInv'
<1>1. PICK q \in Verification : q = v[x] /\ VerificationOk(q)
  BY OneVerification
<1>2. /\ q.pc \in Caches /\ q.at # 0 /\ q.answer # {}
      /\ cache' = [cache EXCEPT ![q.pc] = [value |-> q.answer, at |-> q.at, set |-> TRUE]]
      /\ UNCHANGED <<published, lastPub, moves, movedAt, oidcNow>>
  BY <1>1 DEF Save, Waiting, CacheOf, Stamp
<1>3. /\ q.at <= oidcNow /\ oidcNow <= q.at + FetchLatency /\ q.at \in Nat
      /\ (\E k \in Keys : q.key = {k}) /\ (q.gap \/ q.key \subseteq published)
  BY <1>1, <1>2 DEF VerificationOk, Verification
<1>4. cache' \in [Caches -> Cached]
  BY <1>2 DEF OidcInv, Typed, Cached, Verification
<1>5. \A c \in Caches : cache'[c] = IF c = q.pc THEN [value |-> q.answer, at |-> q.at, set |-> TRUE]
                                    ELSE cache[c]
  BY <1>2 DEF OidcInv, Typed
<1>6. PICK b \in Verification : b = [q EXCEPT !.answer = {}]
  BY DEF Verification
<1>7. /\ b.pc = q.pc /\ b.key = q.key /\ b.address = q.address /\ b.force = q.force
      /\ b.at = q.at /\ b.answer = {} /\ b.gap = q.gap
  BY <1>6 DEF Verification
<1>8. CASE q.pc = "metadata"
  <2>1. PICK m \in 0..moves : q.answer = {m} /\ (m = moves \/ q.at <= movedAt)
    BY <1>1, <1>2, <1>8 DEF VerificationOk, AddressAt
  <2>2. CachesOk'
    BY <1>2, <1>3, <1>5, <1>8, <2>1 DEF CachesOk, AddressAt, KeysAt, OidcInv, Typed, Caches
  <2>3. PICK p \in Verification : p = [b EXCEPT !.pc = "keys", !.address = {m}, !.at = 0]
    <3>1. {m} \in SUBSET Nat /\ "keys" \in Places /\ 0 \in Nat
      BY DEF Places
    <3>2. QED BY <3>1 DEF Verification
  <2>4. /\ p.pc = "keys" /\ p.key = q.key /\ p.address = {m} /\ p.force = q.force
        /\ p.at = 0 /\ p.answer = {} /\ p.gap = q.gap
    BY <1>7, <2>3 DEF Verification
  <2>5. VerificationOk(p)
    BY <1>3, <2>1, <2>4 DEF VerificationOk, Deadline, AskedAt, Caches, OidcInv, Typed
  <2>6. v' = [v EXCEPT ![x] = p]
    BY <1>1, <1>6, <1>7, <1>8, <2>1, <2>3 DEF Save
  <2>7. QED BY <1>2, <1>4, <2>2, <2>5, <2>6, VerificationMoves
<1>9. CASE q.pc = "keys"
  <2>1. PICK keys \in SUBSET Keys : keys = q.answer /\ KeysAt(keys, q.at) /\ (q.gap \/ q.key \subseteq keys)
    BY <1>1, <1>2, <1>9 DEF VerificationOk, KeysAt
  <2>2. CachesOk'
    BY <1>2, <1>3, <1>5, <1>9, <2>1 DEF CachesOk, AddressAt, KeysAt, OidcInv, Typed, Caches
  <2>3. ~q.force /\ q.address # {moves} => oidcNow < movedAt + KeyTtl + FetchLatency
    BY <1>1, <1>2, <1>3, <1>9 DEF VerificationOk, Deadline, AskedAt, OidcInv, Typed
  <2>4. PICK p \in Verification : p = Decoded(b, keys) /\ VerificationOk(p)
    BY <1>3, <1>7, <1>9, <2>1, <2>3, DecodedOk DEF OidcInv
  <2>5. v' = [v EXCEPT ![x] = p]
    BY <1>1, <1>6, <1>7, <1>9, <2>1, <2>4 DEF Save
  <2>6. QED BY <1>2, <1>4, <2>2, <2>4, <2>5, VerificationMoves
<1>10. QED BY <1>2, <1>8, <1>9 DEF Caches

(* OidcInv is inductive. *)
LEMMA OidcStep == OidcInv /\ [OidcNext]_oidcVars => OidcInv'
<1> SUFFICES ASSUME OidcInv, [OidcNext]_oidcVars PROVE OidcInv'
  OBVIOUS
<1>1. CASE UNCHANGED oidcVars
  BY <1>1 DEF oidcVars, OidcInv, Typed, CachesOk, VerificationOk, AddressAt, KeysAt, Deadline, AskedAt
<1>2. CASE \E k \in Keys, kept \in SUBSET Keys : Rotate(k, kept)
  BY <1>2, RotateStep
<1>3. CASE \E x \in Verifiers : Look(x) \/ Answer(x) \/ Save(x) \/ \E k \in Keys : Verify(x, k)
  BY <1>3, LookStep, AnswerStep, SaveStep, VerifyStep
<1>4. QED BY <1>1, <1>2, <1>3, MoveStep, TickStep DEF OidcNext

(* OidcInv holds in every reachable state. *)
THEOREM OidcSafety == OidcSpec => []OidcInv
<1>1. OidcInit => OidcInv
  BY DEF OidcInit, OidcInv, Typed, CachesOk, VerificationOk, AddressAt, KeysAt, Caches, Cached, Nothing,
         NoVerification, Verification, Places
<1>2. QED BY <1>1, OidcStep, PTL DEF OidcSpec

(* A token is refused only if its key was missing from the provider's set. *)
THEOREM KeysKept == OidcSpec => []KeysRight
<1>1. OidcInv => KeysRight
  <2> SUFFICES ASSUME OidcInv PROVE KeysRight
    OBVIOUS
  <2>1. FairlyRefused
    BY OneVerification DEF FairlyRefused, VerificationOk
  <2>2. cache["metadata"].value \in {{}} \cup {{m} : m \in 0..moves}
    BY DEF OidcInv, CachesOk, AddressAt
  <2>3. \A x \in Verifiers : /\ v[x].pc \in {"idle", "accepted", "refused", "unreachable", "moved"} \cup Caches
                             /\ v[x].force \in BOOLEAN /\ v[x].at \in Nat
    BY OneVerification DEF Verification, Places, Caches
  <2>4. QED BY <2>1, <2>2, <2>3 DEF KeysRight, OidcTypeOK, OidcInv, Typed, CachesOk, KeysAt
<1>2. QED BY <1>1, OidcSafety, PTL

(* What a step that ends verification x found: keys that hold its key, or  *)
(* an old address.                                                         *)
LEMMA EndedBy ==
    ASSUME OidcInv, OidcNext, NEW x \in Verifiers, v'[x].pc # v[x].pc
    PROVE  /\ v'[x].pc = "accepted" =>
                /\ v[x].pc = "keys"
                /\ \/ Fresh("keys") /\ v[x].key \subseteq cache["keys"].value
                   \/ v[x].at # 0 /\ v[x].answer # {} /\ v[x].key \subseteq v[x].answer
           /\ v'[x].pc = "moved" => v[x].pc = "keys" /\ v[x].at # 0 /\ v[x].address # {moves}
<1>1. v \in [Verifiers -> Verification]
  BY DEF OidcInv, Typed
<1>2. ASSUME NEW k \in Keys, NEW kept \in SUBSET Keys, Rotate(k, kept) PROVE FALSE
  BY <1>1, <1>2 DEF Rotate, Verification
<1>3. ~Move /\ ~OidcTick
  BY DEF Move, OidcTick
<1>4. ASSUME NEW y \in Verifiers, Look(y) \/ Answer(y) \/ Save(y) \/ \E k \in Keys : Verify(y, k)
      PROVE  y = x
  <2>1. \E q : v' = [v EXCEPT ![y] = q]
    <3>1. CASE Look(y)
      BY <3>1 DEF Look
    <3>2. CASE Answer(y)
      BY <3>2 DEF Answer
    <3>3. CASE Save(y)
      BY <3>3 DEF Save
    <3>4. CASE \E k \in Keys : Verify(y, k)
      BY <3>4 DEF Verify
    <3>5. QED BY <1>4, <3>1, <3>2, <3>3, <3>4
  <2>2. QED BY <1>1, <2>1
<1>5. Look(x) \/ Answer(x) \/ Save(x) \/ \E k \in Keys : Verify(x, k)
  BY <1>2, <1>3, <1>4 DEF OidcNext
<1>6. ASSUME NEW q \in Verification, NEW keys PROVE
        /\ Decoded(q, keys).pc # "moved" \/ q.pc = "moved"
        /\ Decoded(q, keys).pc = "accepted" => q.key \subseteq keys \/ q.pc = "accepted"
  BY DEF Decoded, Verification
<1>7. PICK q \in Verification : q = v[x]
  BY <1>1
<1>8. CASE Look(x)
  <2>1. \/ v'[x].pc = q.pc
        \/ v'[x].pc = "keys"
        \/ Fresh(q.pc) /\ q.pc = "keys" /\ v'[x] = Decoded(q, cache["keys"].value)
    BY <1>1, <1>7, <1>8 DEF Look, Caches, Verification
  <2>2. QED BY <1>6, <1>7, <2>1
<1>9. CASE Answer(x)
  BY <1>1, <1>7, <1>9 DEF Answer, Waiting, Verification
<1>10. CASE Save(x)
  <2> DEFINE b == [q EXCEPT !.answer = {}]
  <2>1. b \in Verification /\ b.pc = q.pc /\ b.key = q.key
    BY DEF Verification
  <2>2. /\ q.at # 0 /\ q.answer # {} /\ q.pc \in Caches
        /\ \/ v'[x].pc = "keys"
           \/ q.pc = "keys" /\ v'[x] = Decoded(b, q.answer)
    BY <1>1, <1>7, <1>10, <2>1 DEF Save, Waiting, Caches, Verification
  <2>3. /\ Decoded(b, q.answer).pc = "moved" => b.pc = "moved"
        /\ Decoded(b, q.answer).pc = "accepted" => b.key \subseteq q.answer \/ b.pc = "accepted"
    BY <1>6, <2>1
  <2> HIDE DEF b
  <2>4. QED BY <1>7, <2>1, <2>2, <2>3
<1>11. CASE \E k \in Keys : Verify(x, k)
  BY <1>1, <1>11 DEF Verify, NoVerification
<1>12. QED BY <1>5, <1>8, <1>9, <1>10, <1>11

(* The caches follow the provider's keys and the address of its key set.   *)
THEOREM KeysCatchUp == OidcSpec => KeysFollow
<1> DEFINE Retired == \A x \in Verifiers : v[x].pc # "accepted" /\ v'[x].pc = "accepted" =>
        PublishedSince(Key(x), oidcNow - KeyTtl) \/ PublishedSince(Key(x), oidcNow - FetchLatency - 1)
<1> DEFINE Noticed == \A x \in Verifiers : v[x].pc # "moved" /\ v'[x].pc = "moved" =>
        oidcNow < movedAt + KeyTtl + 2 * FetchLatency
<1>1. OidcInv /\ [OidcNext]_oidcVars => [Retired]_oidcVars
  <2> SUFFICES ASSUME OidcInv, OidcNext, NEW x \in Verifiers,
                      v[x].pc # "accepted", v'[x].pc = "accepted"
               PROVE  PublishedSince(Key(x), oidcNow - KeyTtl)
                      \/ PublishedSince(Key(x), oidcNow - FetchLatency - 1)
    OBVIOUS
  <2>1. PICK q \in Verification : q = v[x] /\ VerificationOk(q)
    BY OneVerification
  <2>2. /\ q.pc = "keys"
        /\ \/ Fresh("keys") /\ q.key \subseteq cache["keys"].value
           \/ q.at # 0 /\ q.answer # {} /\ q.key \subseteq q.answer
    BY <2>1, EndedBy
  <2>3. PICK k \in Keys : q.key = {k} /\ k = Key(x)
    BY <2>1, <2>2 DEF VerificationOk, Caches, Key
  <2>4. lastPub[k] \in Nat /\ oidcNow \in Nat /\ cache["keys"].at \in Nat /\ q.at \in Nat
    BY DEF OidcInv, Typed, Cached, Caches, Verification
  <2>5. CASE Fresh("keys") /\ k \in cache["keys"].value
    <3>1. k \in published \/ lastPub[k] >= cache["keys"].at
      BY <2>5 DEF OidcInv, CachesOk, KeysAt
    <3>2. QED BY <2>3, <2>4, <2>5, <3>1 DEF Fresh, PublishedSince
  <2>6. CASE q.at # 0 /\ q.answer # {} /\ k \in q.answer
    <3>1. (k \in published \/ lastPub[k] >= q.at) /\ oidcNow <= q.at + FetchLatency
      BY <2>1, <2>2, <2>6 DEF VerificationOk, KeysAt, Caches
    <3>2. QED BY <2>3, <2>4, <3>1 DEF PublishedSince
  <2>7. QED BY <2>2, <2>3, <2>5, <2>6
<1>2. OidcInv /\ [OidcNext]_oidcVars => [Noticed]_oidcVars
  <2> SUFFICES ASSUME OidcInv, OidcNext, NEW x \in Verifiers, v[x].pc # "moved", v'[x].pc = "moved"
               PROVE  oidcNow < movedAt + KeyTtl + 2 * FetchLatency
    OBVIOUS
  <2>1. v[x].pc = "keys" /\ v[x].at # 0 /\ v[x].address # {moves}
    BY EndedBy
  <2>2. v[x] \in Verification /\ VerificationOk(v[x]) /\ oidcNow \in Nat /\ movedAt \in Nat
    BY OneVerification DEF OidcInv, Typed
  <2>3. QED BY <2>1, <2>2 DEF VerificationOk, Deadline, AskedAt, Caches, Verification
<1>3. QED BY <1>1, <1>2, OidcSafety, PTL DEF OidcSpec, KeysFollow, RetiredSoon, MoveNoticed

HIDE OidcAssumption

-----------------------------------------------------------------------------
(***************************************************************************)
(* TokenCache.                                                             *)
(***************************************************************************)
USE TokenAssumption

Request == [pc : {"idle", "waiting", "exchange", "answered", "sent", "served", "rejected", "failed"},
            since : Nat, end : Nat, expires : Nat, said : Nat]

(* A caller's exchange or request is no older than CallLatency; a token in *)
(* hand lasts for the request; the time the answer of an exchange announces *)
(* ends, counted from its request, before the token's.                     *)
OnTime(r) ==
    /\ r.pc = "rejected" => r.said > r.end
    /\ r.pc \in {"exchange", "answered", "sent"} =>
         r.since <= tokenNow /\ tokenNow <= r.since + CallLatency
    /\ r.pc = "sent" /\ r.said <= r.end => r.since + CallLatency < r.end
    /\ r.pc = "answered" => r.since + r.expires <= r.said
    /\ r.pc = "answered" => r.since + 2 * CallLatency < r.end /\ r.expires <= MaxTtl

(* The announced end of the stored token is late by an exchange at most.   *)
CacheOnTime ==
    /\ cached \in [end : Nat, expires : Nat, said : Nat]
    /\ cached.expires <= tokenNow + MaxTtl
    /\ cached.end # 0 /\ cached.said <= cached.end => cached.expires <= cached.end + CallLatency

TokenInv ==
    /\ issued \in Nat /\ tokenNow \in Nat /\ call \in [Callers -> Request]
    /\ CacheOnTime /\ \A c \in Callers : OnTime(call[c])

(* A caller whose request becomes r keeps the invariant if r is on time.   *)
LEMMA CallMoves ==
    ASSUME TokenInv, NEW c \in Callers, NEW r \in Request, call' = [call EXCEPT ![c] = r],
           issued' \in Nat, UNCHANGED tokenNow, CacheOnTime', OnTime(r)
    PROVE  TokenInv'
<1>1. call' \in [Callers -> Request] /\ \A d \in Callers : call'[d] = IF d = c THEN r ELSE call[d]
  BY DEF TokenInv
<1>2. QED BY <1>1 DEF TokenInv, OnTime

(* What is sent with a token that lasts CallLatency, or longer than it     *)
(* should have been announced to, is on time.                              *)
LEMMA SentOnTime ==
    ASSUME tokenNow \in Nat, NEW t, t.end \in Nat, t.said \in Nat, NEW c,
           t.said <= t.end => tokenNow + CallLatency < t.end
    PROVE  \E r \in Request : OnTime(r) /\ Sent(c, t) = [call EXCEPT ![c] = r]
<1> DEFINE r == [NoCall EXCEPT !.pc = "sent", !.since = tokenNow, !.end = t.end, !.said = t.said]
<1>1. NoCall \in Request
  BY DEF NoCall, Request
<1>2. /\ r \in Request /\ r.pc = "sent" /\ r.since = tokenNow /\ r.end = t.end
      /\ r.said = t.said
  BY <1>1 DEF Request
<1>3. Sent(c, t) = [call EXCEPT ![c] = r]
  BY DEF Sent
<1> HIDE DEF r
<1>4. OnTime(r)
  BY <1>2 DEF OnTime
<1>5. QED BY <1>2, <1>3, <1>4

(* A stored token that may be reused lasts for a request, if its announced *)
(* life was none too long.                                                 *)
LEMMA ReusedLasts ==
    ASSUME TokenInv, Reusable
    PROVE  /\ cached.end \in Nat /\ cached.said \in Nat
           /\ cached.said <= cached.end => tokenNow + CallLatency < cached.end
BY DEF TokenInv, CacheOnTime, Reusable

(* TokenInv is inductive. *)
LEMMA StepToken == TokenInv /\ [TokenNext]_tokenVars => TokenInv'
<1> SUFFICES ASSUME TokenInv, [TokenNext]_tokenVars PROVE TokenInv'
  OBVIOUS
<1>0. /\ issued \in Nat /\ tokenNow \in Nat /\ call \in [Callers -> Request]
      /\ CacheOnTime /\ \A c \in Callers : call[c] \in Request /\ OnTime(call[c])
      /\ NoCall \in Request
  BY DEF TokenInv, NoCall, Request
<1>1. CASE TokenTick
  <2>1. \A c \in Callers : call'[c] = call[c] /\ OnTime(call[c])'
    <3> SUFFICES ASSUME NEW c \in Callers PROVE OnTime(call[c])'
      BY <1>1 DEF TokenTick
    <3>1. call'[c] = call[c] /\ tokenNow' = tokenNow + 1
      BY <1>1 DEF TokenTick
    <3>2. call[c].pc \in {"exchange", "answered", "sent"} => tokenNow - call[c].since < CallLatency
      BY <1>1 DEF TokenTick, Exchanging
    <3>3. call[c].since \in Nat /\ call[c].end \in Nat /\ call[c].expires \in Nat
      BY <1>0 DEF Request
    <3>4. QED BY <1>0, <3>1, <3>2, <3>3 DEF OnTime
  <2>2. CacheOnTime'
    BY <1>0, <1>1 DEF TokenTick, CacheOnTime
  <2>3. QED BY <1>0, <1>1, <2>1, <2>2 DEF TokenTick, TokenInv
<1>2. ASSUME NEW c \in Callers, RequestJson(c) \/ Acquire(c) PROVE TokenInv'
  <2>1. UNCHANGED <<issued, cached, tokenNow>>
    BY <1>2 DEF RequestJson, Acquire
  <2>2. CacheOnTime'
    BY <1>0, <2>1 DEF CacheOnTime
  <2>3. CASE Reusable /\ call' = Sent(c, cached)
    <3>1. PICK r \in Request : OnTime(r) /\ Sent(c, cached) = [call EXCEPT ![c] = r]
      BY <1>0, <2>3, ReusedLasts, SentOnTime
    <3>2. QED BY <1>0, <2>1, <2>2, <2>3, <3>1, CallMoves
  <2>4. CASE call' = [call EXCEPT ![c] = [NoCall EXCEPT !.pc = "waiting"]]
    <3>1. [NoCall EXCEPT !.pc = "waiting"] \in Request /\ OnTime([NoCall EXCEPT !.pc = "waiting"])
      BY DEF NoCall, Request, OnTime
    <3>2. QED BY <1>0, <2>1, <2>2, <2>4, <3>1, CallMoves
  <2>5. CASE call' = [call EXCEPT ![c] = [NoCall EXCEPT !.pc = "exchange", !.since = tokenNow]]
    <3> DEFINE r == [NoCall EXCEPT !.pc = "exchange", !.since = tokenNow]
    <3>1. r \in Request /\ r.pc = "exchange" /\ r.since = tokenNow
      BY <1>0 DEF Request
    <3> HIDE DEF r
    <3>2. OnTime(r)
      BY <1>0, <3>1 DEF OnTime
    <3>3. call' = [call EXCEPT ![c] = r]
      BY <2>5 DEF r
    <3>4. QED BY <1>0, <2>1, <2>2, <3>1, <3>2, <3>3, CallMoves
  <2>6. QED BY <1>2, <2>3, <2>4, <2>5 DEF RequestJson, Acquire, ReusableNow
<1>3. ASSUME NEW c \in Callers, Issue(c) PROVE TokenInv'
  <2>1. UNCHANGED <<cached, tokenNow>> /\ call[c].pc = "exchange"
    BY <1>3 DEF Issue
  <2>2. CacheOnTime'
    BY <1>0, <2>1 DEF CacheOnTime
  <2>3. CASE call' = [call EXCEPT ![c] = [NoCall EXCEPT !.pc = "failed"]] /\ UNCHANGED issued
    <3>1. [NoCall EXCEPT !.pc = "failed"] \in Request /\ OnTime([NoCall EXCEPT !.pc = "failed"])
      BY DEF NoCall, Request, OnTime
    <3>2. QED BY <1>0, <2>1, <2>2, <2>3, <3>1, CallMoves
  <2>4. ASSUME NEW life \in Lives, NEW ttl \in Announced(life), issued' = tokenNow + life,
               call' = [call EXCEPT ![c] =
                          [@ EXCEPT !.pc = "answered", !.end = tokenNow + life, !.expires = ttl, !.said = tokenNow + ttl]]
        PROVE  TokenInv'
    <3> DEFINE r == [call[c] EXCEPT !.pc = "answered", !.end = tokenNow + life, !.expires = ttl,
                                    !.said = tokenNow + ttl]
    <3>1. /\ life \in Nat /\ 2 * CallLatency < life
          /\ ttl \in Nat /\ ttl <= MaxTtl
          /\ tokenNow + life \in Nat /\ tokenNow + ttl \in Nat
      BY <1>0 DEF Announced, Capped
    <3>2. call[c] \in Request
      BY <1>0
    <3>3. /\ r \in Request /\ r.pc = "answered" /\ r.since = call[c].since
          /\ r.end = tokenNow + life /\ r.expires = ttl /\ r.said = tokenNow + ttl
      BY <1>0, <3>1, <3>2 DEF Request
    <3>4. call' = [call EXCEPT ![c] = r]
      BY <2>4
    <3> HIDE DEF r
    <3>5. call[c].since \in Nat /\ call[c].since <= tokenNow /\ tokenNow <= call[c].since + CallLatency
      BY <1>0, <2>1, <3>2 DEF OnTime, Request
    <3>6. OnTime(r)
      BY <1>0, <3>1, <3>3, <3>5 DEF OnTime
    <3>7. issued' \in Nat
      BY <1>0, <2>4, <3>1
    <3>8. QED BY <1>0, <2>1, <2>2, <3>3, <3>4, <3>6, <3>7, CallMoves
  <2>5. QED BY <1>3, <2>3, <2>4 DEF Issue
<1>4. ASSUME NEW c \in Callers, Store(c) PROVE TokenInv'
  <2>1. /\ call[c].pc = "answered" /\ UNCHANGED <<issued, tokenNow>>
        /\ cached' = [end |-> call[c].end, expires |-> tokenNow + call[c].expires, said |-> call[c].said]
        /\ call' = Sent(c, call[c])
    BY <1>4 DEF Store
  <2>2. /\ call[c].since \in Nat /\ call[c].end \in Nat /\ call[c].expires \in Nat
        /\ tokenNow <= call[c].since + CallLatency
        /\ call[c].since + call[c].expires <= call[c].said
        /\ call[c].said \in Nat /\ call[c].since + 2 * CallLatency < call[c].end
        /\ call[c].expires <= MaxTtl
    BY <1>0, <2>1 DEF OnTime, Request
  <2>3. CacheOnTime'
    BY <1>0, <2>1, <2>2 DEF CacheOnTime
  <2>4. tokenNow + CallLatency < call[c].end
    BY <1>0, <2>2
  <2>5. PICK r \in Request : OnTime(r) /\ Sent(c, call[c]) = [call EXCEPT ![c] = r]
    BY <1>0, <2>2, <2>4, SentOnTime
  <2>6. QED BY <1>0, <2>1, <2>3, <2>5, CallMoves
<1>5. ASSUME NEW c \in Callers, ReachTarget(c) PROVE TokenInv'
  <2>1. call[c].pc = "sent" /\ UNCHANGED <<issued, cached, tokenNow>>
    BY <1>5 DEF ReachTarget
  <2>2. PICK to \in {"served", "rejected"} :
          /\ call' = [call EXCEPT ![c] = [call[c] EXCEPT !.pc = to]]
          /\ to = "rejected" => ~(tokenNow < call[c].end)
    BY <1>5 DEF ReachTarget
  <2> DEFINE r == [call[c] EXCEPT !.pc = to]
  <2>3. r \in Request /\ r.pc = to /\ r.said = call[c].said /\ r.end = call[c].end
    BY <1>0 DEF Request
  <2>4. to = "rejected" => call[c].said > call[c].end
    BY <1>0, <2>1, <2>2 DEF OnTime, Request
  <2> HIDE DEF r
  <2>5. OnTime(r)
    BY <2>3, <2>4 DEF OnTime
  <2>6. CacheOnTime'
    BY <1>0, <2>1 DEF CacheOnTime
  <2>7. QED BY <1>0, <2>1, <2>2, <2>3, <2>5, <2>6, CallMoves DEF r
<1>6. CASE UNCHANGED tokenVars
  BY <1>0, <1>6 DEF tokenVars, TokenInv, CacheOnTime, OnTime
<1>7. QED BY <1>1, <1>2, <1>3, <1>4, <1>5, <1>6 DEF TokenNext

(* TokenInv holds in every reachable state. *)
THEOREM TokenSafety == TokenSpec => []TokenInv
<1>1. TokenInit => TokenInv
  BY DEF TokenInit, TokenInv, CacheOnTime, NoToken, NoCall, Request, OnTime
<1>2. QED BY <1>1, StepToken, PTL DEF TokenSpec

(* A cached token never runs out on the way, unless it lives shorter than  *)
(* it was announced to, and is exchanged only when none may be reused and  *)
(* by one caller at a time.                                                *)
THEOREM TokensKept == TokenSpec => TokensRight
<1> DEFINE Needed == \A c \in Callers : call[c].pc # "exchange" /\ call'[c].pc = "exchange" =>
        ~(cached.end # 0 /\ cached.expires > tokenNow + Margin) /\ \A d \in Callers : ~Exchanging(d)
<1>1. TokenInv => TokenTypeOK /\ NeverRejected
  BY DEF TokenInv, CacheOnTime, OnTime, Request, TokenTypeOK, NeverRejected
<1>2. TokenInv /\ [TokenNext]_tokenVars => [Needed]_tokenVars
  <2> SUFFICES ASSUME TokenInv, TokenNext, NEW c \in Callers,
                      call[c].pc # "exchange", call'[c].pc = "exchange"
               PROVE  ~Reusable /\ Unlocked
    BY DEF Reusable, Unlocked
  <2>1. \A d \in Callers : call[d] \in Request
    BY DEF TokenInv
  <2>2. NoCall \in Request /\ NoCall.pc = "idle"
    BY DEF NoCall, Request
  <2> DEFINE Moved(d, to) == \E r \in Request : r.pc = to /\ call' = [call EXCEPT ![d] = r]
  <2>3. ASSUME NEW d \in Callers, NEW to, to # "exchange", Moved(d, to) PROVE FALSE
    <3>1. PICK r \in Request : r.pc = to /\ call' = [call EXCEPT ![d] = r]
      BY <2>3
    <3>2. call'[c] = IF c = d THEN r ELSE call[c]
      BY <3>1 DEF TokenInv
    <3>3. QED BY <2>3, <3>1, <3>2
  <2>4. ASSUME NEW d \in Callers, NEW t, t.end \in Nat, t.said \in Nat, call' = Sent(d, t) PROVE FALSE
    <3>1. tokenNow \in Nat
      BY DEF TokenInv
    <3>2. Moved(d, "sent")
      BY <2>2, <2>4, <3>1 DEF Sent, Request
    <3>3. QED BY <2>3, <3>2
  <2> HIDE DEF Moved
  <2>5. /\ cached.end \in Nat /\ tokenNow \in Nat
        /\ cached.said \in Nat /\ \A d \in Callers : call[d].end \in Nat /\ call[d].said \in Nat
    BY <2>1 DEF TokenInv, CacheOnTime, Request
  <2>6. ASSUME NEW d \in Callers, RequestJson(d) PROVE FALSE
    <3>1. call' # Sent(d, cached)
      BY <2>4, <2>5
    <3>2. call' = [call EXCEPT ![d] = [NoCall EXCEPT !.pc = "waiting"]]
      BY <2>6, <3>1 DEF RequestJson
    <3>3. Moved(d, "waiting")
      BY <2>2, <3>2 DEF Moved, Request
    <3>4. QED BY <2>3, <3>3
  <2>7. ASSUME NEW d \in Callers, Issue(d) PROVE FALSE
    <3>1. CASE call' = [call EXCEPT ![d] = [NoCall EXCEPT !.pc = "failed"]]
      <4>1. Moved(d, "failed")
        BY <2>2, <3>1 DEF Moved, Request
      <4>2. QED BY <2>3, <4>1
    <3>2. ASSUME NEW life \in Lives, NEW ttl \in Announced(life),
                 call' = [call EXCEPT ![d] =
                            [@ EXCEPT !.pc = "answered", !.end = tokenNow + life, !.expires = ttl, !.said = tokenNow + ttl]]
          PROVE  FALSE
      <4>1. tokenNow + life \in Nat /\ ttl \in Nat
        <5>1. life \in Nat
          BY TokenAssumption
        <5>2. Capped(life) \in Nat /\ DefaultTtl \in Nat
          BY <5>1, TokenAssumption DEF Capped
        <5>3. ttl \in {Capped(life), DefaultTtl}
          BY <3>2 DEF Announced
        <5>4. ttl \in Nat
          BY <5>2, <5>3
        <5>5. QED BY <2>5, <5>1, <5>4
      <4> DEFINE r == [call[d] EXCEPT !.pc = "answered", !.end = tokenNow + life, !.expires = ttl,
                                      !.said = tokenNow + ttl]
      <4>a. tokenNow + ttl \in Nat
        BY <2>5, <4>1
      <4>b. r \in Request /\ r.pc = "answered"
        BY <2>1, <4>1, <4>a DEF Request
      <4>c. call' = [call EXCEPT ![d] = r]
        <5>1. call \in [Callers -> Request]
          BY DEF TokenInv
        <5>2. call' = [call EXCEPT ![d] = [@ EXCEPT !.pc = "answered", !.end = tokenNow + life,
                                                  !.expires = ttl, !.said = tokenNow + ttl]]
          BY <3>2
        <5>3. QED BY <5>1, <5>2
      <4>2. Moved(d, "answered")
        BY <4>b, <4>c, Zenon DEF Moved
      <4>3. QED BY <2>3, <4>2
    <3>3. QED BY <2>7, <3>1, <3>2 DEF Issue
  <2>8. ASSUME NEW d \in Callers, Store(d) PROVE FALSE
    <3>1. call' = Sent(d, call[d])
      BY <2>8 DEF Store
    <3>2. QED BY <2>4, <2>5, <3>1
  <2>9. ASSUME NEW d \in Callers, ReachTarget(d) PROVE FALSE
    <3>1. PICK to \in {"served", "rejected"} : call' = [call EXCEPT ![d] = [call[d] EXCEPT !.pc = to]]
      BY <2>9 DEF ReachTarget
    <3>2. Moved(d, to)
      BY <2>1, <3>1 DEF Moved, Request
    <3>3. QED BY <2>3, <3>1, <3>2
  <2>10. ASSUME NEW d \in Callers, Acquire(d) PROVE d = c /\ ~Reusable
    <3>1. Unlocked /\ (Reusable => call' = Sent(d, cached))
      BY <2>10 DEF Acquire, ReusableNow
    <3>2. ~Reusable
      BY <2>4, <2>5, <3>1
    <3>3. call' = [call EXCEPT ![d] = [NoCall EXCEPT !.pc = "exchange", !.since = tokenNow]]
      BY <2>10, <3>2 DEF Acquire, ReusableNow
    <3>4. QED BY <3>2, <3>3 DEF TokenInv
  <2>11. ~TokenTick
    BY DEF TokenTick
  <2>12. QED BY <2>6, <2>7, <2>8, <2>9, <2>10, <2>11 DEF TokenNext, Acquire
<1>3. QED BY <1>1, <1>2, TokenSafety, PTL DEF TokenSpec, TokensRight, NoNeedlessExchange
=============================================================================
