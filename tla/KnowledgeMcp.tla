---------------------------- MODULE KnowledgeMcp -----------------------------
(***************************************************************************)
(* The MCP endpoint of the knowledge service (interfaces/mcp/              *)
(* knowbase_mcp.py) and its rate limiter (services/call_rate.py): HTTP     *)
(* requests that carry a token and a batch of JSON-RPC messages are        *)
(* handled at the same time by one event loop, each message in turn, with  *)
(* an await only where a tool runs.                                        *)
(***************************************************************************)
EXTENDS Integers, Sequences, SequencesExt, FiniteSets

CONSTANTS Requests,   \* HTTP requests
          Tokens,     \* token -> [user, key, tools, exp]; what resolve can accept
          Batches,    \* the message sequences a request may carry
          Tools,      \* tools this instance offers (tool_specs)
          PerMinute,  \* calls a minute
          Minute,     \* 60 seconds, in ticks
          McpMaxTime,    \* bound of the clock
          NoExpiry    \* exp of a static token

\* What a message says: its method, the tool of a call, and whether it has an id.
\* Two kinds of message that are no JSON-RPC: one that is no object is skipped, as
\* an unknown method without an id is; an initialize or tools/call whose params is
\* no object has the method "broken".
McpMessages == [method : STRING, tool : STRING, id : BOOLEAN]
ASSUME McpAssumption == PerMinute \in Nat /\ Minute \in Nat /\ McpMaxTime \in Nat
                        /\ Batches \subseteq Seq(McpMessages)

VARIABLES mcpNow, token, batch,
          pc,         \* request -> "new", "open", "running", "closed", "refused", "failed"
          replies,    \* request -> one record per reply
          next,       \* request -> index of the message it handles
          calls,      \* key, the user and his sandbox -> the limiter's deque of admission times
          anomalies,  \* user -> calls refused
          admitted    \* key -> history: the times of all admitted calls

mcpVars == <<mcpNow, token, batch, pc, replies, next, calls, anomalies, admitted>>
Users == {Tokens[t].user : t \in DOMAIN Tokens}
CallKeys == {Tokens[t].key : t \in DOMAIN Tokens}
Grant(r) == Tokens[token[r]]
Message(r) == batch[r][next[r]]

McpInit == /\ mcpNow = 0
           /\ token \in [Requests -> DOMAIN Tokens] /\ batch \in [Requests -> Batches]
           /\ pc = [r \in Requests |-> "new"]
           /\ replies = [r \in Requests |-> <<>>] /\ next = [r \in Requests |-> 1]
           /\ calls = [k \in CallKeys |-> <<>>] /\ admitted = calls
           /\ anomalies = [u \in Users |-> 0]

\* resolve and _resolve_jwt: the signature, audience and issuer of a token in
\* Tokens are good; its end may have come.
Resolves(r) == Grant(r).exp = NoExpiry \/ Grant(r).exp > mcpNow

Arrive(r) ==
  /\ pc[r] = "new"
  /\ IF Resolves(r) THEN pc' = [pc EXCEPT ![r] = "open"] /\ UNCHANGED replies
     ELSE /\ pc' = [pc EXCEPT ![r] = "refused"]
          /\ replies' = [replies EXCEPT ![r] = <<[kind |-> "unauthorized", id |-> 0]>>]
  /\ UNCHANGED <<mcpNow, token, batch, next, calls, anomalies, admitted>>

Handled(r) == pc[r] = "open" /\ next[r] <= Len(batch[r])
Reply(r, kind) ==
  /\ replies' = [replies EXCEPT ![r] = Append(@, [kind |-> kind, id |-> next[r]])]
  /\ next' = [next EXCEPT ![r] = @ + 1]
Silent(r) == next' = [next EXCEPT ![r] = @ + 1] /\ UNCHANGED replies

Methods == {"initialize", "ping", "tools/list"}
Notices == {"notifications/initialized", "notifications/cancelled"}

\* handle, but for tools/call: nothing between the messages is awaited.
Simple(r) ==
  /\ Handled(r) /\ Message(r).method \notin {"tools/call", "broken"}
  /\ \/ Message(r).method \in Methods /\ Reply(r, "ok")
     \/ Message(r).method \in Notices /\ Silent(r)
     \/ Message(r).method \notin Methods \cup Notices
        /\ IF Message(r).id THEN Reply(r, "nomethod") ELSE Silent(r)
  /\ UNCHANGED <<mcpNow, token, batch, pc, calls, anomalies, admitted>>

\* params.get raises, and rpc ends in a 500: the replies so far are not sent, and
\* what they counted stays counted.
Broken(r) ==
  /\ Handled(r) /\ Message(r).method = "broken"
  /\ pc' = [pc EXCEPT ![r] = "failed"]
  /\ UNCHANGED <<mcpNow, token, batch, replies, next, calls, anomalies, admitted>>

\* RateLimiter.allow, of the user and his sandbox: tokens that share both share it.
OutlivedAtMinute(t) == mcpNow - t >= Minute                          \* mutants of Outlived
NeverOutlived(t) == FALSE
Outlived(t) == mcpNow - t > Minute
Recent(q) == LET n == Max({m \in 0..Len(q) : \A i \in 1..m : Outlived(q[i])})
             IN SubSeq(q, n + 1, Len(q))
RoomForOne(q) == Len(q) <= PerMinute                                 \* mutant of Room
Room(q) == Len(q) < PerMinute

OnlyOffered(r) == Message(r).tool \in Tools                          \* mutant of Permitted
Permitted(r) == Message(r).tool \in Tools /\ Message(r).tool \in Grant(r).tools

UnknownTool(r) ==
  /\ Handled(r) /\ Message(r).method = "tools/call" /\ Message(r).tool \notin Tools
  /\ Reply(r, "unknown")
  /\ UNCHANGED <<mcpNow, token, batch, pc, calls, anomalies, admitted>>

CountFirst(r) == anomalies' = [anomalies EXCEPT ![Grant(r).user] = 1]  \* mutant of Count
Count(r) == anomalies' = [anomalies EXCEPT ![Grant(r).user] = @ + 1]
Forbidden(r) ==
  /\ Handled(r) /\ Message(r).method = "tools/call" /\ Message(r).tool \in Tools /\ ~Permitted(r)
  /\ Reply(r, "forbidden") /\ Count(r)
  /\ UNCHANGED <<mcpNow, token, batch, pc, calls, admitted>>

Limited(r) ==
  /\ Handled(r) /\ Message(r).method = "tools/call" /\ Permitted(r)
  /\ LET q == Recent(calls[Grant(r).key])
     IN ~Room(q) /\ calls' = [calls EXCEPT ![Grant(r).key] = q]
  /\ Reply(r, "limited") /\ Count(r)
  /\ UNCHANGED <<mcpNow, token, batch, pc, admitted>>

\* From here the tool runs in a thread.
Admit(r) ==
  /\ Handled(r) /\ Message(r).method = "tools/call" /\ Permitted(r)
  /\ LET k == Grant(r).key  q == Recent(calls[k])
     IN /\ Room(q)
        /\ calls' = [calls EXCEPT ![k] = Append(q, mcpNow)]
        /\ admitted' = [admitted EXCEPT ![k] = Append(@, mcpNow)]
  /\ pc' = [pc EXCEPT ![r] = "running"]
  /\ UNCHANGED <<mcpNow, token, batch, replies, next, anomalies>>

ToolDone(r) ==
  /\ pc[r] = "running"
  /\ \E kind \in {"ok", "failed"} : Reply(r, kind)
  /\ pc' = [pc EXCEPT ![r] = "open"]
  /\ UNCHANGED <<mcpNow, token, batch, calls, anomalies, admitted>>

\* The response is sent: 202 if no message is answered.
Respond(r) ==
  /\ pc[r] = "open" /\ next[r] > Len(batch[r])
  /\ pc' = [pc EXCEPT ![r] = "closed"]
  /\ UNCHANGED <<mcpNow, token, batch, replies, next, calls, anomalies, admitted>>

McpTick == mcpNow < McpMaxTime /\ mcpNow' = mcpNow + 1
        /\ UNCHANGED <<token, batch, pc, replies, next, calls, anomalies, admitted>>

Work(r) == Arrive(r) \/ Simple(r) \/ Broken(r) \/ UnknownTool(r) \/ Forbidden(r) \/ Limited(r)
           \/ Admit(r) \/ ToolDone(r) \/ Respond(r)
McpNext == McpTick \/ \E r \in Requests : Work(r)
McpSpec == McpInit /\ [][McpNext]_mcpVars

-----------------------------------------------------------------------------
McpTypeOK == /\ mcpNow \in 0..McpMaxTime
             /\ \A k \in CallKeys : Len(calls[k]) <= PerMinute
             /\ \A r \in Requests : pc[r] # "refused" => Len(replies[r]) <= Len(batch[r])

\* RateLimiter.allow: however the requests of a user's sandbox interleave, no
\* minute, both its ends included, sees more than PerMinute of its calls.  The
\* window is the sandbox's, for all its tokens together; the head of the source
\* file and the limit's test speak of one per token.
WindowHolds == \A k \in CallKeys : \A i \in DOMAIN admitted[k] :
  i + PerMinute <= Len(admitted[k]) => admitted[k][i + PerMinute] - admitted[k][i] > Minute

\* A call is put off only when the minute before it is full of calls that were
\* admitted, of this token or another one of the same user and sandbox: what was
\* refused, forbidden or unknown does not use up the window.
RefusedWhenFull == [][\A r \in Requests :
  (Len(replies'[r]) > Len(replies[r]) /\ Last(replies'[r]).kind = "limited") =>
     Cardinality({i \in DOMAIN admitted[Grant(r).key] :
                    mcpNow - admitted[Grant(r).key][i] <= Minute}) >= PerMinute]_mcpVars

\* _call: over all requests of a user together, the anomalies counted are the
\* calls that were found forbidden or put off, in batches that broke off, too.
Anomalous(r) == {<<r, i>> : i \in {i \in DOMAIN replies[r] : replies[r][i].kind \in {"forbidden", "limited"}}}
AnomaliesCounted == \A u \in Users :
  anomalies[u] = Cardinality(UNION {Anomalous(r) : r \in {r \in Requests : Grant(r).user = u}})

Answered(m) == \/ m.method \in {"initialize", "ping", "tools/list", "tools/call"}
               \/ m.method \notin {"notifications/initialized", "notifications/cancelled"} /\ m.id
Ran(r, t) == \E i \in DOMAIN replies[r] :
  /\ replies[r][i].kind \in {"ok", "failed", "limited"}
  /\ batch[r][replies[r][i].id] = [method |-> "tools/call", tool |-> t, id |-> TRUE]

\* rpc: a finished batch has one reply for each message that asks for one, in the
\* order of the messages, and what tools/list shows its token are the tools that
\* answered and none that was refused.
BatchAnswered == \A r \in Requests : pc[r] = "closed" =>
  /\ {replies[r][i].id : i \in DOMAIN replies[r]} = {i \in DOMAIN batch[r] : Answered(batch[r][i])}
  /\ \A i, j \in DOMAIN replies[r] : i < j => replies[r][i].id < replies[r][j].id
  /\ \A t \in {batch[r][i].tool : i \in DOMAIN batch[r]} : Ran(r, t) => t \in Tools \cap Grant(r).tools

\* What the MCP endpoint promises about calls: the limit holds and refuses no call
\* but for it, anomalies are counted, and a batch is answered message by message.
CallsRight == /\ [](McpTypeOK /\ WindowHolds /\ AnomaliesCounted /\ BatchAnswered)
              /\ RefusedWhenFull
=============================================================================
