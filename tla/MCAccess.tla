------------------------------- MODULE MCAccess -------------------------------
(***************************************************************************)
(* Five parts by which a caller gets access: browser sessions, the tabs    *)
(* that use them, the caches of the provider's keys and metadata, the      *)
(* token of downstream calls, and the MCP endpoint with its call limit.    *)
(* They share nothing.  A behaviour is one of part's, within the bounds of *)
(* part.                                                                   *)
(***************************************************************************)
EXTENDS AuthSessions, BrowserTabs, OidcKeys, TokenCache, KnowledgeMcp, TLC

CONSTANTS a1, a2, b1, k1, k2

VARIABLE part

allVars == <<part, authVars, tabsVars, oidcVars, tokenVars, mcpVars>>

(* AuthSessions: two callbacks on two transactions of one surface; logins   *)
(* on both surfaces; one session over time.                                 *)
OrgTable == [s \in Surfaces |-> IF s = "web" THEN {"staff", "public"} ELSE {"staff"}]
ScopeTable == [s \in Surfaces |-> IF s = "web" THEN {"read"} ELSE {"knowbase:admin"}]
Claims(scopes, orgs, life) == \A c \in Handlers : /\ h[c].scopes \subseteq scopes
                                                  /\ h[c].org \in orgs \cup {"none"}
                                                  /\ h[c].exp <= h[c].at + life
Race == /\ authNow <= 1 /\ \A t \in Txs : tx[t].surface # "admin"
        /\ Claims({"read"}, {"public"}, 1)
BothSurfaces == authNow = 0 /\ Claims(Scopes, Orgs, 1)
SingleSession == /\ Len(sess) <= 1 /\ Claims({"read"}, {"staff"}, MaxLife)
               /\ Cardinality({t \in Txs : tx[t].state # "none"}) <= 1

(* BrowserTabs: two tabs of the web frontend, with a logout between two     *)
(* logins; one of each frontend by turns, with all that makes cookies go.   *)
FrontTable == [x \in Tabs |-> IF x = b1 THEN "admin" ELSE "web"]
WebTabs == \E x \in {a1, a2} : TabStep(x)
ByTurns == /\ ids' <= 3
           /\ \E x \in {a1, a2} : tab'[x] = NewPage /\ net'[x] = Quiet
           /\ \E x \in Tabs : \A y \in Tabs \ {x} : net'[y] = Quiet

(* OidcKeys: two verifications while the keys are replaced, where a retired *)
(* key stays retired; one while the address of the key set moves.           *)
Rotation == moves = 0 /\ oidcNow <= 5 /\ \A k \in published : lastPub[k] = 0
Moving == /\ Cardinality({x \in Verifiers : v[x].pc # "idle"}) <= 1
          /\ \A k \in Keys : lastPub[k] = 0

(* KnowledgeMcp: two tokens of one user's sandbox, one of them short-lived  *)
(* and for one tool only, and a token of another user.                      *)
Msg(m, t, id) == [method |-> m, tool |-> t, id |-> id]
Call(t) == Msg("tools/call", t, TRUE)
BatchSet == {<<Call("sql"), Call("sql")>>, <<Call("list"), Call("sql"), Call("list")>>,
             <<Msg("ping", "", TRUE), Call("other"), Call("sql")>>,
             <<Msg("notifications/initialized", "", FALSE), Msg("nothing", "", TRUE)>>,
             <<Call("sql"), Msg("broken", "", TRUE)>>}
TokenTable == ("a" :> [user |-> "u", key |-> "u/s", tools |-> {"list", "sql"}, exp |-> NoExpiry])
              @@ ("b" :> [user |-> "u", key |-> "u/s", tools |-> {"sql"}, exp |-> 1])
              @@ ("c" :> [user |-> "v", key |-> "v/s", tools |-> {"list", "sql", "query"}, exp |-> NoExpiry])
McpRest == /\ token = [r \in Requests |-> "a"]
           /\ batch = [r \in Requests |-> <<Call("sql"), Call("sql")>>]
           /\ McpInit

OidcRest == OidcInit /\ published = {k1}
AuthParts == {"race", "both surfaces", "one session"}
OidcParts == {"rotation", "moving"}

TabsParts == {"two tabs", "both frontends"}

Init == \/ part \in AuthParts /\ AuthInit /\ TabsInit /\ OidcRest /\ TokenInit /\ McpRest
        \/ part \in OidcParts /\ AuthInit /\ TabsInit /\ OidcInit /\ TokenInit /\ McpRest
        \/ part = "token" /\ AuthInit /\ TabsInit /\ OidcRest /\ TokenInit /\ McpRest
        \/ part \in TabsParts /\ AuthInit /\ TabsInit /\ OidcRest /\ TokenInit /\ McpRest
        \/ part = "mcp" /\ AuthInit /\ TabsInit /\ OidcRest /\ TokenInit /\ McpInit

AuthPart(p, bound) == part = p /\ AuthNext /\ bound /\ UNCHANGED <<part, tabsVars, oidcVars, tokenVars, mcpVars>>
OidcPart(p, bound) == part = p /\ OidcNext /\ bound /\ UNCHANGED <<part, authVars, tabsVars, tokenVars, mcpVars>>

Next == \/ AuthPart("race", Race') \/ AuthPart("both surfaces", BothSurfaces')
        \/ AuthPart("one session", SingleSession')
        \/ OidcPart("rotation", Rotation') \/ OidcPart("moving", Moving')
        \/ part = "two tabs" /\ WebTabs /\ UNCHANGED <<part, authVars, oidcVars, tokenVars, mcpVars>>
        \/ part = "both frontends" /\ TabsNext /\ ByTurns /\ UNCHANGED <<part, authVars, oidcVars, tokenVars, mcpVars>>
        \/ part = "token" /\ TokenNext /\ UNCHANGED <<part, authVars, tabsVars, oidcVars, mcpVars>>
        \/ part = "mcp" /\ McpNext /\ UNCHANGED <<part, authVars, tabsVars, oidcVars, tokenVars>>

Spec == Init /\ [][Next]_allVars

Symmetry == Permutations({a1, a2}) \cup Permutations({k1, k2})
=============================================================================
