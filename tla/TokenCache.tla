----------------------------- MODULE TokenCache -----------------------------
(***************************************************************************)
(* DownstreamServiceClient (infrastructure/external/downstream_service.py) *)
(* and the exchange it makes (oidc.py, exchange_client_credentials): calls *)
(* to another application share one access token, which is looked at       *)
(* before and again behind a lock, and is used while more than Margin of   *)
(* its announced life remains, counted from the end of the exchange.  What *)
(* the provider announces, and the default where it announces nothing that *)
(* can be read, may be longer than the token really lives.                 *)
(***************************************************************************)
EXTENDS Naturals

CONSTANTS Callers,   \* requests under way at once
          Margin,    \* 30 seconds
          MaxTtl,    \* 3600 seconds
          DefaultTtl, \* 300 seconds
          Lives,     \* the lives the provider gives its tokens
          CallLatency,   \* bound: how long an exchange or a request takes
          TokenMaxTime    \* bound: length of a behaviour

\* The settings bound CallLatency by their timeouts.  With the defaults Margin covers
\* two of it; nothing in the code relates the two.
ASSUME TokenAssumption ==
  /\ Margin \in Nat /\ MaxTtl \in Nat \ {0} /\ DefaultTtl \in 0..MaxTtl /\ CallLatency \in Nat
  /\ Margin >= 2 * CallLatency
  /\ Lives \subseteq Nat /\ \A life \in Lives : life > 2 * CallLatency

VARIABLES issued,   \* the real end of the last token's life, 0: none
          cached,    \* _access_token, by its real end and the end of its announced life
                     \* from its issue, and _access_token_expires_at
          call,     \* caller -> its request, and the ends of its token
          tokenNow

tokenVars == <<issued, cached, call, tokenNow>>

NoToken == [end |-> 0, expires |-> 0, said |-> 0]
NoCall == [pc |-> "idle", since |-> 0, end |-> 0, expires |-> 0, said |-> 0]

TokenInit == issued = 0 /\ cached = NoToken /\ call = [c \in Callers |-> NoCall] /\ tokenNow = 1

UntilTheEnd == cached.end # 0 /\ cached.expires > tokenNow          \* mutant of Reusable
Reusable == cached.end # 0 /\ cached.expires > tokenNow + Margin
Sent(c, t) == [call EXCEPT ![c] =
  [NoCall EXCEPT !.pc = "sent", !.since = tokenNow, !.end = t.end, !.said = t.said]]

\* request_json: a token at hand is used without the lock.
RequestJson(c) ==
  /\ call[c].pc \notin {"waiting", "exchange", "answered", "sent"}
  /\ call' = IF Reusable THEN Sent(c, cached)
             ELSE [call EXCEPT ![c] = [NoCall EXCEPT !.pc = "waiting"]]
  /\ UNCHANGED <<issued, cached, tokenNow>>

Exchanging(c) == call[c].pc \in {"exchange", "answered"}
Unlocked == \A c \in Callers : ~Exchanging(c)
AlwaysExchange == FALSE                                 \* mutant of ReusableNow
ReusableNow == Reusable

\* Behind the lock it looks again.
Acquire(c) ==
  /\ call[c].pc = "waiting" /\ Unlocked
  /\ call' = IF ReusableNow THEN Sent(c, cached)
             ELSE [call EXCEPT ![c] = [NoCall EXCEPT !.pc = "exchange", !.since = tokenNow]]
  /\ UNCHANGED <<issued, cached, tokenNow>>

\* expires_in is the life, too long, or missing, whatever the life is.
Uncapped(life) == IF life < 1 THEN 1 ELSE life               \* mutant of Capped
Capped(life) == IF life < 1 THEN 1 ELSE IF life > MaxTtl THEN MaxTtl ELSE life
Announced(life) == {Capped(life), DefaultTtl}

\* The provider issues a token, or the exchange fails.
Issue(c) ==
  /\ call[c].pc = "exchange"
  /\ \/ call' = [call EXCEPT ![c] = [NoCall EXCEPT !.pc = "failed"]] /\ UNCHANGED issued
     \/ \E life \in Lives : \E ttl \in Announced(life) :
          /\ issued' = tokenNow + life
          /\ call' = [call EXCEPT ![c] = [@ EXCEPT !.pc = "answered", !.end = tokenNow + life,
                                                     !.expires = ttl, !.said = tokenNow + ttl]]
  /\ UNCHANGED <<cached, tokenNow>>

Store(c) ==
  /\ call[c].pc = "answered"
  /\ cached' = [end |-> call[c].end, expires |-> tokenNow + call[c].expires, said |-> call[c].said]
  /\ call' = Sent(c, call[c])
  /\ UNCHANGED <<issued, tokenNow>>

\* The other application looks at the token when the request reaches it.
ReachTarget(c) ==
  /\ call[c].pc = "sent"
  /\ call' = [call EXCEPT ![c] =
       [@ EXCEPT !.pc = IF tokenNow < call[c].end THEN "served" ELSE "rejected"]]
  /\ UNCHANGED <<issued, cached, tokenNow>>

TokenTick ==
  /\ tokenNow < TokenMaxTime
  /\ \A c \in Callers : Exchanging(c) \/ call[c].pc = "sent" => tokenNow - call[c].since < CallLatency
  /\ tokenNow' = tokenNow + 1
  /\ UNCHANGED <<issued, cached, call>>

TokenNext == \/ TokenTick
             \/ \E c \in Callers : RequestJson(c) \/ Acquire(c) \/ Issue(c) \/ Store(c) \/ ReachTarget(c)
TokenSpec == TokenInit /\ [][TokenNext]_tokenVars

-----------------------------------------------------------------------------
TokenTypeOK == /\ issued \in Nat /\ tokenNow \in Nat
               /\ cached \in [end : Nat, expires : 0..tokenNow + MaxTtl, said : Nat]
               /\ call \in [Callers -> [pc : {"idle", "waiting", "exchange", "answered", "sent", "served",
                                              "rejected", "failed"},
                                        since : Nat, end : Nat, expires : Nat, said : Nat]]

\* No request is turned away because its token ran out on the way, but for a token
\* that lives shorter than announced, or than the default where nothing is: the
\* margin covers the time the exchange takes, which the expiry is late by, and the
\* time the request takes (Margin >= 2 * CallLatency, and lives longer than that).
NeverRejected == \A c \in Callers : call[c].pc = "rejected" => call[c].said > call[c].end

\* One exchange serves every caller that waits for it: none begins while the
\* stored token may be reused, and never two at once.
NoNeedlessExchange ==
  [][\A c \in Callers : call[c].pc # "exchange" /\ call'[c].pc = "exchange" =>
        ~(cached.end # 0 /\ cached.expires > tokenNow + Margin) /\ \A d \in Callers : ~Exchanging(d)]_tokenVars

\* The cached token neither runs out on the way nor is exchanged without need.
TokensRight == [](TokenTypeOK /\ NeverRejected) /\ NoNeedlessExchange
=============================================================================
