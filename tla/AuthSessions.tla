---------------------------- MODULE AuthSessions ----------------------------
(***************************************************************************)
(* Browser login (application/services/auth_service.py with its routes):   *)
(* login transactions and sessions in Redis under keys of their surface,   *)
(* callbacks that race for a transaction, the user's row that both         *)
(* surfaces write, expiry, logout, and instances of two policy versions    *)
(* that serve side by side while a release is rolled out.                  *)
(*                                                                         *)
(* One user.  Time is whole seconds.  A transaction id, its state, nonce   *)
(* and verifier are one random value.  A session id is its index.          *)
(***************************************************************************)
EXTENDS Naturals, Sequences, FiniteSets

CONSTANTS Surfaces, Txs, Handlers, Orgs, Scopes,
          OrgsOf,       \* surface -> organizations it admits (allowed_organizations)
          ScopesOf,     \* surface -> its scope allowlist
          TxTtl,        \* auth_transaction_ttl_seconds
          SessionTtl,   \* session_ttl_seconds
          MaxLife,      \* bound: longest life of a provider token
          AuthMaxTime,      \* bound: length of a behaviour
          MaxSessions   \* bound: sessions created

ASSUME AuthAssumption ==
  /\ "none" \notin Txs
  /\ TxTtl \in Nat /\ SessionTtl \in Nat /\ MaxLife \in Nat

VARIABLES tx,       \* transaction -> its Redis entry and whether the browser has it
          h,        \* callback handler -> where complete_login stands
          row,      \* the scopes in the user's auth_user row
          sess,     \* the sessions ever stored
          live,     \* policy versions of the running instances
          ask,      \* a request whose session has been read from Redis
          granted,  \* the last request that was let in
          ended,    \* the sessions whose logout has been answered
          authNow

authVars == <<tx, h, row, sess, live, ask, granted, ended, authNow>>

NoTx == [state |-> "none", surface |-> "none", until |-> 0]
NoLogin == [pc |-> "idle", tx |-> "none", surface |-> "none", policy |-> 0, org |-> "none",
            scopes |-> {}, expires |-> 0, exp |-> 0, at |-> 0]
NoAsk == [session |-> 0, surface |-> "none", policy |-> 0, late |-> FALSE]
NoGrant == [session |-> 0, surface |-> "none", policy |-> 0, at |-> 0]

AuthInit == /\ tx = [t \in Txs |-> NoTx]
            /\ h = [c \in Handlers |-> NoLogin]
            /\ row = {} /\ sess = <<>> /\ live = {1} /\ ask = NoAsk /\ granted = NoGrant
            /\ ended = {} /\ authNow = 0

Min2(a, b) == IF a < b THEN a ELSE b

-----------------------------------------------------------------------------
(* begin_login.                                                            *)

BeginLogin(t, s) ==
  /\ tx[t].state = "none"
  /\ tx' = [tx EXCEPT ![t] = [state |-> "building", surface |-> s, until |-> authNow + TxTtl]]
  /\ UNCHANGED <<h, row, sess, live, ask, granted, ended, authNow>>

\* build_authorization_url answers, or raises and the transaction is deleted.
Authorize(t) ==
  /\ tx[t].state = "building"
  /\ \E state \in {"open", "gone"} : tx' = [tx EXCEPT ![t].state = state]
  /\ UNCHANGED <<h, row, sess, live, ask, granted, ended, authNow>>

\* cancel_login, on a callback that brings an error or no code.
CancelLogin(t) ==
  /\ tx[t].state = "open"
  /\ tx' = [tx EXCEPT ![t].state = "gone"]
  /\ UNCHANGED <<h, row, sess, live, ask, granted, ended, authNow>>

-----------------------------------------------------------------------------
(* complete_login.                                                         *)

\* Two mutants of TakeEntry: the entry is only read, or marked and kept.
ReadEntry(t) == tx
MarkEntry(t) == [tx EXCEPT ![t].state = "taken"]
TakeEntry(t) == [tx EXCEPT ![t].state = "gone"]

\* The transaction is taken (GETDEL) under the surface's key before the state
\* is compared: a callback with another transaction's state uses it up.
Callback(c, t, s, state, p) ==
  /\ h[c].pc = "idle" /\ p \in live
  /\ tx[t].state = "open" /\ tx[t].surface = s /\ authNow < tx[t].until
  /\ tx' = TakeEntry(t)
  /\ h' = IF state = t
          THEN [h EXCEPT ![c] = [NoLogin EXCEPT !.pc = "exchange", !.tx = t, !.surface = s, !.policy = p]]
          ELSE h
  /\ UNCHANGED <<row, sess, live, ask, granted, ended, authNow>>

Admits(s, org) == org \in OrgsOf[s]
AllowedClaims(s, claimed) == claimed \cap ScopesOf[s]
SessionExpiry(exp) == Min2(exp, authNow + SessionTtl)

\* The provider answers with verified claims, which make a principal or not.
Exchange(c) ==
  /\ h[c].pc = "exchange"
  /\ \/ h' = [h EXCEPT ![c] = NoLogin]
     \/ \E exp \in authNow..authNow + MaxLife, org \in Orgs, claimed \in SUBSET Scopes :
          h' = [h EXCEPT ![c] =
            IF SessionExpiry(exp) <= authNow \/ ~Admits(h[c].surface, org) THEN NoLogin
            ELSE [@ EXCEPT !.pc = "upsert", !.org = org, !.expires = SessionExpiry(exp),
                           !.exp = exp, !.at = authNow,
                           !.scopes = AllowedClaims(h[c].surface, claimed)]]
  /\ UNCHANGED <<tx, row, sess, live, ask, granted, ended, authNow>>

\* INSERT ... ON CONFLICT DO UPDATE ... RETURNING: the row as this login wrote it.
Upsert(c) ==
  /\ h[c].pc = "upsert"
  /\ row' = h[c].scopes
  /\ h' = [h EXCEPT ![c].pc = "store"]
  /\ UNCHANGED <<tx, sess, live, ask, granted, ended, authNow>>

RowScopes(c) == row                                       \* mutant of ReturnedScopes
ReturnedScopes(c) == h[c].scopes

\* SET NX EX with the whole seconds that are left, and at least one.
StoreSession(c) ==
  LET l == h[c] IN
  /\ l.pc = "store" /\ Len(sess) < MaxSessions
  /\ sess' = Append(sess, [tx |-> l.tx, surface |-> l.surface, policy |-> l.policy, org |-> l.org,
                           scopes |-> ReturnedScopes(c), expires |-> l.expires, exp |-> l.exp, at |-> l.at,
                           until |-> authNow + (IF l.expires > authNow THEN l.expires - authNow ELSE 1),
                           state |-> "stored"])
  /\ h' = [h EXCEPT ![c] = NoLogin]
  /\ UNCHANGED <<tx, row, live, ask, granted, ended, authNow>>

-----------------------------------------------------------------------------
(* get_browser_session and what uses it.                                   *)

InRedis(i, s) == sess[i].state = "stored" /\ sess[i].surface = s /\ authNow < sess[i].until
NeverExpired(i) == FALSE                                  \* mutant of Expired
Expired(i) == sess[i].expires <= authNow
OtherPolicy(i, p) == sess[i].policy # p
Valid(i, p) == ~Expired(i) /\ ~OtherPolicy(i, p)
Deleted(i) == sess' = [sess EXCEPT ![i].state = "deleted"]

\* The entry is read, and judged when Redis has answered: a logout, or the end of
\* the session, may come between.  One request at a time is followed so: all that
\* a request leaves behind is a deletion, so others do not disturb it.
ReadSession(i, s, p) ==
  /\ ask = NoAsk /\ p \in live /\ InRedis(i, s)
  /\ ask' = [session |-> i, surface |-> s, policy |-> p, late |-> i \in ended]
  /\ UNCHANGED <<tx, h, row, sess, live, granted, ended, authNow>>

Judge ==
  /\ ask # NoAsk /\ ask' = NoAsk
  /\ IF Valid(ask.session, ask.policy)
     THEN /\ granted' = [session |-> ask.session, surface |-> ask.surface, policy |-> ask.policy, at |-> authNow]
          /\ UNCHANGED sess
     ELSE Deleted(ask.session) /\ UNCHANGED granted
  /\ UNCHANGED <<tx, h, row, live, ended, authNow>>

\* end_session deletes first; whether the provider then answers decides only
\* where the browser goes.
Logout(i, s, p) ==
  /\ p \in live /\ InRedis(i, s) /\ Valid(i, p)
  /\ Deleted(i)
  /\ ended' = ended \cup {i}
  /\ UNCHANGED <<tx, h, row, live, ask, granted, authNow>>

-----------------------------------------------------------------------------
\* A release brings instances of policy 2, then the old ones stop.
Deploy ==
  /\ live' = IF live = {1} THEN {1, 2} ELSE {2}
  /\ live # {2}
  /\ UNCHANGED <<tx, h, row, sess, ask, granted, ended, authNow>>

AuthTick == /\ authNow < AuthMaxTime /\ authNow' = authNow + 1
            /\ UNCHANGED <<tx, h, row, sess, live, ask, granted, ended>>

AuthNext == \/ AuthTick \/ Deploy
            \/ \E t \in Txs : Authorize(t) \/ CancelLogin(t) \/ \E s \in Surfaces : BeginLogin(t, s)
            \/ \E c \in Handlers :
                 \/ Exchange(c) \/ Upsert(c) \/ StoreSession(c)
                 \/ \E t, state \in Txs, s \in Surfaces, p \in {1, 2} : Callback(c, t, s, state, p)
            \/ Judge
            \/ \E i \in 1..Len(sess), s \in Surfaces, p \in {1, 2} : ReadSession(i, s, p) \/ Logout(i, s, p)

AuthSpec == AuthInit /\ [][AuthNext]_authVars

-----------------------------------------------------------------------------
AuthTypeOK ==
  /\ tx \in [Txs -> [state : {"none", "building", "open", "gone"},
                     surface : Surfaces \cup {"none"}, until : Nat]]
  /\ \A c \in Handlers : /\ h[c].pc \in {"idle", "exchange", "upsert", "store"}
                        /\ h[c].scopes \subseteq Scopes
  /\ row \subseteq Scopes
  /\ \A i \in 1..Len(sess) : sess[i].state \in {"stored", "deleted"} /\ sess[i].until \in Nat
  /\ ask \in [session : 0..Len(sess), surface : Surfaces \cup {"none"}, policy : 0..2, late : BOOLEAN]
  /\ live \in {{1}, {1, 2}, {2}} /\ ended \subseteq 1..Len(sess) /\ authNow \in Nat

\* However many callbacks race for a login transaction, with whatever state,
\* at most one session comes of it, and none while another holds it.
OneSession ==
  \A t \in Txs : Cardinality({i \in 1..Len(sess) : sess[i].tx = t})
                + Cardinality({c \in Handlers : h[c].tx = t}) <= 1

\* Who is let in on a surface logged in on that surface, from an organization
\* it admits, under the policy of the instance that lets him in, and with
\* scopes that surface may give: also when he logs in on both at once, which
\* write the same row, and while two policies are deployed.
Confined ==
  granted.session # 0 =>
    LET s == sess[granted.session] IN
    /\ s.surface = granted.surface /\ s.policy = granted.policy
    /\ s.org \in OrgsOf[s.surface] /\ s.scopes \subseteq ScopesOf[s.surface]

\* Nobody is let in at or after the end of his provider token or SessionTtl
\* after its verification, however late the session was stored and however
\* long Redis keeps it and takes to answer, nor by a request that Redis is asked
\* about once his logout has been answered; one that Redis had answered before
\* the logout's deletion is still let in.
GrantedInTime ==
  [][granted' # granted =>
       LET s == sess[granted'.session] IN
       authNow < s.exp /\ authNow < s.at + SessionTtl /\ ~ask.late]_authVars

\* What holds of logins and sessions at every moment: a transaction makes at most one
\* session, and a session lets in nobody beyond its surface and policy.
SessionsRight == AuthTypeOK /\ OneSession /\ Confined
=============================================================================
