---------------------------- MODULE Sessions_proof ----------------------------
(***************************************************************************)
(* Machine-checked proofs about browser sessions: how they are granted and *)
(* kept at the server (AuthSessions), for every set of transactions and    *)
(* callbacks, every life and any policy, and how the tabs of one browser   *)
(* use them (BrowserTabs), for every set of tabs and any number of logins. *)
(***************************************************************************)
EXTENDS AuthSessions, BrowserTabs, SequenceTheorems, FiniteSetTheorems, TLAPS

USE AuthAssumption

TxRow == [state : {"none", "building", "open", "gone"},
          surface : Surfaces \cup {"none"}, until : Nat]

Login == [pc : {"idle", "exchange", "upsert", "store"}, tx : Txs \cup {"none"},
          surface : Surfaces \cup {"none"}, policy : 0 .. 2, org : Orgs \cup {"none"},
          scopes : SUBSET Scopes, expires : Nat, exp : Nat, at : Nat]

Session == [tx : Txs, surface : Surfaces \cup {"none"}, policy : 0 .. 2, org : Orgs \cup {"none"},
            scopes : SUBSET Scopes, expires : Nat, exp : Nat, at : Nat, until : Nat,
            state : {"stored", "deleted"}]

Typed ==
    /\ tx \in [Txs -> TxRow] /\ h \in [Handlers -> Login] /\ sess \in Seq(Session)
    /\ row \in SUBSET Scopes /\ live \in {{1}, {1, 2}, {2}}
    /\ ended \in SUBSET (1 .. Len(sess)) /\ authNow \in Nat /\ granted.session \in Nat
    /\ ask \in [session : Nat, surface : Surfaces \cup {"none"}, policy : 0 .. 2, late : BOOLEAN]

(* A transaction that is held by a handler, or that made a session, is     *)
(* gone from Redis, and belongs to that handler or that session alone.     *)
Owned ==
    /\ \A c \in Handlers : h[c].pc = "idle" <=> h[c].tx = "none"
    /\ \A c \in Handlers : h[c].tx # "none" => tx[h[c].tx].state = "gone"
    /\ \A i \in 1 .. Len(sess) : tx[sess[i].tx].state = "gone"
    /\ \A c, d \in Handlers : h[c].tx # "none" /\ h[c].tx = h[d].tx => c = d
    /\ \A i \in 1 .. Len(sess), c \in Handlers : sess[i].tx # h[c].tx
    /\ \A i, j \in 1 .. Len(sess) : sess[i].tx = sess[j].tx => i = j

Sound(s) ==
    /\ s.org \in OrgsOf[s.surface] /\ s.scopes \subseteq ScopesOf[s.surface]
    /\ s.expires <= s.exp /\ s.expires <= s.at + SessionTtl

(* What a handler has verified, and what a session was made from.          *)
Checked ==
    /\ \A c \in Handlers : h[c].pc \in {"upsert", "store"} => Sound(h[c])
    /\ \A i \in 1 .. Len(sess) : Sound(sess[i])

(* The last request let in was in its own session; a session whose logout  *)
(* was answered is deleted; a request is judged by a session of the        *)
(* surface it asked, which it read before that session's logout.           *)
Remembered ==
    /\ granted.session # 0 =>
         /\ granted.session \in 1 .. Len(sess)
         /\ sess[granted.session].surface = granted.surface
         /\ sess[granted.session].policy = granted.policy
    /\ \A i \in ended : sess[i].state = "deleted"
    /\ ask.late = FALSE /\ (ask.session = 0 => ask = NoAsk)
    /\ ask.session # 0 => ask.session \in 1 .. Len(sess) /\ sess[ask.session].surface = ask.surface

AuthInv == Typed /\ Owned /\ Checked /\ Remembered

-----------------------------------------------------------------------------
(* A session that is deleted keeps everything but its state.               *)
LEMMA DeletedKeeps ==
    ASSUME sess \in Seq(Session), NEW i \in 1 .. Len(sess), Deleted(i)
    PROVE  /\ sess' \in Seq(Session) /\ Len(sess') = Len(sess)
           /\ \A k \in 1 .. Len(sess) :
                /\ sess'[k].tx = sess[k].tx /\ sess'[k].surface = sess[k].surface
                /\ sess'[k].policy = sess[k].policy /\ sess'[k].org = sess[k].org
                /\ sess'[k].scopes = sess[k].scopes /\ sess'[k].expires = sess[k].expires
                /\ sess'[k].exp = sess[k].exp /\ sess'[k].at = sess[k].at
                /\ sess'[k].state = (IF k = i THEN "deleted" ELSE sess[k].state)
<1> DEFINE s == [sess[i] EXCEPT !.state = "deleted"]
<1>1. sess[i] \in Session
  BY ElementOfSeq
<1>2. /\ s \in Session /\ s.state = "deleted"
      /\ s.tx = sess[i].tx /\ s.surface = sess[i].surface /\ s.policy = sess[i].policy
      /\ s.org = sess[i].org /\ s.scopes = sess[i].scopes /\ s.expires = sess[i].expires
      /\ s.exp = sess[i].exp /\ s.at = sess[i].at
  BY <1>1 DEF Session
<1>3. sess' = [sess EXCEPT ![i] = s]
  BY DEF Deleted
<1> HIDE DEF s
<1>4. /\ sess' \in Seq(Session) /\ Len(sess') = Len(sess)
      /\ \A k \in 1 .. Len(sess) : sess'[k] = IF k = i THEN s ELSE sess[k]
  BY <1>2, <1>3, ExceptSeq
<1>5. QED BY <1>2, <1>4

(* Every session is one.                                                   *)
LEMMA SessionAt ==
    ASSUME Typed
    PROVE  \A i \in 1 .. Len(sess) : sess[i] \in Session /\ sess[i].tx \in Txs /\ sess[i].tx # "none"
<1> SUFFICES ASSUME NEW i \in 1 .. Len(sess)
             PROVE  sess[i] \in Session /\ sess[i].tx \in Txs /\ sess[i].tx # "none"
  OBVIOUS
<1>1. sess[i] \in Session
  BY ElementOfSeq DEF Typed
<1>2. QED BY <1>1 DEF Session

(* What does not touch logins, sessions, requests, grants and logouts, and *)
(* brings no transaction back, keeps the invariant.                        *)
LEMMA Untouched ==
    ASSUME AuthInv, UNCHANGED <<h, sess, ask, granted, ended>>,
           tx' \in [Txs -> TxRow], row' \in SUBSET Scopes, live' \in {{1}, {1, 2}, {2}},
           authNow' \in Nat,
           \A t \in Txs : tx[t].state = "gone" => tx'[t].state = "gone"
    PROVE  AuthInv'
<1>1. Typed'
  BY DEF AuthInv, Typed
<1>2. Owned'
  <2>1. \A c \in Handlers : h[c].tx \in Txs \cup {"none"}
    BY DEF AuthInv, Typed, Login
  <2>2. \A i \in 1 .. Len(sess) : sess[i].tx \in Txs
    BY SessionAt DEF AuthInv
  <2>3. QED BY <2>1, <2>2 DEF AuthInv, Owned
<1>3. Checked'
  BY DEF AuthInv, Checked, Sound
<1>4. Remembered'
  BY DEF AuthInv, Remembered
<1>5. QED BY <1>1, <1>2, <1>3, <1>4 DEF AuthInv

(* A handler that moves on with its transaction, or gives it up, keeps the *)
(* invariant if what it has verified is sound.                             *)
LEMMA HandlerMoves ==
    ASSUME AuthInv, NEW c \in Handlers, NEW l \in Login, h' = [h EXCEPT ![c] = l],
           UNCHANGED <<tx, sess, live, ask, granted, ended, authNow>>, row' \in SUBSET Scopes,
           l.pc = "idle" <=> l.tx = "none",
           l.tx \in {h[c].tx, "none"},
           l.pc \in {"upsert", "store"} => Sound(l)
    PROVE  AuthInv'
<1>1. /\ h' \in [Handlers -> Login]
      /\ \A d \in Handlers : h'[d] = IF d = c THEN l ELSE h[d]
  BY DEF AuthInv, Typed
<1>2. Typed'
  BY <1>1 DEF AuthInv, Typed
<1>3. Owned'
  <2>1. \A i \in 1 .. Len(sess) : sess[i].tx # "none"
    BY SessionAt DEF AuthInv
  <2>2. QED BY <1>1, <2>1 DEF AuthInv, Owned
<1>4. Checked'
  BY <1>1 DEF AuthInv, Checked, Sound
<1>5. Remembered'
  BY DEF AuthInv, Remembered
<1>6. QED BY <1>2, <1>3, <1>4, <1>5 DEF AuthInv

(* NoLogin is a login.                                                     *)
LEMMA NoLoginTyped == NoLogin \in Login /\ NoLogin.pc = "idle" /\ NoLogin.tx = "none"
BY DEF NoLogin, Login

(* A request that is not under way is of no session, and is not late.      *)
LEMMA NoAskTyped ==
    /\ NoAsk \in [session : Nat, surface : Surfaces \cup {"none"}, policy : 0 .. 2, late : BOOLEAN]
    /\ NoAsk.session = 0 /\ NoAsk.late = FALSE
BY DEF NoAsk

(* AuthInv is preserved by every step.                                     *)
LEMMA StepAuth == AuthInv /\ [AuthNext]_authVars => AuthInv'
<1> SUFFICES ASSUME AuthInv, [AuthNext]_authVars PROVE AuthInv'
  OBVIOUS
<1>0. /\ tx \in [Txs -> TxRow] /\ h \in [Handlers -> Login] /\ sess \in Seq(Session)
      /\ row \in SUBSET Scopes /\ live \in {{1}, {1, 2}, {2}} /\ live \subseteq {1, 2}
      /\ ended \in SUBSET (1 .. Len(sess)) /\ authNow \in Nat /\ granted.session \in Nat
      /\ ask \in [session : Nat, surface : Surfaces \cup {"none"}, policy : 0 .. 2, late : BOOLEAN]
      /\ Len(sess) \in Nat
  BY LenProperties DEF AuthInv, Typed
<1>1. CASE AuthTick \/ Deploy
  BY <1>0, <1>1, Untouched DEF AuthTick, Deploy
<1>2. ASSUME NEW t \in Txs, NEW s \in Surfaces, BeginLogin(t, s) PROVE AuthInv'
  <2>1. [state |-> "building", surface |-> s, until |-> authNow + TxTtl] \in TxRow
    BY <1>0 DEF TxRow
  <2>2. tx' \in [Txs -> TxRow] /\ \A u \in Txs : tx[u].state = "gone" => tx'[u].state = "gone"
    BY <1>0, <1>2, <2>1 DEF BeginLogin
  <2>3. QED BY <1>0, <1>2, <2>2, Untouched DEF BeginLogin
<1>3. ASSUME NEW t \in Txs, Authorize(t) \/ CancelLogin(t) PROVE AuthInv'
  <2>1. PICK state \in {"open", "gone"} : tx' = [tx EXCEPT ![t].state = state]
    BY <1>3 DEF Authorize, CancelLogin
  <2>2. [tx[t] EXCEPT !.state = state] \in TxRow /\ tx[t].state # "gone"
    BY <1>0, <1>3, <2>1 DEF TxRow, Authorize, CancelLogin
  <2>3. tx' \in [Txs -> TxRow] /\ \A u \in Txs : tx[u].state = "gone" => tx'[u].state = "gone"
    BY <1>0, <2>1, <2>2
  <2>4. QED BY <1>0, <1>3, <2>3, Untouched DEF Authorize, CancelLogin
<1>4. ASSUME NEW c \in Handlers, NEW t \in Txs, NEW state \in Txs, NEW s \in Surfaces,
             NEW p \in {1, 2}, Callback(c, t, s, state, p)
      PROVE  AuthInv'
  <2> DEFINE l == [NoLogin EXCEPT !.pc = "exchange", !.tx = t, !.surface = s, !.policy = p]
  <2>1. /\ tx[t].state = "open" /\ h[c].pc = "idle"
        /\ tx' = [tx EXCEPT ![t].state = "gone"]
        /\ h' = IF state = t THEN [h EXCEPT ![c] = l] ELSE h
        /\ UNCHANGED <<row, sess, live, ask, granted, ended, authNow>>
    BY <1>4 DEF Callback, TakeEntry
  <2>2. /\ tx' \in [Txs -> TxRow]
        /\ \A u \in Txs : tx'[u].state = IF u = t THEN "gone" ELSE tx[u].state
    BY <1>0, <2>1 DEF TxRow
  <2>3. l \in Login /\ l.pc = "exchange" /\ l.tx = t
    <3>1. NoLogin \in Login
      BY NoLoginTyped
    <3>2. p \in 0 .. 2
      OBVIOUS
    <3>3. QED BY <3>1, <3>2 DEF Login
  <2> HIDE DEF l
  <2>4. CASE state # t
    BY <1>0, <2>1, <2>2, <2>4, Untouched
  <2>5. CASE state = t
    <3>1. /\ h' \in [Handlers -> Login]
          /\ \A d \in Handlers : h'[d] = IF d = c THEN l ELSE h[d]
      BY <1>0, <2>1, <2>3, <2>5
    <3>2. Typed'
      BY <1>0, <2>1, <2>2, <3>1 DEF Typed
    <3>3. Owned'
      <4>1. \A i \in 1 .. Len(sess) : sess[i].tx \in Txs /\ sess[i].tx # t
        BY <2>1, SessionAt DEF AuthInv, Owned
      <4>2. \A d \in Handlers : h[d].tx \in Txs \cup {"none"} /\ h[d].tx # t
        BY <1>0, <2>1 DEF AuthInv, Owned, Login
      <4>3. QED BY <2>1, <2>2, <2>3, <3>1, <4>1, <4>2 DEF AuthInv, Owned
    <3>4. Checked'
      BY <2>1, <2>3, <3>1 DEF AuthInv, Checked, Sound
    <3>5. Remembered'
      BY <2>1 DEF AuthInv, Remembered
    <3>6. QED BY <3>2, <3>3, <3>4, <3>5 DEF AuthInv
  <2>6. QED BY <2>4, <2>5
<1>5. ASSUME NEW c \in Handlers, Exchange(c) PROVE AuthInv'
  <2>1. UNCHANGED <<tx, row, sess, live, ask, granted, ended, authNow>> /\ h[c].pc = "exchange"
    BY <1>5 DEF Exchange
  <2>2. CASE h' = [h EXCEPT ![c] = NoLogin]
    BY <1>0, <2>1, <2>2, NoLoginTyped, HandlerMoves
  <2>3. ASSUME NEW exp \in authNow .. authNow + MaxLife, NEW org \in Orgs, NEW claimed \in SUBSET Scopes,
               ~(SessionExpiry(exp) <= authNow \/ ~Admits(h[c].surface, org)),
               h' = [h EXCEPT ![c] =
                       [@ EXCEPT !.pc = "upsert", !.org = org, !.expires = SessionExpiry(exp),
                                 !.exp = exp, !.at = authNow,
                                 !.scopes = AllowedClaims(h[c].surface, claimed)]]
        PROVE  AuthInv'
    <3> DEFINE l == [h[c] EXCEPT !.pc = "upsert", !.org = org, !.expires = SessionExpiry(exp),
                                 !.exp = exp, !.at = authNow,
                                 !.scopes = AllowedClaims(h[c].surface, claimed)]
    <3>1. /\ SessionExpiry(exp) \in Nat /\ SessionExpiry(exp) <= exp
          /\ SessionExpiry(exp) <= authNow + SessionTtl
      BY <1>0 DEF SessionExpiry, Min2
    <3>2. exp \in Nat /\ AllowedClaims(h[c].surface, claimed) \in SUBSET Scopes
      BY <1>0 DEF AllowedClaims
    <3>3. h[c] \in Login
      BY <1>0
    <3>4. /\ l \in Login /\ l.pc = "upsert" /\ l.tx = h[c].tx /\ l.surface = h[c].surface
          /\ l.org = org /\ l.expires = SessionExpiry(exp) /\ l.exp = exp /\ l.at = authNow
          /\ l.scopes = AllowedClaims(h[c].surface, claimed)
      BY <1>0, <3>1, <3>2, <3>3 DEF Login
    <3>5. h' = [h EXCEPT ![c] = l]
      BY <2>3
    <3> HIDE DEF l
    <3>6. Sound(l)
      BY <2>3, <3>1, <3>4 DEF Sound, Admits, AllowedClaims
    <3>7. l.tx # "none"
      BY <2>1, <3>4 DEF AuthInv, Owned
    <3>8. QED BY <1>0, <2>1, <3>4, <3>5, <3>6, <3>7, HandlerMoves
  <2>4. QED BY <1>5, <2>2, <2>3 DEF Exchange
<1>6. ASSUME NEW c \in Handlers, Upsert(c) PROVE AuthInv'
  <2> DEFINE l == [h[c] EXCEPT !.pc = "store"]
  <2>1. h[c] \in Login /\ h[c].pc = "upsert" /\ h' = [h EXCEPT ![c] = l] /\ row' = h[c].scopes
    BY <1>0, <1>6 DEF Upsert
  <2>2. /\ l \in Login /\ l.pc = "store" /\ l.tx = h[c].tx /\ row' \in SUBSET Scopes
        /\ l.org = h[c].org /\ l.surface = h[c].surface /\ l.scopes = h[c].scopes
        /\ l.expires = h[c].expires /\ l.exp = h[c].exp /\ l.at = h[c].at
    BY <2>1 DEF Login
  <2> HIDE DEF l
  <2>3. Sound(l) /\ l.tx # "none"
    BY <2>1, <2>2 DEF AuthInv, Owned, Checked, Sound
  <2>4. QED BY <1>6, <2>1, <2>2, <2>3, HandlerMoves DEF Upsert
<1>7. ASSUME NEW c \in Handlers, StoreSession(c) PROVE AuthInv'
  <2> DEFINE l == h[c]
             e == [tx |-> l.tx, surface |-> l.surface, policy |-> l.policy, org |-> l.org,
                   scopes |-> l.scopes, expires |-> l.expires, exp |-> l.exp, at |-> l.at,
                   until |-> authNow + (IF l.expires > authNow THEN l.expires - authNow ELSE 1),
                   state |-> "stored"]
  <2>1. /\ l \in Login /\ l.pc = "store" /\ sess' = Append(sess, e)
        /\ h' = [h EXCEPT ![c] = NoLogin]
        /\ UNCHANGED <<tx, row, live, ask, granted, ended, authNow>>
    BY <1>0, <1>7 DEF StoreSession, ReturnedScopes
  <2>2. l.tx \in Txs /\ tx[l.tx].state = "gone" /\ Sound(l)
    BY <2>1 DEF AuthInv, Owned, Checked, Login
  <2>3. e \in Session
    BY <1>0, <2>1, <2>2 DEF Login, Session
  <2>4. e.tx = l.tx /\ Sound(e)
    BY <2>2 DEF Sound
  <2>5. l.tx = h[c].tx
    OBVIOUS
  <2> HIDE DEF l, e
  <2>6. /\ sess' \in Seq(Session) /\ Len(sess') = Len(sess) + 1
        /\ \A i \in 1 .. Len(sess) : sess'[i] = sess[i]
        /\ sess'[Len(sess) + 1] = e
    BY <1>0, <2>1, <2>3, AppendProperties
  <2>7. /\ h' \in [Handlers -> Login]
        /\ \A d \in Handlers : h'[d] = IF d = c THEN NoLogin ELSE h[d]
    BY <1>0, <2>1, NoLoginTyped
  <2>8. \A i \in 1 .. Len(sess') : i \in 1 .. Len(sess) \/ i = Len(sess) + 1
    BY <1>0, <2>6
  <2>9. 1 .. Len(sess) \subseteq 1 .. Len(sess')
    BY <1>0, <2>6
  <2>10. Typed'
    BY <1>0, <2>1, <2>6, <2>7, <2>9 DEF Typed
  <2>11. Owned'
    <3>1. \A i \in 1 .. Len(sess) : sess[i].tx \in Txs /\ sess[i].tx # "none" /\ sess[i].tx # l.tx
      BY <2>5, SessionAt DEF AuthInv, Owned
    <3>2. \A i \in 1 .. Len(sess') : sess'[i].tx # "none" /\ tx[sess'[i].tx].state = "gone"
      BY <2>2, <2>4, <2>6, <2>8, <3>1 DEF AuthInv, Owned
    <3>3. \A d \in Handlers \ {c} : h[d].tx # l.tx
      BY <2>2, <2>5 DEF AuthInv, Owned
    <3>4. \A i \in 1 .. Len(sess'), d \in Handlers : sess'[i].tx # h'[d].tx
      BY <2>4, <2>6, <2>7, <2>8, <3>2, <3>3, NoLoginTyped DEF AuthInv, Owned
    <3>5. \A i, j \in 1 .. Len(sess') : sess'[i].tx = sess'[j].tx => i = j
      BY <2>4, <2>6, <2>8, <3>1 DEF AuthInv, Owned
    <3>6. QED BY <2>1, <2>7, <3>2, <3>4, <3>5, NoLoginTyped DEF AuthInv, Owned
  <2>12. Checked'
    <3>1. \A i \in 1 .. Len(sess') : Sound(sess'[i])
      BY <2>4, <2>6, <2>8 DEF AuthInv, Checked
    <3>2. QED BY <2>7, <3>1, NoLoginTyped DEF AuthInv, Checked, Sound
  <2>13. Remembered'
    BY <1>0, <2>1, <2>6, <2>9 DEF AuthInv, Remembered
  <2>14. QED BY <2>10, <2>11, <2>12, <2>13 DEF AuthInv
<1>8. ASSUME NEW i \in 1 .. Len(sess), Deleted(i), UNCHANGED <<tx, h, row, live, granted, authNow>>,
             ask' \in {ask, NoAsk}, ended' \in {ended, ended \cup {i}}
      PROVE  AuthInv'
  <2>1. /\ sess' \in Seq(Session) /\ Len(sess') = Len(sess)
        /\ \A k \in 1 .. Len(sess) :
              /\ sess'[k].tx = sess[k].tx /\ sess'[k].surface = sess[k].surface
              /\ sess'[k].policy = sess[k].policy /\ sess'[k].org = sess[k].org
              /\ sess'[k].scopes = sess[k].scopes /\ sess'[k].expires = sess[k].expires
              /\ sess'[k].exp = sess[k].exp /\ sess'[k].at = sess[k].at
              /\ sess'[k].state = (IF k = i THEN "deleted" ELSE sess[k].state)
    BY <1>0, <1>8, DeletedKeeps
  <2>2. Typed'
    BY <1>0, <1>8, <2>1, NoAskTyped DEF Typed
  <2>3. Owned'
    BY <1>8, <2>1 DEF AuthInv, Owned
  <2>4. Checked'
    BY <1>8, <2>1 DEF AuthInv, Checked, Sound
  <2>5. Remembered'
    <3>1. /\ granted.session # 0 => granted.session \in 1 .. Len(sess)
          /\ ask.session # 0 => ask.session \in 1 .. Len(sess)
      BY DEF AuthInv, Remembered
    <3>2. \A k \in ended' : sess'[k].state = "deleted"
      BY <1>0, <1>8, <2>1 DEF AuthInv, Remembered
    <3>3. CASE ask' = ask
      BY <1>8, <2>1, <3>1, <3>2, <3>3 DEF AuthInv, Remembered
    <3>4. CASE ask' = NoAsk
      BY <1>8, <2>1, <3>1, <3>2, <3>4, NoAskTyped DEF AuthInv, Remembered
    <3>5. QED BY <1>8, <3>3, <3>4
  <2>6. QED BY <2>2, <2>3, <2>4, <2>5 DEF AuthInv
<1>9. ASSUME NEW i \in 1 .. Len(sess), NEW s \in Surfaces, NEW p \in {1, 2}, ReadSession(i, s, p)
      PROVE  AuthInv'
  <2> DEFINE a == [session |-> i, surface |-> s, policy |-> p, late |-> i \in ended]
  <2>1. ask' = a /\ UNCHANGED <<tx, h, row, sess, live, granted, ended, authNow>> /\ InRedis(i, s)
    BY <1>9 DEF ReadSession
  <2>2. sess[i].surface = s /\ i \notin ended
    BY <2>1 DEF InRedis, AuthInv, Remembered
  <2>3. /\ a \in [session : Nat, surface : Surfaces \cup {"none"}, policy : 0 .. 2, late : BOOLEAN]
        /\ a.session = i /\ a.surface = s /\ a.late = FALSE /\ i # 0
    <3>1. i \in Nat /\ i # 0 /\ p \in 0 .. 2 /\ s \in Surfaces
      BY <1>0
    <3>2. (i \in ended) = FALSE
      BY <2>2
    <3>3. QED BY <3>1, <3>2
  <2> HIDE DEF a
  <2>4. Typed'
    BY <1>0, <2>1, <2>3 DEF Typed
  <2>5. Owned' /\ Checked'
    BY <2>1 DEF AuthInv, Owned, Checked, Sound
  <2>6. Remembered'
    BY <2>1, <2>2, <2>3 DEF AuthInv, Remembered
  <2>7. QED BY <2>4, <2>5, <2>6 DEF AuthInv
<1>10. CASE Judge
  <2>1. /\ ask' = NoAsk /\ ask # NoAsk /\ ask.session \in 1 .. Len(sess)
        /\ UNCHANGED <<tx, h, row, live, ended, authNow>>
    BY <1>10 DEF Judge, AuthInv, Remembered
  <2>2. CASE ~Valid(ask.session, ask.policy)
    <3>1. Deleted(ask.session) /\ UNCHANGED granted
      BY <1>10, <2>2 DEF Judge
    <3>2. QED BY <1>8, <2>1, <3>1
  <2>3. CASE Valid(ask.session, ask.policy)
    <3> DEFINE g == [session |-> ask.session, surface |-> ask.surface, policy |-> ask.policy, at |-> authNow]
    <3>1. granted' = g /\ UNCHANGED sess
      BY <1>10, <2>3 DEF Judge
    <3>2. g.session = ask.session /\ g.surface = ask.surface /\ g.policy = ask.policy
      OBVIOUS
    <3> HIDE DEF g
    <3>3. sess[ask.session].surface = ask.surface /\ sess[ask.session].policy = ask.policy
      BY <2>1, <2>3, <1>0 DEF Valid, OtherPolicy, AuthInv, Remembered
    <3>4. Typed'
      BY <1>0, <2>1, <3>1, <3>2, NoAskTyped DEF Typed
    <3>5. Owned' /\ Checked'
      BY <2>1, <3>1 DEF AuthInv, Owned, Checked, Sound
    <3>6. Remembered'
      BY <2>1, <3>1, <3>2, <3>3, NoAskTyped DEF AuthInv, Remembered
    <3>7. QED BY <3>4, <3>5, <3>6 DEF AuthInv
  <2>4. QED BY <2>2, <2>3
<1>11. ASSUME NEW i \in 1 .. Len(sess), NEW s \in Surfaces, NEW p \in {1, 2}, Logout(i, s, p)
       PROVE  AuthInv'
  BY <1>8, <1>11 DEF Logout
<1>12. CASE UNCHANGED authVars
  BY <1>0, <1>12, Untouched DEF authVars
<1>13. QED BY <1>1, <1>2, <1>3, <1>4, <1>5, <1>6, <1>7, <1>9, <1>10, <1>11, <1>12 DEF AuthNext

(* AuthInv holds in every reachable state. *)
THEOREM AuthSafety == AuthSpec => []AuthInv
<1>1. AuthInit => AuthInv
  <2> SUFFICES ASSUME AuthInit PROVE AuthInv
    OBVIOUS
  <2>1. <<>> \in Seq(Session) /\ Len(sess) = 0
    BY EmptySeq DEF AuthInit
  <2>2. 1 .. Len(sess) = {}
    BY <2>1
  <2>3. NoTx \in TxRow
    BY DEF NoTx, TxRow
  <2>4. Typed
    BY <2>1, <2>3, NoLoginTyped, NoAskTyped DEF AuthInit, Typed, NoGrant
  <2>5. Owned /\ Checked
    BY <2>2, NoLoginTyped DEF AuthInit, Owned, Checked, Sound
  <2>6. Remembered
    BY NoAskTyped DEF AuthInit, Remembered, NoGrant
  <2>7. QED BY <2>4, <2>5, <2>6 DEF AuthInv
<1>2. QED BY <1>1, StepAuth, PTL DEF AuthSpec

(* A set no two members of which differ has at most one.                   *)
LEMMA AtMostOne ==
    ASSUME NEW S, \A x, y \in S : x = y
    PROVE  (S = {} /\ Cardinality(S) = 0) \/ (S # {} /\ Cardinality(S) = 1)
<1>1. CASE S = {}
  <2>1. Cardinality({}) = 0
    BY FS_EmptySet
  <2>2. QED BY <1>1, <2>1
<1>2. CASE S # {}
  <2>1. PICK x : S = {x}
    BY <1>2
  <2>2. QED BY <1>2, <2>1, FS_Singleton
<1>3. QED BY <1>1, <1>2

(* A login transaction makes at most one session, however many callbacks   *)
(* race for it, and a session lets in nobody beyond its surface, its       *)
(* organization's admission, its scopes and its policy.                    *)
THEOREM SessionSafety == AuthSpec => []SessionsRight
<1>1. AuthInv => SessionsRight
  <2> SUFFICES ASSUME AuthInv PROVE SessionsRight
    OBVIOUS
  <2>1. AuthTypeOK
    <3>1. \A c \in Handlers : h[c].pc \in {"idle", "exchange", "upsert", "store"} /\ h[c].scopes \subseteq Scopes
      BY DEF AuthInv, Typed, Login
    <3>2. \A i \in 1 .. Len(sess) : sess[i].state \in {"stored", "deleted"} /\ sess[i].until \in Nat
      BY SessionAt DEF AuthInv, Session
    <3>3. ask \in [session : 0..Len(sess), surface : Surfaces \cup {"none"}, policy : 0..2, late : BOOLEAN]
      <4>1. ask.session \in 0..Len(sess)
        BY LenProperties DEF AuthInv, Typed, Remembered
      <4>2. QED BY <4>1 DEF AuthInv, Typed
    <3>4. QED BY <3>1, <3>2, <3>3 DEF AuthInv, Typed, AuthTypeOK, TxRow
  <2>2. OneSession
    <3> SUFFICES ASSUME NEW t \in Txs
                 PROVE  Cardinality({i \in 1..Len(sess) : sess[i].tx = t})
                        + Cardinality({c \in Handlers : h[c].tx = t}) <= 1
      BY DEF OneSession
    <3> DEFINE S == {i \in 1..Len(sess) : sess[i].tx = t}
               H == {c \in Handlers : h[c].tx = t}
    <3>1. /\ \A x, y \in S : x = y
          /\ \A x, y \in H : x = y
          /\ S = {} \/ H = {}
      BY DEF AuthInv, Owned
    <3>2. (S = {} /\ Cardinality(S) = 0) \/ (S # {} /\ Cardinality(S) = 1)
      BY <3>1, AtMostOne
    <3>3. (H = {} /\ Cardinality(H) = 0) \/ (H # {} /\ Cardinality(H) = 1)
      BY <3>1, AtMostOne
    <3>4. QED BY <3>1, <3>2, <3>3
  <2>3. Confined
    BY DEF AuthInv, Remembered, Checked, Sound, Confined
  <2>4. QED BY <2>1, <2>2, <2>3 DEF SessionsRight
<1>2. QED BY <1>1, AuthSafety, PTL

(* Nobody is let in at or after the end of his provider token, nor         *)
(* SessionTtl after its verification, nor by a request that asked for the  *)
(* session after the answer to its logout.                                 *)
THEOREM SessionsEnd == AuthSpec => GrantedInTime
<1> DEFINE InTime == granted' # granted =>
             LET s == sess[granted'.session] IN
             authNow < s.exp /\ authNow < s.at + SessionTtl /\ ~ask.late
<1>1. AuthInv /\ [AuthNext]_authVars => [InTime]_authVars
  <2> SUFFICES ASSUME AuthInv, AuthNext, granted' # granted PROVE InTime
    BY DEF authVars
  <2>1. Judge
    BY DEF AuthNext, AuthTick, Deploy, BeginLogin, Authorize, CancelLogin, Callback, Exchange,
           Upsert, StoreSession, ReadSession, Logout
  <2> DEFINE i == ask.session
  <2>2. i \in 1 .. Len(sess) /\ ask.late = FALSE
    BY <2>1 DEF Judge, AuthInv, Remembered
  <2>3. granted'.session = i /\ ~Expired(i)
    BY <2>1 DEF Judge, Valid
  <2>4. /\ sess[i].expires \in Nat /\ sess[i].exp \in Nat /\ sess[i].at \in Nat
        /\ authNow \in Nat /\ Sound(sess[i])
    BY <2>2, SessionAt DEF AuthInv, Typed, Session, Checked
  <2>5. QED BY <2>2, <2>3, <2>4 DEF Expired, Sound
<1>2. QED BY <1>1, AuthSafety, PTL DEF AuthSpec, GrantedInTime

HIDE AuthAssumption

-----------------------------------------------------------------------------
(***************************************************************************)
(* BrowserTabs.                                                            *)
(***************************************************************************)
(* What a tab sends and gets, when n transactions and sessions were made.  *)
Packet(n) == [step : {"idle", "asked", "entered", "answered"},
              kind : {"none", "login", "callback", "error", "me", "order", "logout"},
              to : Fronts, tx : 0 .. n, session : 0 .. n, value : 0 .. n, id : 0 .. n]
TabsTyped ==
    /\ ids \in 0 .. MaxIds /\ ids \in Nat
    /\ jar \in [Fronts -> [tx : 0 .. ids, session : 0 .. ids]]
    /\ kept \subseteq Fronts \X (1 .. ids) /\ store \subseteq Fronts \X (1 .. ids)
    /\ closed \subseteq Fronts \X (1 .. ids)
    /\ tab \in [Tabs -> [shows : 0 .. ids, at : 0 .. ids]]
    /\ net \in [Tabs -> Packet(ids)]

(* The answer of a callback that brings a session.                         *)
Brings(r) == r.step = "answered" /\ r.kind = "callback" /\ r.id # 0

(* A session is known to nobody before the answer that brings it arrives;  *)
(* the answer of a logout speaks of the session of its cookie, and that    *)
(* session is gone; a page shows the token it has sent.                    *)
Unheard(x) == Brings(net[x]) =>
    /\ \A f \in Fronts : jar[f].session # net[x].id /\ <<f, net[x].id>> \notin closed
    /\ \A y \in Tabs : net[y].session # net[x].id
    /\ \A y \in Tabs : y # x /\ Brings(net[y]) => net[y].id # net[x].id
Parting(x) == net[x].kind = "logout" /\ net[x].step \in {"entered", "answered"} /\ net[x].id # 0 =>
    /\ net[x].id = net[x].session
    /\ net[x].step = "answered" => <<net[x].to, net[x].id>> \notin store
Shown(x) == net[x].kind \in {"order", "logout"} /\ net[x].step = "asked" =>
    net[x].value = tab[x].shows
Admitted(x) == net[x].step = "entered" => net[x].kind \in {"order", "logout"}
Local(x) == Unheard(x) /\ Parting(x) /\ Shown(x) /\ Admitted(x)

TabsInv ==
    /\ TabsTyped
    /\ closed \cap store = {} /\ \A f \in Fronts : <<f, jar[f].session>> \notin closed
    /\ \A x \in Tabs : Local(x)

(* A tab's request or answer is a record of its fields, and stays well     *)
(* typed as more sessions are made.                                        *)
Reply(r, s, i) == [r EXCEPT !.step = s, !.id = i]

LEMMA PacketShape ==
    ASSUME NEW n, NEW r \in Packet(n), NEW s, NEW i
    PROVE  /\ Reply(r, s, i).step = s /\ Reply(r, s, i).id = i
           /\ Reply(r, s, i).kind = r.kind /\ Reply(r, s, i).to = r.to
           /\ Reply(r, s, i).session = r.session /\ Reply(r, s, i).value = r.value
BY DEF Packet, Reply

LEMMA PacketTyped ==
    ASSUME NEW n \in Nat, NEW r \in Packet(n), NEW s \in {"entered", "answered"},
           NEW i \in 0 .. n
    PROVE  Reply(r, s, i) \in Packet(n)
BY DEF Packet, Reply

LEMMA PacketGrows == ASSUME NEW n \in Nat PROVE Packet(n) \subseteq Packet(n + 1)
BY DEF Packet

(* The server answers a tab, or lets its request in, and makes at most one *)
(* transaction or session: what the browser has stays, and nothing is      *)
(* stored but under a new number.                                          *)
LEMMA Answers ==
    ASSUME TabsInv, NEW x \in Tabs, net[x].step \in {"asked", "entered"},
           NEW s \in {"entered", "answered"}, NEW i \in 0 .. ids + 1,
           net' = [net EXCEPT ![x] = Reply(net[x], s, i)],
           ids' \in {ids, ids + 1}, ids' \in 0 .. MaxIds,
           i \in 0 .. ids \/ ids' = ids + 1,
           kept' \subseteq kept \cup (Fronts \X {ids'}), kept' \subseteq Fronts \X (1 .. ids'),
           store' \subseteq store \cup (Fronts \X {ids + 1}), store' \subseteq Fronts \X (1 .. ids'),
           UNCHANGED <<jar, tab, closed>>,
           net[x].kind = "callback" => i \in {0, ids + 1} /\ s = "answered",
           s = "entered" => net[x].kind \in {"order", "logout"},
           net[x].kind = "logout" /\ i # 0 =>
              i = net[x].session /\ (s = "answered" => <<net[x].to, i>> \notin store')
    PROVE  TabsInv'
<1>0. TabsTyped /\ ids \in Nat /\ net[x] \in Packet(ids)
  BY DEF TabsInv, TabsTyped
<1> DEFINE r == Reply(net[x], s, i)
<1>1. /\ r.step = s /\ r.id = i /\ r.kind = net[x].kind /\ r.to = net[x].to
      /\ r.session = net[x].session /\ r.value = net[x].value
  BY <1>0, PacketShape
<1>t. (i \in 0 .. ids => r \in Packet(ids)) /\ r \in Packet(ids + 1)
  <2>1. net[x] \in Packet(ids + 1) /\ ids + 1 \in Nat
    BY <1>0, PacketGrows
  <2>2. QED BY <1>0, <2>1, PacketTyped
<1> HIDE DEF r
<1>2. net'[x] = r /\ \A y \in Tabs : y # x => net'[y] = net[y]
  BY <1>0 DEF TabsTyped, r
<1>3. TabsTyped'
  <2>1. CASE ids' = ids /\ i \in 0 .. ids
    <3>1. net' \in [Tabs -> Packet(ids)]
      BY <1>0, <1>t, <2>1 DEF TabsTyped, r
    <3>2. QED BY <1>0, <2>1, <3>1 DEF TabsTyped
  <2>2. CASE ids' = ids + 1
    <3>1. net' \in [Tabs -> Packet(ids + 1)]
      BY <1>0, <1>t, PacketGrows DEF TabsTyped, r
    <3>2. 0 .. ids \subseteq 0 .. ids' /\ 1 .. ids \subseteq 1 .. ids' /\ ids' \in Nat
      BY <1>0, <2>2
    <3>3. jar' \in [Fronts -> [tx : 0 .. ids', session : 0 .. ids']]
      BY <1>0, <3>2 DEF TabsTyped
    <3>4. tab' \in [Tabs -> [shows : 0 .. ids', at : 0 .. ids']]
      BY <1>0, <3>2 DEF TabsTyped
    <3>5. closed' \subseteq Fronts \X (1 .. ids')
      BY <1>0, <3>2 DEF TabsTyped
    <3>6. QED BY <2>2, <3>1, <3>2, <3>3, <3>4, <3>5 DEF TabsTyped
  <2>3. QED BY <2>1, <2>2
<1>4. closed' \cap store' = {}
  <2>1. \A f \in Fronts : <<f, ids + 1>> \notin closed
    BY <1>0 DEF TabsTyped
  <2>2. closed \cap store = {}
    BY DEF TabsInv
  <2>3. QED BY <2>1, <2>2
<1>5. \A f \in Fronts : <<f, jar'[f].session>> \notin closed'
  BY DEF TabsInv
<1>6. ASSUME NEW y \in Tabs PROVE net'[y].session = net[y].session /\ net[y].session \in 0 .. ids
                                  /\ net[y].id \in 0 .. ids /\ net[y].to \in Fronts
  BY <1>0, <1>1, <1>2 DEF TabsTyped, Packet
<1>7. Local(x)'
  <2>1. Unheard(x)'
    <3> SUFFICES ASSUME Brings(r) PROVE Unheard(x)'
      BY <1>2 DEF Unheard
    <3>1. i = ids + 1
      BY <1>1 DEF Brings
    <3>2. /\ \A f \in Fronts : jar[f].session \in 0 .. ids
          /\ \A f \in Fronts : <<f, i>> \notin closed
      BY <1>0, <3>1 DEF TabsTyped
    <3>3. \A f \in Fronts : jar[f].session # i
      <4> SUFFICES ASSUME NEW f \in Fronts PROVE jar[f].session # i
        OBVIOUS
      <4>1. jar[f].session \in 0 .. ids
        BY <3>2
      <4>2. QED BY <1>0, <3>1, <4>1
    <3>4. \A y \in Tabs : net'[y].session # i
      BY <1>0, <1>6, <3>1
    <3>5. \A y \in Tabs : y # x => net'[y].id # i
      BY <1>0, <1>2, <1>6, <3>1
    <3>6. QED BY <1>1, <1>2, <3>2, <3>3, <3>4, <3>5 DEF Unheard
  <2>2. Parting(x)' /\ Shown(x)' /\ Admitted(x)'
    BY <1>1, <1>2 DEF Parting, Shown, Admitted
  <2>3. QED BY <2>1, <2>2 DEF Local
<1>8. ASSUME NEW y \in Tabs, y # x PROVE Local(y)'
  <2>0. Local(y) /\ net'[y] = net[y]
    BY <1>2, <1>8 DEF TabsInv
  <2>1. Unheard(y)'
    <3> SUFFICES ASSUME Brings(net[y]) PROVE Unheard(y)'
      BY <2>0 DEF Unheard
    <3>1. Brings(r) => i # net[y].id
      BY <1>0, <1>1, <1>6 DEF Brings
    <3>2. \A z \in Tabs : z # y /\ Brings(net[z]) => net[z].id # net[y].id
      BY <2>0 DEF Local, Unheard
    <3>3. \A z \in Tabs : z # y /\ Brings(net'[z]) => net'[z].id # net[y].id
      BY <1>1, <1>2, <3>1, <3>2
    <3>4. /\ \A f \in Fronts : jar'[f].session # net'[y].id /\ <<f, net'[y].id>> \notin closed'
          /\ \A z \in Tabs : net[z].session # net'[y].id
      BY <2>0 DEF Local, Unheard
    <3>5. \A z \in Tabs : net'[z].session # net'[y].id
      BY <1>6, <3>4
    <3>6. QED BY <2>0, <3>3, <3>4, <3>5 DEF Unheard
  <2>2. Parting(y)'
    <3> SUFFICES ASSUME net[y].kind = "logout", net[y].step = "answered", net[y].id # 0,
                        <<net[y].to, net[y].id>> \notin store
                 PROVE  <<net[y].to, net[y].id>> \notin store'
      BY <2>0 DEF Local, Parting
    <3>1. net[y].id # ids + 1
      BY <1>0, <1>6
    <3>2. QED BY <3>1
  <2>3. Shown(y)' /\ Admitted(y)'
    BY <2>0 DEF Local, Shown, Admitted
  <2>4. QED BY <2>1, <2>2, <2>3 DEF Local
<1>9. QED BY <1>3, <1>4, <1>5, <1>7, <1>8 DEF TabsInv

(* A tab sends a request with the cookies of the moment.                   *)
LEMMA Sends ==
    ASSUME TabsInv, NEW x \in Tabs, NEW kind \in {"login", "callback", "error", "me", "order", "logout"},
           NEW to \in Fronts, NEW value \in 0 .. ids, Send(x, kind, to, value),
           kind \in {"order", "logout"} => value = tab[x].shows
    PROVE  TabsInv'
<1>0. TabsTyped /\ UNCHANGED <<jar, kept, store, ids, tab, closed>>
  BY DEF TabsInv, Send
<1> DEFINE r == [step |-> "asked", kind |-> kind, to |-> to, tx |-> jar[to].tx,
                 session |-> jar[to].session, value |-> value, id |-> 0]
<1>1. r \in Packet(ids) /\ r.step = "asked" /\ r.kind = kind /\ r.value = value
      /\ r.session = jar[to].session /\ r.id = 0
  BY <1>0 DEF TabsTyped, Packet
<1>2. net' = [net EXCEPT ![x] = r]
  BY DEF Send
<1> HIDE DEF r
<1>3. net'[x] = r /\ \A y \in Tabs : y # x => net'[y] = net[y]
  BY <1>0, <1>2 DEF TabsTyped
<1>4. TabsTyped'
  <2>1. net' \in [Tabs -> Packet(ids)]
    BY <1>0, <1>1, <1>2 DEF TabsTyped
  <2>2. QED BY <1>0, <2>1 DEF TabsTyped
<1>5. Local(x)'
  BY <1>0, <1>1, <1>3 DEF Local, Unheard, Parting, Shown, Admitted, Brings
<1>6. ASSUME NEW y \in Tabs, y # x PROVE Local(y)'
  <2>0. Local(y) /\ net'[y] = net[y]
    BY <1>3, <1>6 DEF TabsInv
  <2>1. Unheard(y)'
    <3> SUFFICES ASSUME Brings(net[y]) PROVE Unheard(y)'
      BY <2>0 DEF Unheard
    <3>1. /\ \A f \in Fronts : jar[f].session # net[y].id /\ <<f, net[y].id>> \notin closed
          /\ \A z \in Tabs : net[z].session # net[y].id
          /\ \A z \in Tabs : z # y /\ Brings(net[z]) => net[z].id # net[y].id
      BY <2>0 DEF Local, Unheard
    <3>2. \A z \in Tabs : net'[z].session # net[y].id
      BY <1>1, <1>3, <3>1
    <3>3. \A z \in Tabs : z # y /\ Brings(net'[z]) => net'[z].id # net[y].id
      BY <1>1, <1>3, <3>1 DEF Brings
    <3>4. QED BY <1>0, <2>0, <3>1, <3>2, <3>3 DEF Unheard
  <2>2. Parting(y)' /\ Shown(y)' /\ Admitted(y)'
    BY <1>0, <2>0 DEF Local, Parting, Shown, Admitted
  <2>3. QED BY <2>1, <2>2 DEF Local
<1>7. QED BY <1>0, <1>4, <1>5, <1>6 DEF TabsInv

(* The cookies that an answer leaves, of the surface that answers and of   *)
(* the other one.                                                          *)
Set(f, r) ==
    CASE r.kind = "callback" /\ r.id # 0 /\ f = r.to -> r.id
      [] r.kind = "logout" /\ r.id # 0 /\ f = r.to -> 0
      [] OTHER -> jar[f].session

LEMMA CookiesSet ==
    ASSUME TabsTyped, NEW r \in Packet(ids)
    PROVE  /\ Cookies(r) \in [Fronts -> [tx : 0 .. ids, session : 0 .. ids]]
           /\ \A f \in Fronts : Cookies(r)[f].session = Set(f, r)
<1>1. ids \in Nat /\ jar \in [Fronts -> [tx : 0 .. ids, session : 0 .. ids]]
  BY DEF TabsTyped
<1>2. r.id \in 0 .. ids /\ r.to \in Fronts
  BY DEF Packet
<1>3. CASE r.kind = "login" /\ r.id # 0
  BY <1>1, <1>2, <1>3 DEF Cookies, Set
<1>4. CASE r.kind = "callback" /\ r.id # 0
  <2>1. Cookies(r) = [jar EXCEPT ![r.to] = [tx |-> 0, session |-> r.id]]
    BY <1>4 DEF Cookies
  <2>2. QED BY <1>1, <1>2, <1>4, <2>1 DEF Set
<1>5. CASE r.kind = "callback" /\ r.id = 0
  BY <1>1, <1>2, <1>5 DEF Cookies, Set
<1>6. CASE r.kind = "error" /\ r.to = "web"
  BY <1>1, <1>2, <1>6 DEF Cookies, Set
<1>7. CASE r.kind = "logout" /\ r.id # 0
  BY <1>1, <1>2, <1>7 DEF Cookies, Set, LoggedOut
<1>8. CASE /\ ~(r.kind = "login" /\ r.id # 0) /\ r.kind # "callback"
           /\ ~(r.kind = "error" /\ r.to = "web") /\ ~(r.kind = "logout" /\ r.id # 0)
  BY <1>1, <1>2, <1>8 DEF Cookies, Set
<1>9. QED BY <1>3, <1>4, <1>5, <1>6, <1>7, <1>8

LEMMA PageTyped ==
    ASSUME TabsTyped, NEW x \in Tabs, NEW r \in Packet(ids)
    PROVE  Page(x, r) \in [shows : 0 .. ids, at : 0 .. ids]
<1>1. ids \in Nat /\ tab[x] \in [shows : 0 .. ids, at : 0 .. ids] /\ r.id \in 0 .. ids
  BY DEF TabsTyped, Packet
<1>2. QED BY <1>1 DEF Page, NewPage

(* The browser takes an answer.                                            *)
LEMMA Receives ==
    ASSUME TabsInv, NEW x \in Tabs, Receive(x)
    PROVE  TabsInv'
<1> DEFINE r == net[x]
           gone == r.kind = "logout" /\ r.id # 0
           brought == r.kind = "callback" /\ r.id # 0
<1>0. /\ TabsTyped /\ r \in Packet(ids) /\ r.step = "answered" /\ UNCHANGED <<kept, store, ids>>
      /\ jar' = Cookies(r) /\ tab' = [tab EXCEPT ![x] = Page(x, r)]
      /\ closed' = IF gone THEN closed \cup {<<r.to, r.id>>} ELSE closed
      /\ net' = [net EXCEPT ![x] = Quiet]
  BY DEF TabsInv, TabsTyped, Receive
<1>1. r.id \in 0 .. ids /\ r.to \in Fronts /\ ids \in Nat
  BY <1>0 DEF Packet, TabsTyped
<1>2. /\ Quiet \in Packet(ids) /\ Quiet.step = "idle" /\ Quiet.kind = "none" /\ Quiet.session = 0
  BY <1>1 DEF Quiet, Packet, Fronts
<1>3. net'[x] = Quiet /\ \A y \in Tabs : y # x => net'[y] = net[y] /\ tab'[y] = tab[y]
  BY <1>0 DEF TabsTyped
<1>4. \A f \in Fronts : jar'[f].session = Set(f, r)
  BY <1>0, CookiesSet
<1>5. /\ closed \cap store = {} /\ \A f \in Fronts : <<f, jar[f].session>> \notin closed
      /\ Local(x)
  BY DEF TabsInv
<1>6. gone => r.id = r.session /\ <<r.to, r.id>> \notin store
  BY <1>0, <1>5 DEF Local, Parting
<1>7. brought => /\ \A f \in Fronts : jar[f].session # r.id /\ <<f, r.id>> \notin closed
                 /\ \A y \in Tabs : net[y].session # r.id
  BY <1>0, <1>5 DEF Local, Unheard, Brings
<1>8. TabsTyped'
  <2>1. jar' \in [Fronts -> [tx : 0 .. ids, session : 0 .. ids]]
    BY <1>0, CookiesSet
  <2>2. tab' \in [Tabs -> [shows : 0 .. ids, at : 0 .. ids]]
    BY <1>0, PageTyped DEF TabsTyped
  <2>3. net' \in [Tabs -> Packet(ids)]
    BY <1>0, <1>2 DEF TabsTyped
  <2>4. gone => <<r.to, r.id>> \in Fronts \X (1 .. ids)
    BY <1>1
  <2>5. closed' \subseteq Fronts \X (1 .. ids)
    BY <1>0, <2>4 DEF TabsTyped
  <2>6. QED BY <1>0, <2>1, <2>2, <2>3, <2>5 DEF TabsTyped
<1>9. closed' \cap store' = {}
  BY <1>0, <1>5, <1>6
<1>10. \A f \in Fronts : <<f, jar'[f].session>> \notin closed'
  <2> SUFFICES ASSUME NEW f \in Fronts PROVE <<f, jar'[f].session>> \notin closed'
    OBVIOUS
  <2>1. \A g \in Fronts : <<g, 0>> \notin closed
    BY <1>0, <1>1 DEF TabsTyped
  <2>2. CASE gone
    <3>1. jar'[f].session = IF f = r.to THEN 0 ELSE jar[f].session
      BY <1>4, <2>2 DEF Set
    <3>2. QED BY <1>0, <1>5, <2>1, <2>2, <3>1
  <2>3. CASE ~gone
    <3>1. jar'[f].session = IF brought /\ f = r.to THEN r.id ELSE jar[f].session
      BY <1>4, <2>3 DEF Set
    <3>2. QED BY <1>0, <1>5, <1>7, <2>3, <3>1
  <2>4. QED BY <2>2, <2>3
<1>11. Local(x)'
  BY <1>2, <1>3 DEF Local, Unheard, Parting, Shown, Admitted, Brings
<1>12. ASSUME NEW y \in Tabs, y # x PROVE Local(y)'
  <2>0. Local(y) /\ net'[y] = net[y] /\ tab'[y] = tab[y]
    BY <1>3, <1>12 DEF TabsInv
  <2>1. Unheard(y)'
    <3> SUFFICES ASSUME Brings(net[y]) PROVE Unheard(y)'
      BY <2>0 DEF Unheard
    <3>1. /\ \A f \in Fronts : jar[f].session # net[y].id /\ <<f, net[y].id>> \notin closed
          /\ \A z \in Tabs : net[z].session # net[y].id
          /\ \A z \in Tabs : z # y /\ Brings(net[z]) => net[z].id # net[y].id
          /\ net[y].id # 0
      BY <2>0 DEF Local, Unheard, Brings
    <3>2. brought => r.id # net[y].id
      BY <1>0, <1>12, <3>1 DEF Brings
    <3>3. gone => r.id # net[y].id
      BY <1>6, <3>1
    <3>4. \A f \in Fronts : jar'[f].session # net[y].id
      BY <1>4, <3>1, <3>2 DEF Set
    <3>5. \A f \in Fronts : <<f, net[y].id>> \notin closed'
      BY <1>0, <3>1, <3>3
    <3>6. \A z \in Tabs : net'[z].session # net[y].id
      BY <1>2, <1>3, <3>1
    <3>7. \A z \in Tabs : z # y /\ Brings(net'[z]) => net'[z].id # net[y].id
      BY <1>2, <1>3, <3>1 DEF Brings
    <3>8. QED BY <2>0, <3>4, <3>5, <3>6, <3>7 DEF Unheard
  <2>2. Parting(y)' /\ Shown(y)' /\ Admitted(y)'
    BY <1>0, <2>0 DEF Local, Parting, Shown, Admitted
  <2>3. QED BY <2>1, <2>2 DEF Local
<1>13. QED BY <1>8, <1>9, <1>10, <1>11, <1>12 DEF TabsInv

(* A cookie passes, or Redis forgets.                                      *)
LEMMA Drops ==
    ASSUME TabsInv, NEW f \in Fronts, DropCookie(f)
    PROVE  TabsInv'
<1>0. TabsTyped /\ UNCHANGED <<kept, store, ids, tab, net, closed>>
  BY DEF TabsInv, DropCookie
<1>1. /\ jar' \in [Fronts -> [tx : 0 .. ids, session : 0 .. ids]]
      /\ \A g \in Fronts : jar'[g].session \in {0, jar[g].session}
  BY <1>0 DEF TabsTyped, DropCookie
<1>2. TabsTyped'
  BY <1>0, <1>1 DEF TabsTyped
<1>3. \A g \in Fronts : <<g, 0>> \notin closed
  BY <1>0 DEF TabsTyped
<1>4. ASSUME NEW x \in Tabs PROVE Local(x)'
  <2>1. Local(x)
    BY DEF TabsInv
  <2>2. Unheard(x)'
    BY <1>0, <1>1, <2>1 DEF Local, Unheard, Brings
  <2>3. QED BY <1>0, <2>1, <2>2 DEF Local, Parting, Shown, Admitted
<1>5. QED BY <1>0, <1>1, <1>2, <1>3, <1>4 DEF TabsInv

LEMMA Expires ==
    ASSUME TabsInv, NEW k, Expire(k)
    PROVE  TabsInv'
<1>0. TabsTyped /\ UNCHANGED <<jar, ids, tab, net, closed>> /\ kept' \subseteq kept /\ store' \subseteq store
  BY DEF TabsInv, Expire
<1>1. TabsTyped'
  BY <1>0 DEF TabsTyped
<1>2. ASSUME NEW x \in Tabs PROVE Local(x)'
  <2>1. Local(x)
    BY DEF TabsInv
  <2>2. Unheard(x)' /\ Shown(x)' /\ Admitted(x)'
    BY <1>0, <2>1 DEF Local, Unheard, Shown, Admitted
  <2>3. Parting(x)'
    BY <1>0, <2>1 DEF Local, Parting
  <2>4. QED BY <2>2, <2>3 DEF Local
<1>3. QED BY <1>0, <1>1, <1>2 DEF TabsInv

(* A request that fails leaves its tab without one; what it deleted stays  *)
(* deleted.                                                                *)
LEMMA Fails ==
    ASSUME TabsInv, NEW x \in Tabs, Fail(x)
    PROVE  TabsInv'
<1>0. /\ TabsTyped /\ ids \in Nat /\ UNCHANGED <<jar, ids, closed>>
      /\ net' = [net EXCEPT ![x] = Quiet] /\ tab' \in {tab, [tab EXCEPT ![x] = NewPage]}
      /\ kept' \subseteq kept /\ store' \subseteq store
  BY DEF TabsInv, TabsTyped, Fail, EndSession
<1>1. /\ Quiet \in Packet(ids) /\ Quiet.step = "idle" /\ Quiet.kind = "none" /\ Quiet.session = 0
  BY <1>0 DEF Quiet, Packet, Fronts
<1>2. net'[x] = Quiet /\ \A y \in Tabs : y # x => net'[y] = net[y] /\ tab'[y] = tab[y]
  BY <1>0 DEF TabsTyped
<1>3. TabsTyped'
  <2>1. NewPage \in [shows : 0 .. ids, at : 0 .. ids]
    BY <1>0 DEF NewPage
  <2>2. net' \in [Tabs -> Packet(ids)] /\ tab' \in [Tabs -> [shows : 0 .. ids, at : 0 .. ids]]
    BY <1>0, <1>1, <2>1 DEF TabsTyped
  <2>3. QED BY <1>0, <2>2 DEF TabsTyped
<1>4. Local(x)'
  BY <1>1, <1>2 DEF Local, Unheard, Parting, Shown, Admitted, Brings
<1>5. ASSUME NEW y \in Tabs, y # x PROVE Local(y)'
  <2>0. Local(y) /\ net'[y] = net[y] /\ tab'[y] = tab[y]
    BY <1>2, <1>5 DEF TabsInv
  <2>1. Unheard(y)'
    <3> SUFFICES ASSUME Brings(net[y]) PROVE Unheard(y)'
      BY <2>0 DEF Unheard
    <3>1. /\ \A f \in Fronts : jar[f].session # net[y].id /\ <<f, net[y].id>> \notin closed
          /\ \A z \in Tabs : net[z].session # net[y].id
          /\ \A z \in Tabs : z # y /\ Brings(net[z]) => net[z].id # net[y].id
          /\ net[y].id # 0
      BY <2>0 DEF Local, Unheard, Brings
    <3>2. \A z \in Tabs : net'[z].session # net[y].id
      BY <1>1, <1>2, <3>1
    <3>3. \A z \in Tabs : z # y /\ Brings(net'[z]) => net'[z].id # net[y].id
      BY <1>1, <1>2, <3>1 DEF Brings
    <3>4. QED BY <1>0, <2>0, <3>1, <3>2, <3>3 DEF Unheard
  <2>2. Parting(y)' /\ Shown(y)' /\ Admitted(y)'
    BY <1>0, <2>0 DEF Local, Parting, Shown, Admitted
  <2>3. QED BY <2>1, <2>2 DEF Local
<1>6. QED BY <1>0, <1>3, <1>4, <1>5 DEF TabsInv

(* One lemma for each route of the server.                                 *)
LEMMA Moves ==
    ASSUME NEW x \in Tabs, NEW s, NEW i, TabNow(x, s, i)
    PROVE  net' = [net EXCEPT ![x] = Reply(net[x], s, i)]
BY DEF TabNow, Reply

LEMMA Routes ==
    ASSUME TabsInv, NEW x \in Tabs,
           LoginRoute(x) \/ CallbackRoute(x) \/ ErrorRoute(x) \/ MeRoute(x) \/ Enter(x) \/ Act(x)
    PROVE  TabsInv'
<1>0. /\ TabsTyped /\ ids \in Nat /\ ids \in 0 .. MaxIds /\ net[x] \in Packet(ids)
      /\ kept \subseteq Fronts \X (1 .. ids) /\ store \subseteq Fronts \X (1 .. ids)
      /\ Parting(x) /\ Admitted(x)
  BY DEF TabsInv, TabsTyped, Local
<1>1. net[x].session \in 0 .. ids /\ net[x].id \in 0 .. ids /\ net[x].to \in Fronts
  BY <1>0 DEF Packet
<1>2. 0 \in 0 .. ids /\ 0 .. ids \subseteq 0 .. ids + 1 /\ ids + 1 \in 0 .. ids + 1
  BY <1>0, TabsAssumption
<1>3. ids < MaxIds /\ ids' = ids + 1 =>
        /\ ids' \in 0 .. MaxIds /\ 1 .. ids \subseteq 1 .. ids' /\ ids + 1 \in 1 .. ids'
  BY <1>0, TabsAssumption
<1>4. CASE LoginRoute(x)
  <2>0. net[x].step = "asked" /\ net[x].kind = "login" /\ UNCHANGED <<jar, store, tab, closed>>
    BY <1>4 DEF LoginRoute, Asked
  <2>1. CASE ids < MaxIds /\ ids' = ids + 1 /\ AnswerWith(x, ids + 1)
             /\ kept' = kept \cup {<<net[x].to, ids + 1>>}
    <3>1. net' = [net EXCEPT ![x] = Reply(net[x], "answered", ids + 1)]
      BY <2>1, Moves DEF AnswerWith
    <3>2. kept' \subseteq Fronts \X (1 .. ids') /\ kept' \subseteq kept \cup (Fronts \X {ids'})
          /\ store' \subseteq Fronts \X (1 .. ids')
      BY <1>0, <1>1, <1>3, <2>0, <2>1
    <3>3. QED BY <1>2, <1>3, <2>0, <2>1, <3>1, <3>2, Answers
  <2>2. CASE UNCHANGED <<ids, kept>> /\ AnswerWith(x, 0)
    <3>1. net' = [net EXCEPT ![x] = Reply(net[x], "answered", 0)]
      BY <2>2, Moves DEF AnswerWith
    <3>2. QED BY <1>0, <1>2, <2>0, <2>2, <3>1, Answers
  <2>3. QED BY <1>4, <2>1, <2>2 DEF LoginRoute
<1>5. CASE CallbackRoute(x)
  <2>0. /\ net[x].step = "asked" /\ net[x].kind = "callback" /\ UNCHANGED <<jar, tab, closed>>
        /\ kept' \subseteq kept
    BY <1>5 DEF CallbackRoute, Asked
  <2>1. CASE ids < MaxIds /\ ids' = ids + 1 /\ AnswerWith(x, ids + 1)
             /\ store' = store \cup {<<net[x].to, ids + 1>>}
    <3>1. net' = [net EXCEPT ![x] = Reply(net[x], "answered", ids + 1)]
      BY <2>1, Moves DEF AnswerWith
    <3>2. store' \subseteq Fronts \X (1 .. ids') /\ store' \subseteq store \cup (Fronts \X {ids + 1})
          /\ kept' \subseteq Fronts \X (1 .. ids')
      BY <1>0, <1>1, <1>3, <2>0, <2>1
    <3>3. QED BY <1>2, <1>3, <2>0, <2>1, <3>1, <3>2, Answers
  <2>2. CASE UNCHANGED <<ids, store>> /\ AnswerWith(x, 0)
    <3>1. net' = [net EXCEPT ![x] = Reply(net[x], "answered", 0)]
      BY <2>2, Moves DEF AnswerWith
    <3>2. QED BY <1>0, <1>2, <2>0, <2>2, <3>1, Answers
  <2>3. QED BY <1>5, <2>1, <2>2 DEF CallbackRoute
<1>6. CASE ErrorRoute(x)
  <2>0. /\ net[x].step = "asked" /\ net[x].kind = "error" /\ UNCHANGED <<jar, store, ids, tab, closed>>
        /\ kept' \subseteq kept /\ AnswerWith(x, 0)
    BY <1>6 DEF ErrorRoute, Asked
  <2>1. net' = [net EXCEPT ![x] = Reply(net[x], "answered", 0)]
    BY <2>0, Moves DEF AnswerWith
  <2>2. QED BY <1>0, <1>2, <2>0, <2>1, Answers
<1>7. CASE MeRoute(x)
  <2> DEFINE i == IF HasSession(net[x]) THEN net[x].session ELSE 0
  <2>0. net[x].step = "asked" /\ net[x].kind = "me" /\ UNCHANGED <<jar, kept, store, ids, tab, closed>>
        /\ i \in 0 .. ids
    BY <1>1, <1>2, <1>7 DEF MeRoute, Asked
  <2>1. net' = [net EXCEPT ![x] = Reply(net[x], "answered", i)]
    BY <1>7, Moves DEF MeRoute, AnswerWith
  <2> HIDE DEF i
  <2>2. QED BY <1>0, <1>2, <2>0, <2>1, Answers
<1>8. CASE Enter(x)
  <2>0. net[x].step = "asked" /\ net[x].kind \in {"order", "logout"}
        /\ UNCHANGED <<jar, kept, store, ids, tab, closed>>
    BY <1>8 DEF Enter, Asked
  <2>1. CASE TabNow(x, "entered", net[x].session)
    <3>1. net' = [net EXCEPT ![x] = Reply(net[x], "entered", net[x].session)]
      BY <2>1, Moves
    <3>2. QED BY <1>0, <1>1, <1>2, <2>0, <3>1, Answers
  <2>2. CASE AnswerWith(x, 0)
    <3>1. net' = [net EXCEPT ![x] = Reply(net[x], "answered", 0)]
      BY <2>2, Moves DEF AnswerWith
    <3>2. QED BY <1>0, <1>2, <2>0, <3>1, Answers
  <2>3. QED BY <1>8, <2>1, <2>2 DEF Enter
<1>9. CASE Act(x)
  <2>0. /\ net[x].step = "entered" /\ net[x].kind \in {"order", "logout"}
        /\ UNCHANGED <<jar, kept, ids, tab, closed>> /\ store' = EndSession(net[x])
    BY <1>0, <1>9 DEF Act, Admitted
  <2>1. net' = [net EXCEPT ![x] = Reply(net[x], "answered", net[x].id)]
    BY <1>9, Moves DEF Act, AnswerWith
  <2>2. store' \subseteq store
    BY <2>0 DEF EndSession
  <2>3. net[x].kind = "logout" /\ net[x].id # 0 =>
          net[x].id = net[x].session /\ <<net[x].to, net[x].id>> \notin store'
    BY <1>0, <2>0 DEF EndSession, Parting
  <2>4. QED BY <1>0, <1>1, <1>2, <2>0, <2>1, <2>2, <2>3, Answers
<1>10. QED BY <1>4, <1>5, <1>6, <1>7, <1>8, <1>9

LEMMA TabsStarts == TabsInit => TabsInv
<1> SUFFICES ASSUME TabsInit PROVE TabsInv
  OBVIOUS
<1>1. Quiet \in Packet(0) /\ Quiet.step = "idle" /\ Quiet.kind = "none"
  BY DEF Quiet, Packet, Fronts
<1>2. ids = 0 /\ kept = {} /\ store = {} /\ closed = {}
  BY DEF TabsInit
<1>3. \A x \in Tabs : net[x] = Quiet
  BY DEF TabsInit
<1>4. TabsTyped
  <2>1. net \in [Tabs -> Packet(0)]
    BY <1>1 DEF TabsInit
  <2>2. jar \in [Fronts -> [tx : 0 .. 0, session : 0 .. 0]] /\ tab \in [Tabs -> [shows : 0 .. 0, at : 0 .. 0]]
    BY DEF TabsInit, NewPage
  <2>3. 0 \in 0 .. MaxIds
    BY TabsAssumption
  <2>4. QED BY <1>2, <2>1, <2>2, <2>3 DEF TabsTyped
<1>5. \A x \in Tabs : Local(x)
  BY <1>1, <1>3 DEF Local, Unheard, Parting, Shown, Admitted, Brings
<1>6. QED BY <1>2, <1>4, <1>5 DEF TabsInv

LEMMA TabsSteps == TabsInv /\ [TabsNext]_tabsVars => TabsInv'
<1> SUFFICES ASSUME TabsInv, [TabsNext]_tabsVars PROVE TabsInv'
  OBVIOUS
<1>1. ASSUME NEW x \in Tabs, TabStep(x) PROVE TabsInv'
  <2>0. tab[x].shows \in 0 .. ids /\ tab[x].at \in 0 .. ids /\ ids \in Nat
    BY DEF TabsInv, TabsTyped
  <2>1. FrontOf[x] \in Fronts /\ 0 \in 0 .. ids
    BY <2>0, TabsAssumption
  <2>2. CASE Visit(x)
    BY <2>1, <2>2, Sends DEF Visit
  <2>3. CASE ComeBack(x)
    BY <2>0, <2>1, <2>3, Sends DEF ComeBack
  <2>4. CASE Order(x)
    BY <2>0, <2>4, Sends DEF Order
  <2>5. CASE Receive(x)
    BY <2>5, Receives
  <2>6. QED BY <1>1, <2>2, <2>3, <2>4, <2>5, Routes, Fails DEF TabStep
<1>2. ASSUME NEW f \in Fronts, DropCookie(f) \/ \E i \in 1 .. ids : Expire(<<f, i>>) PROVE TabsInv'
  BY <1>2, Drops, Expires
<1>3. CASE UNCHANGED tabsVars
  <2>1. TabsTyped'
    BY <1>3 DEF tabsVars, TabsInv, TabsTyped
  <2>2. \A x \in Tabs : Local(x)'
    BY <1>3 DEF tabsVars, TabsInv, Local, Unheard, Parting, Shown, Admitted, Brings
  <2>3. QED BY <1>3, <2>1, <2>2 DEF tabsVars, TabsInv
<1>4. QED BY <1>1, <1>2, <1>3 DEF TabsNext

LEMMA CookiesKept == TabsInv => CookiesRight
<1> SUFFICES ASSUME TabsInv PROVE CookiesRight
  OBVIOUS
<1>1. TabsTypeOK
  BY DEF TabsInv, TabsTyped, TabsTypeOK, Packet
<1>2. LoggedOutStays
  BY DEF TabsInv, LoggedOutStays
<1>3. QED BY <1>1, <1>2 DEF CookiesRight

(* Whatever the tabs send, in whatever order the answers arrive and        *)
(* whatever Redis forgets: the browser never keeps a session it was told   *)
(* is logged out, and Redis has none.                                      *)
THEOREM LogoutKept == TabsSpec => []CookiesRight
BY TabsStarts, TabsSteps, CookiesKept, PTL DEF TabsSpec

(* A step that lets a request in is that of its tab's route.               *)
LEMMA Enters ==
    ASSUME TabsInv, TabsNext, NEW x \in Tabs, net[x].step # "entered", net'[x].step = "entered"
    PROVE  Enter(x)
<1>0. net \in [Tabs -> Packet(ids)]
  BY DEF TabsInv, TabsTyped
<1>1. ASSUME NEW y \in Tabs, NEW r, net' = [net EXCEPT ![y] = r], r.step # "entered" PROVE FALSE
  BY <1>0, <1>1
<1>2. ASSUME NEW y \in Tabs, NEW i, AnswerWith(y, i) PROVE FALSE
  <2>1. net[y] \in Packet(ids) /\ net' = [net EXCEPT ![y] = Reply(net[y], "answered", i)]
    BY <1>0, <1>2, Moves DEF AnswerWith
  <2>2. Reply(net[y], "answered", i).step = "answered"
    BY <2>1, PacketShape
  <2>3. QED BY <1>1, <2>1, <2>2
<1>3. ASSUME NEW y \in Tabs, NEW kind, NEW to, NEW value, Send(y, kind, to, value) PROVE FALSE
  BY <1>1, <1>3 DEF Send
<1>4. ASSUME NEW y \in Tabs, Receive(y) \/ Fail(y) PROVE FALSE
  BY <1>1, <1>4 DEF Receive, Fail, Quiet
<1>5. ASSUME NEW y \in Tabs, Enter(y) PROVE y = x
  BY <1>0, <1>5 DEF Enter, AnswerWith, TabNow
<1>6. ASSUME NEW y \in Tabs, TabStep(y) PROVE Enter(x)
  BY <1>2, <1>3, <1>4, <1>5, <1>6 DEF TabStep, Visit, ComeBack, Order, LoginRoute, CallbackRoute,
                                      ErrorRoute, MeRoute, Act
<1>7. ASSUME NEW f \in Fronts, DropCookie(f) \/ \E i \in 1 .. ids : Expire(<<f, i>>) PROVE FALSE
  BY <1>7 DEF DropCookie, Expire
<1>8. QED BY <1>6, <1>7 DEF TabsNext

(* What a page orders is done in the session it shows, of its own surface  *)
(* and not logged out, whoever signed in or out in another tab meanwhile.  *)
THEOREM OrdersAsShown == TabsSpec => ActsAsShown
<1>1. ASSUME TabsInv, [TabsNext]_tabsVars, NEW x \in Tabs, net[x].step # "entered", net'[x].step = "entered"
      PROVE  LET s == <<FrontOf[x], tab[x].shows>> IN
             /\ net'[x].id = tab[x].shows /\ net'[x].to = FrontOf[x]
             /\ s \in store /\ s \notin closed
  <2>1. TabsNext
    BY <1>1 DEF tabsVars
  <2>2. Enter(x)
    BY <1>1, <2>1, Enters
  <2>3. /\ net \in [Tabs -> Packet(ids)] /\ net[x] \in Packet(ids)
        /\ Shown(x) /\ closed \cap store = {}
    BY <1>1 DEF TabsInv, TabsTyped, Local
  <2>4. ASSUME AnswerWith(x, 0) PROVE FALSE
    <3>1. net' = [net EXCEPT ![x] = Reply(net[x], "answered", 0)]
      BY <2>4, Moves DEF AnswerWith
    <3>2. net'[x] = Reply(net[x], "answered", 0) /\ Reply(net[x], "answered", 0).step = "answered"
      BY <2>3, <3>1, PacketShape
    <3>3. QED BY <1>1, <3>2
  <2>5. HasSession(net[x]) /\ CsrfValid(x) /\ TabNow(x, "entered", net[x].session)
    BY <2>2, <2>4 DEF Enter
  <2>6. net' = [net EXCEPT ![x] = Reply(net[x], "entered", net[x].session)]
    BY <2>5, Moves
  <2>7. net'[x] = Reply(net[x], "entered", net[x].session)
    BY <2>3, <2>6
  <2>8. net'[x].id = net[x].session /\ net'[x].to = net[x].to
    BY <2>3, <2>7, PacketShape
  <2>9. FrontOf[x] = net[x].to /\ net[x].value = net[x].session /\ net[x].value = tab[x].shows
    BY <2>2, <2>3, <2>5 DEF CsrfValid, Enter, Asked, Shown
  <2>10. QED BY <2>3, <2>5, <2>8, <2>9 DEF HasSession
<1>2. TabsInv /\ [TabsNext]_tabsVars =>
        \A x \in Tabs : net[x].step # "entered" /\ net'[x].step = "entered" =>
          LET s == <<FrontOf[x], tab[x].shows>> IN
          /\ net'[x].id = tab[x].shows /\ net'[x].to = FrontOf[x]
          /\ s \in store /\ s \notin closed
  BY <1>1
<1>3. QED BY <1>2, TabsStarts, TabsSteps, PTL DEF TabsSpec, ActsAsShown
=============================================================================
