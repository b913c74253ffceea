--------------------------- MODULE AccountsProofs ---------------------------
(* Proofs about Accounts, for any requests, keys, sessions and tokens.       *)
EXTENDS Accounts, TLAPS

\* What a request holds of the tables: a key it is about to store was found fit, and the
\* rows it has loaded are still there.
HeldInv ==
    \A r \in Req :
        /\ At(r, "connect", "load") \/ At(r, "connect", "write") => req[r].key \in vetted
        /\ At(r, "connect", "write") /\ req[r].seen # NoRow => vault \in VaultRows
        /\ req[r] \in TestReq \cup DisconnectReq => vault \in VaultRows
        /\ req[r] \in SessionReq => sess[req[r].sess] \in SessRows
        /\ req[r] \in ResetReq => /\ token[req[r].token] \in TokenRows
                                  /\ \A s \in req[r].listed : sess[s] \in SessRows

IInv == TypeOK /\ HeldInv /\ VaultKeysWereFit

-----------------------------------------------------------------------------
(* Rows and requests.                                                      *)

\* The step a request stands at tells which record it is.
LEMMA RequestShape ==
    ASSUME TypeOK, NEW r \in Req
    PROVE  /\ req[r] \in Requests
           /\ req[r].at = "validate" => req[r] \in ConnectReq \cup TestReq
           /\ At(r, "connect", "load") \/ At(r, "connect", "write") => req[r] \in ConnectReq
           /\ At(r, "test", "write") => req[r] \in TestReq
           /\ At(r, "disconnect", "write") => req[r] \in DisconnectReq
           /\ At(r, "refresh", "user") \/ At(r, "refresh", "write") => req[r] \in SessionReq
           /\ At(r, "logout", "user") => req[r] \in SessionReq
           /\ At(r, "reset", "list") \/ At(r, "reset", "write") => req[r] \in ResetReq
           /\ req[r].at = "code" => req[r] \in CodeReq
           /\ At(r, "register", "write") => req[r] \in RegisterReq
           /\ req[r].at = "store" => req[r] \in ToggleReq
<1>1. req[r] \in Requests
  BY DEF TypeOK
<1>2. QED
  BY <1>1 DEF Requests, Idle, At, ConnectReq, TestReq, DisconnectReq, LoginReq, SessionReq,
              ResetReq, CodeReq, RegisterReq, ToggleReq

\* A request's step leaves the others where they are.
LEMMA StepIsLocal ==
    ASSUME TypeOK, NEW r \in Req, NEW rec \in Requests, Step(r, rec)
    PROVE  /\ req' \in [Req -> Requests]
           /\ req'[r] = rec
           /\ \A q \in Req \ {r} : req'[q] = req[q]
BY DEF TypeOK, Step

\* An UPDATE of the vault's row keeps the columns it does not name.
LEMMA VaultUpdate ==
    ASSUME NEW row \in VaultRows, NEW seen \in VaultRows, NEW new \in VaultRows, NEW always
    PROVE  /\ Update(row, seen, new, always) \in VaultRows
           /\ Update(row, seen, new, always).key =
                  IF new.key # seen.key \/ "key" \in always THEN new.key ELSE row.key
<1>1. DOMAIN row = {"key", "withdraw", "status"}
  BY DEF VaultRows
<1>2. QED
  BY <1>1 DEF VaultRows, Update

\* The same of a session: it is never brought back.
LEMMA SessionUpdate ==
    ASSUME NEW row \in SessRows, NEW seen \in SessRows, NEW new \in SessRows,
           new.revoked = seen.revoked \/ new.revoked = TRUE
    PROVE  /\ Update(row, seen, new, {}) \in SessRows
           /\ row.revoked => Update(row, seen, new, {}).revoked
<1>1. DOMAIN row = {"revoked"}
  BY DEF SessRows
<1>2. Update(row, seen, new, {}).revoked = IF new.revoked # seen.revoked THEN new.revoked ELSE row.revoked
  BY <1>1 DEF Update
<1>3. Update(row, seen, new, {}) \in SessRows
  BY <1>1 DEF SessRows, Update
<1>4. QED
  BY <1>2, <1>3, Zenon

\* And of the account.
LEMMA UserUpdate ==
    ASSUME NEW row \in UserRows, NEW seen \in UserRows, NEW new \in UserRows
    PROVE  Update(row, seen, new, {}) \in UserRows
<1>1. DOMAIN row = {"status", "secret", "totp"}
  BY DEF UserRows
<1>2. QED
  BY <1>1 DEF UserRows, Update

-----------------------------------------------------------------------------
(* What the actions do to the rows and the requests.                       *)

LEMMA InitOK == Init => IInv
<1> SUFFICES ASSUME Init PROVE IInv
  OBVIOUS
<1>1. Idle \in Requests
  BY DEF Requests
<1>2. TypeOK
  BY <1>1, SeedAssumption DEF Init, TypeOK, UserRows
<1>3. HeldInv
  BY DEF Init, HeldInv, Idle, At, TestReq, DisconnectReq, SessionReq, ResetReq
<1>4. VaultKeysWereFit
  BY DEF Init, VaultKeysWereFit
<1>5. QED
  BY <1>2, <1>3, <1>4 DEF IInv

\* An action of r that leaves the tables alone keeps what the others hold.
LEMMA HeldByOthers ==
    ASSUME TypeOK, HeldInv, NEW r \in Req, NEW rec \in Requests, Step(r, rec),
           vetted \subseteq vetted', vault \in VaultRows => vault' \in VaultRows,
           \A s \in Sess : sess[s] \in SessRows => sess'[s] \in SessRows,
           \A t \in Token : token[t] \in TokenRows => token'[t] \in TokenRows,
           /\ rec.at \in {"load", "write"} /\ rec.op = "connect" => rec.key \in vetted'
           /\ rec.at = "write" /\ rec.op = "connect" /\ rec.seen # NoRow => vault' \in VaultRows
           /\ rec \in TestReq \cup DisconnectReq => vault' \in VaultRows
           /\ rec \in SessionReq => sess'[rec.sess] \in SessRows
           /\ rec \in ResetReq => /\ token'[rec.token] \in TokenRows
                                  /\ \A s \in rec.listed : sess'[s] \in SessRows
    PROVE  HeldInv'
<1> SUFFICES ASSUME NEW q \in Req
             PROVE  /\ At(q, "connect", "load")' \/ At(q, "connect", "write")' => req'[q].key \in vetted'
                    /\ At(q, "connect", "write")' /\ req'[q].seen # NoRow => vault' \in VaultRows
                    /\ req'[q] \in TestReq \cup DisconnectReq => vault' \in VaultRows
                    /\ req'[q] \in SessionReq => sess'[req'[q].sess] \in SessRows
                    /\ req'[q] \in ResetReq => /\ token'[req'[q].token] \in TokenRows
                                               /\ \A s \in req'[q].listed : sess'[s] \in SessRows
  BY DEF HeldInv
<1>1. CASE q = r
  BY <1>1, StepIsLocal DEF At
<1>2. CASE q # r
  <2>1. req'[q] = req[q]
    BY <1>2, StepIsLocal
  <2>2. req[q] \in SessionReq => req[q].sess \in Sess
    BY DEF SessionReq
  <2>3. req[q] \in ResetReq => req[q].token \in Token /\ req[q].listed \subseteq Sess
    BY DEF ResetReq
  <2>4. QED
    BY <2>1, <2>2, <2>3 DEF HeldInv, At
<1>3. QED
  BY <1>1, <1>2

LEMMA IdleShape ==
    /\ Idle \in Requests /\ Idle.at = "idle"
    /\ Idle \notin TestReq \cup DisconnectReq /\ Idle \notin SessionReq /\ Idle \notin ResetReq
BY DEF Idle, Requests, TestReq, DisconnectReq, SessionReq, ResetReq

\* A step of a request that writes no row.
LEMMA LookOnly ==
    ASSUME IInv, NEW r \in Req, NEW rec \in Requests, Step(r, rec),
           UNCHANGED <<topic, keys, auth, switch>>,
           /\ rec.at \in {"load", "write"} /\ rec.op = "connect" => rec.key \in vetted
           /\ rec.at = "write" /\ rec.op = "connect" /\ rec.seen # NoRow => vault \in VaultRows
           /\ rec \in TestReq \cup DisconnectReq => vault \in VaultRows
           /\ rec \in SessionReq => sess[rec.sess] \in SessRows
           /\ rec \in ResetReq => /\ token[rec.token] \in TokenRows
                                  /\ \A s \in rec.listed : sess[s] \in SessRows
    PROVE  IInv'
<1> USE DEF IInv, keys, auth, switch
<1>1. TypeOK'
  BY StepIsLocal DEF TypeOK
<1>2. HeldInv'
  BY HeldByOthers
<1>3. VaultKeysWereFit'
  BY DEF VaultKeysWereFit
<1>4. QED
  BY <1>1, <1>2, <1>3

\* A request that ends, whatever it wrote.
LEMMA LastStep ==
    ASSUME IInv, NEW r \in Req, Ends(r),
           vetted \subseteq vetted', vault \in VaultRows => vault' \in VaultRows,
           \A s \in Sess : sess[s] \in SessRows => sess'[s] \in SessRows,
           \A t \in Token : token[t] \in TokenRows => token'[t] \in TokenRows
    PROVE  HeldInv' /\ req' \in [Req -> Requests]
BY IdleShape, HeldByOthers, StepIsLocal DEF IInv, Ends

-----------------------------------------------------------------------------
(* The vault.                                                              *)

\* What the commits of the vault write: a connect stores its own key, a test none, and a
\* disconnect wipes the one that is there or leaves it.
LEMMA ConnectWrites ==
    ASSUME IInv, NEW r \in Req, CommitConnect(r)
    PROVE  /\ req[r].key \in Keys /\ req[r].key \in vetted
           /\ vault' = vault \/ (vault' \in VaultRows /\ vault'.key = req[r].key)
<1> USE DEF IInv
<1> DEFINE new == [key |-> req[r].key, status |-> "CONNECTED", withdraw |-> FALSE]
<1>1. req[r] \in ConnectReq /\ req[r].key \in Keys /\ req[r].key \in vetted
  BY RequestShape DEF CommitConnect, HeldInv, ConnectReq
<1>2. new \in VaultRows /\ new.key = req[r].key
  BY <1>1 DEF VaultRows
<1>3. vault' = IF req[r].seen # NoRow THEN Update(vault, req[r].seen, new, {"key"})
               ELSE IF vault = NoRow THEN new ELSE vault
  BY DEF CommitConnect
<1>4. CASE req[r].seen # NoRow
  <2>1. vault \in VaultRows /\ req[r].seen \in VaultRows
    BY <1>1, <1>4 DEF CommitConnect, HeldInv, ConnectReq
  <2>2. QED
    BY <1>1, <1>2, <1>3, <1>4, <2>1, VaultUpdate
<1>5. CASE req[r].seen = NoRow
  BY <1>1, <1>2, <1>3, <1>5
<1>6. QED
  BY <1>4, <1>5

LEMMA TestWrites ==
    ASSUME IInv, NEW r \in Req, CommitTest(r)
    PROVE  vault \in VaultRows /\ vault' \in VaultRows /\ vault'.key = vault.key
<1> USE DEF IInv
<1> DEFINE new == [req[r].seen EXCEPT
                      !.status = IF req[r].verdict = "fit" THEN "CONNECTED" ELSE "ERROR",
                      !.withdraw = req[r].verdict = "withdraw"]
<1>1. req[r] \in TestReq /\ vault \in VaultRows
  BY RequestShape DEF CommitTest, HeldInv
<1>2. req[r].seen \in VaultRows
  BY <1>1 DEF TestReq
<1>3. new \in VaultRows /\ new.key = req[r].seen.key
  BY <1>2 DEF VaultRows
<1>4. vault' = Update(vault, req[r].seen, new, {})
  BY DEF CommitTest
<1> HIDE DEF new
<1>5. QED
  BY <1>1, <1>2, <1>3, <1>4, VaultUpdate

LEMMA DisconnectWrites ==
    ASSUME IInv, NEW r \in Req, CommitDisconnect(r)
    PROVE  vault \in VaultRows /\ vault' \in VaultRows /\ vault'.key \in {NoKey, vault.key}
<1> USE DEF IInv
<1> DEFINE new == [key |-> NoKey, status |-> "DISCONNECTED", withdraw |-> FALSE]
<1>1. req[r] \in DisconnectReq /\ vault \in VaultRows
  BY RequestShape DEF CommitDisconnect, HeldInv
<1>2. req[r].seen \in VaultRows
  BY <1>1 DEF DisconnectReq
<1>3. new \in VaultRows /\ new.key = NoKey
  BY DEF VaultRows
<1>4. vault' = Update(vault, req[r].seen, new, {})
  BY DEF CommitDisconnect
<1> HIDE DEF new
<1>5. QED
  BY <1>1, <1>2, <1>3, <1>4, VaultUpdate

LEMMA VaultOK == ASSUME IInv, Vault PROVE IInv'
<1> USE DEF IInv
<1>1. CASE \E k \in Keys, p \in {"fit", "withdraw"} : Regrant(k, p)
  BY <1>1 DEF Regrant, auth, switch, TypeOK, HeldInv, At, VaultKeysWereFit
<1>2. ASSUME NEW r \in Req, NEW k \in Keys, Connect(r, k) PROVE IInv'
  <2> DEFINE rec == [op |-> "connect", key |-> k, seen |-> NoRow, verdict |-> "none", at |-> "validate"]
  <2>1. rec \in ConnectReq /\ rec \notin TestReq \cup DisconnectReq \cup SessionReq \cup ResetReq
    BY DEF ConnectReq, TestReq, DisconnectReq, SessionReq, ResetReq
  <2>2. QED
    BY <1>2, <2>1, LookOnly DEF Connect, Requests
<1>3. ASSUME NEW r \in Req, TestConnection(r) PROVE IInv'
  <2> DEFINE rec == [op |-> "test", key |-> vault.key, seen |-> vault, verdict |-> "none", at |-> "validate"]
  <2>1. vault \in VaultRows /\ vault.key \in Keys
    BY <1>3 DEF TestConnection, TypeOK, VaultRows
  <2>2. rec \in TestReq /\ rec \notin SessionReq \cup ResetReq
    BY <2>1 DEF TestReq, SessionReq, ResetReq
  <2>3. QED
    BY <1>3, <2>1, <2>2, LookOnly DEF TestConnection, Requests
<1>4. ASSUME NEW r \in Req, Validate(r) PROVE IInv'
  <2>1. PICK verdict \in {perm[req[r].key], "unavailable"} :
          /\ vetted' = IF verdict = "fit" THEN vetted \cup {req[r].key} ELSE vetted
          /\ Step(r, IF req[r].op = "test" THEN [req[r] EXCEPT !.at = "write", !.verdict = verdict]
                     ELSE IF Accepted(verdict) THEN [req[r] EXCEPT !.at = "load"] ELSE Idle)
    BY <1>4 DEF Validate
  <2>2. req[r] \in ConnectReq \cup TestReq
    BY <1>4, RequestShape DEF Validate
  <2>3. req[r].key \in Keys /\ vetted' \subseteq Keys /\ vetted \subseteq vetted'
    BY <2>1, <2>2 DEF ConnectReq, TestReq, TypeOK
  <2>4. UNCHANGED <<topic, perm, vault, user, proven, sess, token, people, live, unruly>>
    BY <1>4 DEF Validate, auth, switch
  <2>5. VaultKeysWereFit'
    BY <2>3, <2>4 DEF VaultKeysWereFit
  <2>6. CASE req[r].op = "test"
    <3> DEFINE rec == [req[r] EXCEPT !.at = "write", !.verdict = verdict]
    <3>1. req[r] \in TestReq /\ verdict \in Verdicts
      BY <2>1, <2>2, <2>3, <2>6 DEF ConnectReq, TypeOK, Verdicts
    <3>2. rec \in TestReq /\ rec \notin SessionReq \cup ResetReq /\ rec.op = "test"
      BY <3>1 DEF TestReq, SessionReq, ResetReq
    <3>3. vault' \in VaultRows
      BY <2>4, <3>1 DEF HeldInv
    <3>4. Step(r, rec) /\ rec \in Requests
      BY <2>1, <2>6, <3>2 DEF Requests
    <3>5. HeldInv'
      BY <2>3, <2>4, <3>2, <3>3, <3>4, HeldByOthers
    <3>6. TypeOK'
      BY <2>3, <2>4, <3>4, StepIsLocal DEF TypeOK
    <3>7. QED
      BY <2>5, <3>5, <3>6
  <2>7. CASE req[r].op # "test" /\ Accepted(verdict)
    <3> DEFINE rec == [req[r] EXCEPT !.at = "load"]
    <3>1. req[r] \in ConnectReq
      BY <2>2, <2>7 DEF TestReq
    <3>2. /\ rec \in ConnectReq /\ rec.key = req[r].key /\ rec.at = "load"
          /\ rec \notin TestReq \cup DisconnectReq \cup SessionReq \cup ResetReq
      BY <3>1 DEF ConnectReq, TestReq, DisconnectReq, SessionReq, ResetReq
    <3>3. rec.key \in vetted'
      BY <2>1, <2>7, <3>2 DEF Accepted
    <3>4. Step(r, rec) /\ rec \in Requests
      BY <2>1, <2>7, <3>2 DEF Requests
    <3>5. HeldInv'
      BY <2>3, <2>4, <3>2, <3>3, <3>4, HeldByOthers
    <3>6. TypeOK'
      BY <2>3, <2>4, <3>4, StepIsLocal DEF TypeOK
    <3>7. QED
      BY <2>5, <3>5, <3>6
  <2>8. CASE req[r].op # "test" /\ ~Accepted(verdict)
    <3>1. Ends(r)
      BY <2>1, <2>8 DEF Ends
    <3>2. HeldInv' /\ req' \in [Req -> Requests]
      BY <2>3, <2>4, <3>1, LastStep
    <3>3. TypeOK'
      BY <2>3, <2>4, <3>2 DEF TypeOK
    <3>4. QED
      BY <2>5, <3>2, <3>3
  <2>9. QED
    BY <2>6, <2>7, <2>8
<1>5. ASSUME NEW r \in Req, LoadConnect(r) PROVE IInv'
  <2> DEFINE rec == [req[r] EXCEPT !.at = "write", !.seen = vault]
  <2>1. req[r] \in ConnectReq /\ req[r].key \in vetted
    BY <1>5, RequestShape DEF LoadConnect, HeldInv
  <2>2. vault \in VaultRows \cup {NoRow}
    BY DEF TypeOK
  <2>3. /\ rec \in ConnectReq /\ rec.key \in vetted /\ rec.seen = vault
        /\ rec \notin TestReq \cup DisconnectReq \cup SessionReq \cup ResetReq
    BY <2>1, <2>2 DEF ConnectReq, TestReq, DisconnectReq, SessionReq, ResetReq
  <2>4. QED
    BY <1>5, <2>2, <2>3, LookOnly DEF LoadConnect, Requests
<1>6. ASSUME NEW r \in Req, CommitConnect(r) PROVE IInv'
  <2>1. /\ Ends(r)
        /\ UNCHANGED <<topic, perm, vetted, user, proven, sess, token, people, live, unruly>>
    BY <1>6 DEF CommitConnect, auth, switch
  <2>2. HeldInv' /\ req' \in [Req -> Requests]
    BY <1>6, <2>1, ConnectWrites, LastStep
  <2>3. TypeOK'
    BY <1>6, <2>1, <2>2, ConnectWrites DEF TypeOK
  <2>4. VaultKeysWereFit'
    BY <1>6, <2>1, ConnectWrites, NoRowAssumption DEF VaultKeysWereFit
  <2>5. QED
    BY <2>2, <2>3, <2>4
<1>7. ASSUME NEW r \in Req, CommitTest(r) PROVE IInv'
  <2>1. /\ Ends(r)
        /\ UNCHANGED <<topic, perm, vetted, user, proven, sess, token, people, live, unruly>>
    BY <1>7 DEF CommitTest, auth, switch
  <2>2. HeldInv' /\ req' \in [Req -> Requests]
    BY <1>7, <2>1, TestWrites, LastStep
  <2>3. TypeOK'
    BY <1>7, <2>1, <2>2, TestWrites DEF TypeOK
  <2>4. VaultKeysWereFit'
    BY <1>7, <2>1, TestWrites, NoRowAssumption DEF VaultKeysWereFit
  <2>5. QED
    BY <2>2, <2>3, <2>4
<1>8. ASSUME NEW r \in Req, Disconnect(r) PROVE IInv'
  <2> DEFINE rec == [op |-> "disconnect", seen |-> vault, at |-> "write"]
  <2>1. vault \in VaultRows
    BY <1>8 DEF Disconnect, TypeOK
  <2>2. rec \in DisconnectReq /\ rec \notin TestReq \cup SessionReq \cup ResetReq
    BY <2>1 DEF DisconnectReq, TestReq, SessionReq, ResetReq
  <2>3. QED
    BY <1>8, <2>1, <2>2, LookOnly DEF Disconnect, Requests
<1>9. ASSUME NEW r \in Req, CommitDisconnect(r) PROVE IInv'
  <2>1. /\ Ends(r)
        /\ UNCHANGED <<topic, perm, vetted, user, proven, sess, token, people, live, unruly>>
    BY <1>9 DEF CommitDisconnect, auth, switch
  <2>2. HeldInv' /\ req' \in [Req -> Requests]
    BY <1>9, <2>1, DisconnectWrites, LastStep
  <2>3. TypeOK'
    BY <1>9, <2>1, <2>2, DisconnectWrites DEF TypeOK
  <2>4. VaultKeysWereFit'
    BY <1>9, <2>1, DisconnectWrites, NoRowAssumption DEF VaultKeysWereFit
  <2>5. QED
    BY <2>2, <2>3, <2>4
<1>10. QED
  BY <1>1, <1>2, <1>3, <1>4, <1>5, <1>6, <1>7, <1>8, <1>9 DEF Vault
-----------------------------------------------------------------------------
(* Sessions, codes, registrations and the switch.                          *)

LEMMA SessionsOK == ASSUME IInv, Sessions PROVE IInv'
<1> USE DEF IInv
<1>1. CASE \E t \in Token : RequestPasswordReset(t)
  <2>1. PICK t \in Token : RequestPasswordReset(t)
    BY <1>1
  <2>2. /\ token' = [token EXCEPT ![t] = [used |-> FALSE]]
        /\ UNCHANGED <<topic, perm, vetted, vault, user, proven, sess, people, live, unruly, req>>
    BY <2>1 DEF RequestPasswordReset, keys, switch
  <2>3. TypeOK'
    BY <2>2 DEF TypeOK, TokenRows
  <2>4. \A u \in Token : token[u] \in TokenRows => token'[u] \in TokenRows
    BY <2>2 DEF TypeOK, TokenRows
  <2>5. \A r \in Req : req[r] \in ResetReq => req[r].token \in Token
    BY DEF ResetReq
  <2>6. HeldInv'
    BY <2>2, <2>4, <2>5 DEF HeldInv, At
  <2>7. QED
    BY <2>2, <2>3, <2>6 DEF VaultKeysWereFit
<1>2. CASE \E status \in {"ACTIVE", "SUSPENDED"} : SetUserStatus(status)
  <2>1. PICK status \in {"ACTIVE", "SUSPENDED"} : SetUserStatus(status)
    BY <1>2
  <2>2. /\ user' = [user EXCEPT !.status = status]
        /\ UNCHANGED <<topic, perm, vetted, vault, proven, sess, token, people, live, unruly, req>>
    BY <2>1 DEF SetUserStatus, keys, switch
  <2>3. user' \in UserRows
    BY <2>2 DEF TypeOK, UserRows
  <2>4. QED
    BY <2>2, <2>3 DEF TypeOK, HeldInv, At, VaultKeysWereFit
<1>3. ASSUME NEW r \in Req, Authenticate(r) PROVE IInv'
  <2> DEFINE rec == [op |-> "login", at |-> "write"]
  <2>1. rec \in LoginReq /\ rec \notin TestReq \cup DisconnectReq \cup SessionReq \cup ResetReq
    BY DEF LoginReq, TestReq, DisconnectReq, SessionReq, ResetReq
  <2>2. QED
    BY <1>3, <2>1, LookOnly DEF Authenticate, Requests
<1>4. ASSUME NEW r \in Req, CommitLogin(r) PROVE IInv'
  <2>1. PICK s \in Sess : sess' = [sess EXCEPT ![s] = [revoked |-> FALSE]]
    BY <1>4 DEF CommitLogin
  <2>2. Ends(r) /\ UNCHANGED <<topic, perm, vetted, vault, user, proven, token, people, live, unruly>>
    BY <1>4 DEF CommitLogin, keys, switch
  <2>3. sess' \in [Sess -> SessRows \cup {NoRow}] /\ \A q \in Sess : sess[q] \in SessRows => sess'[q] \in SessRows
    BY <2>1 DEF TypeOK, SessRows
  <2>4. HeldInv' /\ req' \in [Req -> Requests]
    BY <2>2, <2>3, LastStep
  <2>5. QED
    BY <2>2, <2>3, <2>4 DEF TypeOK, VaultKeysWereFit
<1>5. ASSUME NEW r \in Req, NEW s \in Sess, NEW op \in {"refresh", "logout"}, OpenSession(r, op, s)
      PROVE  IInv'
  <2> DEFINE rec == [op |-> op, sess |-> s, seen |-> sess[s], at |-> "user"]
  <2>1. sess[s] \in SessRows
    BY <1>5 DEF OpenSession, TypeOK
  <2>2. rec \in SessionReq /\ rec \notin TestReq \cup DisconnectReq \cup ResetReq
    BY <2>1 DEF SessionReq, TestReq, DisconnectReq, ResetReq
  <2>3. QED
    BY <1>5, <2>1, <2>2, LookOnly DEF OpenSession, Requests
<1>6. ASSUME NEW r \in Req, RefreshUser(r) PROVE IInv'
  <2> DEFINE rec == [req[r] EXCEPT !.at = "write"]
  <2>1. req[r] \in SessionReq /\ sess[req[r].sess] \in SessRows
    BY <1>6, RequestShape DEF RefreshUser, HeldInv
  <2>2. /\ rec \in SessionReq /\ rec.sess = req[r].sess /\ rec.op = req[r].op
        /\ rec \notin TestReq \cup DisconnectReq \cup ResetReq
    BY <2>1 DEF SessionReq, TestReq, DisconnectReq, ResetReq
  <2>3. rec.op # "connect"
    BY <2>1, <2>2 DEF SessionReq
  <2>4. CASE user.status = "SUSPENDED"
    BY <1>6, <2>4, LookOnly, IdleShape DEF RefreshUser
  <2>5. CASE user.status # "SUSPENDED"
    <3>1. Step(r, rec) /\ UNCHANGED <<topic, keys, auth, switch>>
      BY <1>6, <2>5 DEF RefreshUser
    <3>2. rec \in Requests
      BY <2>2 DEF Requests
    <3> HIDE DEF rec
    <3>3. QED
      BY <2>1, <2>2, <2>3, <3>1, <3>2, LookOnly
  <2>6. QED
    BY <2>4, <2>5
<1>7. ASSUME NEW r \in Req, CommitRefresh(r) \/ Logout(r) PROVE IInv'
  <2>1. req[r] \in SessionReq /\ req[r].sess \in Sess /\ req[r].seen \in SessRows
    BY <1>7, RequestShape DEF CommitRefresh, Logout, SessionReq
  <2>2. PICK new \in SessRows :
          /\ sess' = [sess EXCEPT ![req[r].sess] = Update(@, req[r].seen, new, {})]
          /\ new.revoked = req[r].seen.revoked \/ new.revoked = TRUE
    <3>1. CASE CommitRefresh(r)
      BY <2>1, <3>1 DEF CommitRefresh
    <3>2. CASE Logout(r)
      <4> DEFINE n == [req[r].seen EXCEPT !.revoked = TRUE]
      <4>1. n \in SessRows /\ n.revoked = TRUE
        BY <2>1 DEF SessRows
      <4>2. QED
        BY <3>2, <4>1 DEF Logout
    <3>3. QED
      BY <1>7, <3>1, <3>2
  <2>3. Ends(r) /\ UNCHANGED <<topic, perm, vetted, vault, user, proven, token, people, live, unruly>>
    BY <1>7 DEF CommitRefresh, Logout, keys, switch
  <2>4. sess[req[r].sess] \in SessRows
    BY <2>1 DEF HeldInv
  <2>5. Update(sess[req[r].sess], req[r].seen, new, {}) \in SessRows
    BY <2>1, <2>2, <2>4, SessionUpdate
  <2>6. sess' \in [Sess -> SessRows \cup {NoRow}] /\ \A q \in Sess : sess[q] \in SessRows => sess'[q] \in SessRows
    BY <2>1, <2>2, <2>5 DEF TypeOK
  <2>7. HeldInv' /\ req' \in [Req -> Requests]
    BY <2>3, <2>6, LastStep
  <2>8. QED
    BY <2>3, <2>6, <2>7 DEF TypeOK, VaultKeysWereFit
<1>8. ASSUME NEW r \in Req, NEW t \in Token, ResetPassword(r, t) PROVE IInv'
  <2> DEFINE rec == [op |-> "reset", token |-> t, listed |-> {}, at |-> "list"]
  <2>1. token[t] \in TokenRows
    BY <1>8 DEF ResetPassword, TypeOK
  <2>2. rec \in ResetReq /\ rec \notin TestReq \cup DisconnectReq \cup SessionReq
    BY DEF SessionReq, TestReq, DisconnectReq, ResetReq
  <2>3. QED
    BY <1>8, <2>1, <2>2, LookOnly DEF ResetPassword, Requests
<1>9. ASSUME NEW r \in Req, ListSessions(r) PROVE IInv'
  <2> DEFINE rec == [req[r] EXCEPT !.at = "write", !.listed = {s \in Sess : Live(s)}]
  <2>1. req[r] \in ResetReq /\ token[req[r].token] \in TokenRows
    BY <1>9, RequestShape DEF ListSessions, HeldInv
  <2>2. /\ rec \in ResetReq /\ rec.token = req[r].token /\ rec.listed = {s \in Sess : Live(s)}
        /\ rec \notin TestReq \cup DisconnectReq \cup SessionReq /\ rec.op = "reset"
    BY <2>1 DEF SessionReq, TestReq, DisconnectReq, ResetReq
  <2>3. \A s \in rec.listed : sess[s] \in SessRows
    BY <2>2 DEF Live, TypeOK
  <2>4. Step(r, rec) /\ UNCHANGED <<topic, keys, auth, switch>>
    BY <1>9 DEF ListSessions
  <2>5. rec \in Requests
    BY <2>2 DEF Requests
  <2> HIDE DEF rec
  <2>6. QED
    BY <2>1, <2>2, <2>3, <2>4, <2>5, LookOnly
<1>10. ASSUME NEW r \in Req, CommitReset(r) PROVE IInv'
  <2>1. /\ req[r] \in ResetReq /\ req[r].token \in Token /\ req[r].listed \subseteq Sess
        /\ token[req[r].token] \in TokenRows /\ \A s \in req[r].listed : sess[s] \in SessRows
    BY <1>10, RequestShape DEF CommitReset, HeldInv, ResetReq
  <2>2. /\ token' = [token EXCEPT ![req[r].token].used = TRUE]
        /\ sess' = [s \in Sess |-> IF s \in req[r].listed THEN [sess[s] EXCEPT !.revoked = TRUE]
                                   ELSE sess[s]]
        /\ Ends(r) /\ UNCHANGED <<topic, perm, vetted, vault, user, proven, people, live, unruly>>
    BY <1>10 DEF CommitReset, keys, switch
  <2>3. \A s \in SessRows : [s EXCEPT !.revoked = TRUE] \in SessRows
    BY DEF SessRows
  <2>4. \A s \in TokenRows : [s EXCEPT !.used = TRUE] \in TokenRows
    BY DEF TokenRows
  <2>5. sess' \in [Sess -> SessRows \cup {NoRow}] /\ \A q \in Sess : sess[q] \in SessRows => sess'[q] \in SessRows
    BY <2>1, <2>2, <2>3 DEF TypeOK
  <2>6. token' \in [Token -> TokenRows \cup {NoRow}] /\ \A t \in Token : token[t] \in TokenRows => token'[t] \in TokenRows
    BY <2>1, <2>2, <2>4 DEF TypeOK
  <2>7. HeldInv' /\ req' \in [Req -> Requests]
    BY <2>2, <2>5, <2>6, LastStep
  <2>8. QED
    BY <2>2, <2>5, <2>6, <2>7 DEF TypeOK, VaultKeysWereFit
<1>11. QED
  BY <1>1, <1>2, <1>3, <1>4, <1>5, <1>6, <1>7, <1>8, <1>9, <1>10 DEF Sessions
LEMMA CodesOK == ASSUME IInv, Codes PROVE IInv'
<1> USE DEF IInv
<1>1. ASSUME NEW r \in Req, NEW op \in {"begin", "confirm", "disable"}, LoadCodes(r, op)
      PROVE  IInv'
  <2> DEFINE rec == [op |-> op, seen |-> user, at |-> "code"]
  <2>1. rec \in CodeReq /\ rec \notin TestReq \cup DisconnectReq \cup SessionReq \cup ResetReq
    BY DEF TypeOK, CodeReq, SessionReq, TestReq, DisconnectReq, ResetReq
  <2>2. QED
    BY <1>1, <2>1, LookOnly DEF LoadCodes, Requests
<1>2. ASSUME NEW r \in Req, CommitCodes(r) PROVE IInv'
  <2>1. /\ req[r] \in CodeReq /\ req[r].seen \in UserRows /\ user \in UserRows
        /\ req[r].op \in {"begin", "confirm", "disable"}
    BY <1>2, RequestShape DEF CommitCodes, CodeReq, TypeOK
  <2>2. PICK fresh \in Secret \ {req[r].seen.secret} :
          user' = Update(user, req[r].seen, Coded(req[r].op, req[r].seen, fresh), {})
    BY <1>2 DEF CommitCodes
  <2>3. Coded(req[r].op, req[r].seen, fresh) \in UserRows
    BY <2>1 DEF Coded, UserRows
  <2>4. user' \in UserRows
    BY <2>1, <2>2, <2>3, UserUpdate
  <2>5. /\ proven' \subseteq Secret \cup {0} /\ Ends(r)
        /\ UNCHANGED <<topic, perm, vetted, vault, sess, token, people, live, unruly>>
    BY <1>2, <2>1 DEF CommitCodes, keys, switch, TypeOK, UserRows
  <2>6. HeldInv' /\ req' \in [Req -> Requests]
    BY <2>5, LastStep
  <2>7. QED
    BY <2>4, <2>5, <2>6 DEF TypeOK, VaultKeysWereFit
<1>3. QED
  BY <1>1, <1>2 DEF Codes

LEMMA RegistrationOK == ASSUME IInv, Registration PROVE IInv'
<1> USE DEF IInv
<1>1. ASSUME NEW r \in Req, NEW role \in {"ADMIN", "FREE"}, Joins(r, role) PROVE IInv'
  <2> DEFINE rec == [op |-> "register", at |-> "write", role |-> role]
  <2>1. rec \in RegisterReq /\ rec \notin TestReq \cup DisconnectReq \cup SessionReq \cup ResetReq
    BY DEF RegisterReq, SessionReq, TestReq, DisconnectReq, ResetReq
  <2>2. QED
    BY <1>1, <2>1, LookOnly DEF Joins, Requests
<1>2. ASSUME NEW r \in Req, CommitRegister(r) PROVE IInv'
  <2>1. req[r].role \in {"ADMIN", "FREE"}
    BY <1>2, RequestShape DEF CommitRegister, RegisterReq
  <2>2. /\ people' = [people EXCEPT ![req[r].role] = @ + 1] /\ Ends(r)
        /\ UNCHANGED <<topic, perm, vetted, vault, user, proven, sess, token, live, unruly>>
    BY <1>2 DEF CommitRegister, keys, switch
  <2>3. people' \in [{"ADMIN", "FREE"} -> Nat]
    BY <2>1, <2>2 DEF TypeOK
  <2>4. HeldInv' /\ req' \in [Req -> Requests]
    BY <2>2, LastStep
  <2>5. QED
    BY <2>2, <2>3, <2>4 DEF TypeOK, VaultKeysWereFit
<1>3. Role \in {"ADMIN", "FREE"}
  BY DEF Role
<1>4. QED
  BY <1>1, <1>2, <1>3 DEF Registration, Register, LoginGoogle

LEMMA SwitchOK == ASSUME IInv, Switch PROVE IInv'
<1> USE DEF IInv
<1>1. ASSUME NEW r \in Req, NEW on \in BOOLEAN, SetLiveTrading(r, on) PROVE IInv'
  <2> DEFINE rec == [op |-> "toggle", on |-> on, at |-> "store"]
  <2>1. /\ rec \in ToggleReq /\ rec.op = "toggle"
        /\ rec \notin TestReq \cup DisconnectReq \cup SessionReq \cup ResetReq
    BY DEF ToggleReq, SessionReq, TestReq, DisconnectReq, ResetReq
  <2>2. /\ live' = [live EXCEPT !.memory = on] /\ unruly' = (unruly \/ Toggling # {})
        /\ Step(r, rec)
        /\ UNCHANGED <<topic, perm, vetted, vault, user, proven, sess, token, people>>
    BY <1>1 DEF SetLiveTrading, keys, auth
  <2>3. live' \in [memory : BOOLEAN, stored : BOOLEAN \cup {NoRow}]
    BY <2>2 DEF TypeOK
  <2>4. unruly' \in BOOLEAN
    BY <2>2, Zenon DEF TypeOK
  <2>5. rec \in Requests
    BY <2>1 DEF Requests
  <2>6. HeldInv' /\ req' \in [Req -> Requests]
    <3> HIDE DEF rec
    <3>1. QED
      BY <2>1, <2>2, <2>5, HeldByOthers, StepIsLocal
  <2>7. QED
    BY <2>2, <2>3, <2>4, <2>6 DEF TypeOK, VaultKeysWereFit
<1>2. ASSUME NEW r \in Req, StoreSetting(r) PROVE IInv'
  <2>1. Ends(r) /\ UNCHANGED <<topic, perm, vetted, vault, user, proven, sess, token, people>>
    BY <1>2 DEF StoreSetting, keys, auth
  <2>2. req[r].on \in BOOLEAN
    BY <1>2, RequestShape DEF StoreSetting, At, ToggleReq
  <2>3. live' \in [memory : BOOLEAN, stored : BOOLEAN \cup {NoRow}] /\ unruly' \in BOOLEAN
    BY <1>2, <2>2 DEF StoreSetting, TypeOK
  <2>4. HeldInv' /\ req' \in [Req -> Requests]
    BY <2>1, LastStep
  <2>5. QED
    BY <2>1, <2>3, <2>4 DEF TypeOK, VaultKeysWereFit
<1>3. QED
  BY <1>1, <1>2 DEF Switch

LEMMA RestartOK == ASSUME IInv, Restart PROVE IInv'
<1> USE DEF IInv
<1>1. /\ live' = [live EXCEPT !.memory = IF live.stored = NoRow THEN Seed ELSE live.stored]
      /\ unruly' = FALSE /\ req' = [r \in Req |-> Idle]
      /\ UNCHANGED <<topic, perm, vetted, vault, user, proven, sess, token, people>>
  BY DEF Restart, keys, auth
<1>2. live' \in [memory : BOOLEAN, stored : BOOLEAN \cup {NoRow}]
  BY <1>1, SeedAssumption DEF TypeOK
<1>3. HeldInv'
  BY <1>1, IdleShape DEF HeldInv, At
<1>4. req' \in [Req -> Requests]
  BY <1>1, IdleShape
<1>5. QED
  BY <1>1, <1>2, <1>3, <1>4 DEF TypeOK, VaultKeysWereFit

\* The invariant is inductive.
LEMMA NextOK == ASSUME IInv, [Next]_vars PROVE IInv'
<1>1. CASE UNCHANGED vars
  BY <1>1 DEF vars, keys, auth, switch, IInv, TypeOK, HeldInv, At, VaultKeysWereFit
<1>2. QED
  BY <1>1, VaultOK, SessionsOK, CodesOK, RegistrationOK, SwitchOK, RestartOK DEF Next

LEMMA Inductive == Spec => []IInv
BY InitOK, NextOK, PTL DEF Spec

-----------------------------------------------------------------------------
(* The theorems.                                                           *)

\* The rows and the requests keep their form.
THEOREM TypeCorrect == Spec => []TypeOK
<1>1. IInv => TypeOK
  BY DEF IInv
<1>2. QED
  BY <1>1, Inductive, PTL

\* Every key in the vault was found fit by a validation of that key, however many
\* requests connect and test at a time.
THEOREM OnlyFitKeys == Spec => []VaultKeysWereFit
<1>1. IInv => VaultKeysWereFit
  BY DEF IInv
<1>2. QED
  BY <1>1, Inductive, PTL
\* Only a connect, and of that very key, puts a key into a row of the vault: no test does,
\* whatever it had loaded.
THEOREM KeysComeByConnect == Spec => OnlyConnectBringsKey
<1> DEFINE Brought == vault # NoRow /\ vault'.key # vault.key /\ vault'.key # NoKey
                        => \E r \in Req : At(r, "connect", "write") /\ req[r].key = vault'.key
<1>1. ASSUME IInv, [Next]_vars PROVE [Brought]_vars
  <2>1. ASSUME NEW r \in Req, CommitConnect(r) PROVE Brought
    BY <1>1, <2>1, ConnectWrites DEF CommitConnect
  <2>2. ASSUME NEW r \in Req, CommitTest(r) PROVE Brought
    BY <1>1, <2>2, TestWrites
  <2>3. ASSUME NEW r \in Req, CommitDisconnect(r) PROVE Brought
    BY <1>1, <2>3, DisconnectWrites
  <2>4. ASSUME Vault PROVE Brought \/ UNCHANGED vault
    BY <2>1, <2>2, <2>3, <2>4
       DEF Vault, Regrant, Connect, TestConnection, Validate, LoadConnect, Disconnect, keys
  <2>5. ASSUME Sessions \/ Codes \/ Registration \/ Switch \/ Restart PROVE UNCHANGED vault
    BY <2>5
       DEF Sessions, RequestPasswordReset, SetUserStatus, Authenticate, CommitLogin, OpenSession,
           RefreshUser, CommitRefresh, Logout, ResetPassword, ListSessions, CommitReset,
           Codes, LoadCodes, CommitCodes, Registration, Register, LoginGoogle, Joins,
           CommitRegister, Switch, SetLiveTrading, StoreSetting, Restart, keys
  <2>6. QED
    BY <1>1, <2>4, <2>5 DEF Next, vars, keys
<1>2. QED
  BY <1>1, Inductive, PTL DEF Spec, OnlyConnectBringsKey
\* A revoked session is never brought back, by no refresh and no login.
THEOREM RevokedForGood == Spec => RevokedStaysRevoked
<1> DEFINE Kept == \A s \in Sess : sess[s] # NoRow /\ sess[s].revoked => sess'[s].revoked
<1>1. ASSUME IInv, [Next]_vars PROVE [Kept]_vars
  <2> USE <1>1 DEF IInv
  <2>1. ASSUME NEW r \in Req, CommitLogin(r) PROVE Kept
    BY <2>1 DEF CommitLogin, TypeOK
  <2>2. ASSUME NEW r \in Req, CommitRefresh(r) \/ Logout(r) PROVE Kept
    <3>1. /\ req[r] \in SessionReq /\ req[r].sess \in Sess /\ req[r].seen \in SessRows
          /\ sess[req[r].sess] \in SessRows
      BY <2>2, RequestShape DEF CommitRefresh, Logout, SessionReq, HeldInv
    <3>2. PICK new \in SessRows :
            /\ sess' = [sess EXCEPT ![req[r].sess] = Update(@, req[r].seen, new, {})]
            /\ new.revoked = req[r].seen.revoked \/ new.revoked = TRUE
      <4>1. CASE CommitRefresh(r)
        BY <3>1, <4>1 DEF CommitRefresh
      <4>2. CASE Logout(r)
        <5> DEFINE n == [req[r].seen EXCEPT !.revoked = TRUE]
        <5>1. n \in SessRows /\ n.revoked = TRUE
          BY <3>1 DEF SessRows
        <5>2. QED
          BY <4>2, <5>1 DEF Logout
      <4>3. QED
        BY <2>2, <4>1, <4>2
    <3>3. sess[req[r].sess].revoked => Update(sess[req[r].sess], req[r].seen, new, {}).revoked
      BY <3>1, <3>2, SessionUpdate
    <3>4. QED
      BY <3>1, <3>2, <3>3 DEF TypeOK
  <2>3. ASSUME NEW r \in Req, CommitReset(r) PROVE Kept
    <3>1. \A s \in Sess : sess[s] # NoRow => [sess[s] EXCEPT !.revoked = TRUE].revoked = TRUE
      BY DEF TypeOK, SessRows
    <3>2. QED
      BY <2>3, <3>1 DEF CommitReset
  <2>4. ASSUME Sessions PROVE Kept \/ UNCHANGED sess
    BY <2>1, <2>2, <2>3, <2>4
       DEF Sessions, RequestPasswordReset, SetUserStatus, Authenticate, OpenSession, RefreshUser,
           ResetPassword, ListSessions, auth
  <2>5. ASSUME Vault \/ Codes \/ Registration \/ Switch \/ Restart PROVE UNCHANGED sess
    BY <2>5
       DEF Vault, Regrant, Connect, TestConnection, Validate, LoadConnect, CommitConnect,
           CommitTest, Disconnect, CommitDisconnect, Codes, LoadCodes, CommitCodes,
           Registration, Register, LoginGoogle, Joins, CommitRegister, Switch, SetLiveTrading,
           StoreSetting, Restart, auth
  <2>6. QED
    BY <2>4, <2>5 DEF Next, vars, auth
<1>2. QED
  BY <1>1, Inductive, PTL DEF Spec, RevokedStaysRevoked

-----------------------------------------------------------------------------
(* The switch.                                                             *)

Remembered == IF live.stored = NoRow THEN Seed ELSE live.stored

\* While toggles come one by one, the one under way has switched the memory already, and
\* between them the memory has what a restart would read.
SwitchInv ==
    ~unruly => /\ \A r \in Toggling : req[r].on = live.memory
               /\ \A q, r \in Toggling : q = r
               /\ Toggling = {} => live.memory = Remembered

\* No other request touches the switch or stands where a toggle stands.
LEMMA OthersDoNotToggle ==
    ASSUME IInv, Vault \/ Sessions \/ Codes \/ Registration
    PROVE  /\ UNCHANGED <<live, unruly>>
           /\ \A q \in Req : req'[q] = req[q] \/ (req'[q].at # "store" /\ req[q].at # "store")
<1> USE DEF IInv
<1> DEFINE Elsewhere(r) == /\ UNCHANGED <<live, unruly>>
                           /\ req'[r].at # "store" /\ req[r].at # "store"
                           /\ \A q \in Req \ {r} : req'[q] = req[q]
<1>1. ASSUME NEW r \in Req, NEW rec, Step(r, rec), rec.at # "store", req[r].at # "store",
             UNCHANGED <<live, unruly>>
      PROVE  Elsewhere(r)
  BY <1>1 DEF TypeOK, Step
<1>2. Idle.at # "store" /\ \A r \in Req : \A t : Begins(r, t) => req[r].at # "store"
  BY DEF Begins, Idle
<1>3. ASSUME Vault PROVE UNCHANGED <<live, unruly, req>> \/ \E r \in Req : Elsewhere(r)
  <2>1. ASSUME NEW r \in Req, Validate(r) PROVE Elsewhere(r)
    <3>1. req[r] \in ConnectReq \cup TestReq
      BY <2>1, RequestShape DEF Validate
    <3>2. \A verdict : [req[r] EXCEPT !.at = "write", !.verdict = verdict].at = "write"
      BY <3>1 DEF ConnectReq, TestReq
    <3>3. [req[r] EXCEPT !.at = "load"].at = "load"
      BY <3>1 DEF ConnectReq, TestReq
    <3>4. req[r].at # "store"
      BY <2>1 DEF Validate
    <3>5. PICK rec : Step(r, rec) /\ rec.at # "store"
      BY <1>2, <2>1, <3>2, <3>3 DEF Validate
    <3>6. QED
      BY <1>1, <2>1, <3>4, <3>5 DEF Validate, switch
  <2>2. ASSUME NEW r \in Req, LoadConnect(r) PROVE Elsewhere(r)
    <3>1. req[r] \in ConnectReq
      BY <2>2, RequestShape DEF LoadConnect
    <3>2. [req[r] EXCEPT !.at = "write", !.seen = vault].at = "write"
      BY <3>1 DEF ConnectReq
    <3>3. QED
      BY <1>1, <2>2, <3>2 DEF LoadConnect, At, switch
  <2>3. ASSUME NEW r \in Req, CommitConnect(r) \/ CommitTest(r) \/ CommitDisconnect(r)
        PROVE  Elsewhere(r)
    BY <1>1, <1>2, <2>3 DEF CommitConnect, CommitTest, CommitDisconnect, Ends, At, switch
  <2>4. ASSUME NEW r \in Req,
               (\E k \in Keys : Connect(r, k)) \/ TestConnection(r) \/ Disconnect(r)
        PROVE  Elsewhere(r)
    BY <1>1, <1>2, <2>4 DEF Connect, TestConnection, Disconnect, switch
  <2>5. QED
    BY <1>3, <2>1, <2>2, <2>3, <2>4 DEF Vault, Regrant, switch
<1>4. ASSUME Sessions PROVE UNCHANGED <<live, unruly, req>> \/ \E r \in Req : Elsewhere(r)
  <2>1. ASSUME NEW r \in Req, RefreshUser(r) PROVE Elsewhere(r)
    <3>1. req[r] \in SessionReq
      BY <2>1, RequestShape DEF RefreshUser
    <3>2. [req[r] EXCEPT !.at = "write"].at = "write"
      BY <3>1 DEF SessionReq
    <3>3. QED
      BY <1>1, <1>2, <2>1, <3>2 DEF RefreshUser, At, switch
  <2>2. ASSUME NEW r \in Req, ListSessions(r) PROVE Elsewhere(r)
    <3>1. req[r] \in ResetReq
      BY <2>2, RequestShape DEF ListSessions
    <3>2. \A listed : [req[r] EXCEPT !.at = "write", !.listed = listed].at = "write"
      BY <3>1 DEF ResetReq
    <3>3. PICK rec : Step(r, rec) /\ rec.at = "write"
      BY <2>2, <3>2 DEF ListSessions
    <3>4. QED
      BY <1>1, <2>2, <3>3 DEF ListSessions, At, switch
  <2>3. ASSUME NEW r \in Req, CommitLogin(r) \/ CommitRefresh(r) \/ Logout(r) \/ CommitReset(r)
        PROVE  Elsewhere(r)
    BY <1>1, <1>2, <2>3 DEF CommitLogin, CommitRefresh, Logout, CommitReset, Ends, At, switch
  <2>4. ASSUME NEW r \in Req,
               \/ Authenticate(r)
               \/ \E s \in Sess, op \in {"refresh", "logout"} : OpenSession(r, op, s)
               \/ \E t \in Token : ResetPassword(r, t)
        PROVE  Elsewhere(r)
    BY <1>1, <1>2, <2>4 DEF Authenticate, OpenSession, ResetPassword, switch
  <2>5. QED
    BY <1>4, <2>1, <2>2, <2>3, <2>4 DEF Sessions, RequestPasswordReset, SetUserStatus, switch
<1>5. ASSUME Codes \/ Registration PROVE \E r \in Req : Elsewhere(r)
  <2>1. ASSUME NEW r \in Req, CommitCodes(r) \/ CommitRegister(r) PROVE Elsewhere(r)
    BY <1>1, <1>2, <2>1 DEF CommitCodes, CommitRegister, Ends, At, switch
  <2>2. ASSUME NEW r \in Req, NEW op, LoadCodes(r, op) \/ Joins(r, op) PROVE Elsewhere(r)
    BY <1>1, <1>2, <2>2 DEF LoadCodes, Joins, switch
  <2>3. QED
    BY <1>5, <2>1, <2>2 DEF Codes, Registration, Register, LoginGoogle
<1>6. QED
  BY <1>3, <1>4, <1>5

LEMMA SwitchInductive == ASSUME IInv, SwitchInv, [Next]_vars PROVE SwitchInv'
<1> USE DEF IInv
<1>1. ASSUME NEW r \in Req, NEW on \in BOOLEAN, SetLiveTrading(r, on) PROVE SwitchInv'
  <2> DEFINE rec == [op |-> "toggle", on |-> on, at |-> "store"]
  <2>1. req'[r] = rec /\ \A q \in Req \ {r} : req'[q] = req[q]
    BY <1>1 DEF SetLiveTrading, Step, TypeOK
  <2>2. live'.memory = on /\ unruly' = (unruly \/ Toggling # {})
    BY <1>1 DEF SetLiveTrading, TypeOK
  <2>3. ASSUME ~unruly' PROVE Toggling' = {r}
    <3>1. Toggling = {}
      BY <2>2, <2>3
    <3>2. QED
      BY <2>1, <3>1 DEF Toggling
  <2>4. QED
    BY <2>1, <2>2, <2>3 DEF SwitchInv
<1>2. ASSUME NEW r \in Req, StoreSetting(r) PROVE SwitchInv'
  <2>1. req'[r] = Idle /\ \A q \in Req \ {r} : req'[q] = req[q]
    BY <1>2 DEF StoreSetting, Ends, Step, TypeOK
  <2>2. req[r].on \in BOOLEAN /\ r \in Toggling
    BY <1>2, RequestShape DEF StoreSetting, At, ToggleReq, Toggling
  <2>3. CASE live' = [live EXCEPT !.stored = req[r].on] /\ UNCHANGED unruly
    <3> SUFFICES ASSUME ~unruly PROVE SwitchInv'
      BY <2>3 DEF SwitchInv
    <3>1. Toggling = {r} /\ req[r].on = live.memory
      BY <2>2 DEF SwitchInv
    <3>2. Toggling' = {}
      BY <2>1, <3>1 DEF Toggling, Idle
    <3>3. live'.memory = live.memory /\ live'.stored = live.memory /\ live.memory \in BOOLEAN
      BY <2>3, <3>1 DEF TypeOK
    <3>4. Remembered' = live'.memory
      BY <3>3, NoRowAssumption DEF Remembered
    <3>5. QED
      BY <3>2, <3>4 DEF SwitchInv
  <2>4. CASE unruly' = TRUE
    BY <2>4 DEF SwitchInv
  <2>5. QED
    BY <1>2, <2>3, <2>4 DEF StoreSetting
<1>3. ASSUME Restart PROVE SwitchInv'
  <2>1. Toggling' = {}
    BY <1>3 DEF Restart, Toggling, Idle
  <2>2. live'.memory = Remembered /\ live'.stored = live.stored
    BY <1>3 DEF Restart, TypeOK, Remembered
  <2>3. QED
    BY <2>1, <2>2 DEF SwitchInv, Remembered
<1>4. ASSUME Vault \/ Sessions \/ Codes \/ Registration PROVE SwitchInv'
  <2>1. UNCHANGED <<live, unruly>>
    BY <1>4, OthersDoNotToggle
  <2>2. Toggling' = Toggling /\ \A q \in Toggling : req'[q] = req[q]
    BY <1>4, OthersDoNotToggle DEF Toggling
  <2>3. QED
    BY <2>1, <2>2 DEF SwitchInv, Remembered
<1>5. CASE UNCHANGED vars
  BY <1>5 DEF vars, switch, SwitchInv, Toggling, Remembered
<1>6. QED
  BY <1>1, <1>2, <1>3, <1>4, <1>5 DEF Next, Switch

\* The switch in memory has the value a restart would give it, if the toggles came one by
\* one and each was stored.
THEOREM SwitchIsRemembered == Spec => []SwitchSurvivesRestart
<1>1. Init => SwitchInv
  BY DEF Init, SwitchInv, Toggling, Remembered, Idle
<1>2. SwitchInv => SwitchSurvivesRestart
  BY DEF SwitchInv, SwitchSurvivesRestart, Remembered
<1>3. IInv /\ SwitchInv /\ [Next]_vars => SwitchInv'
  BY SwitchInductive
<1>4. QED
  BY <1>1, <1>2, <1>3, Inductive, PTL DEF Spec
=============================================================================
