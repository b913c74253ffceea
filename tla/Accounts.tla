-------------------------------- MODULE Accounts --------------------------------
(***************************************************************************)
(* The rows of a user's account: the keys of an exchange in the vault      *)
(* (app/exchange_vault/), the password, the sessions and the second factor *)
(* (app/auth/), what an administrator sets (app/admin/), and the switch of *)
(* live trading, held in memory and in a row.                              *)
(*                                                                         *)
(* A request loads rows, waits (for an exchange, or another query) and     *)
(* commits the columns it changed, as SQLAlchemy does: a column that has   *)
(* the value it was loaded with is not written, whatever others wrote      *)
(* meanwhile.                                                              *)
(***************************************************************************)
EXTENDS Naturals, FiniteSets

CONSTANTS
    Req,          \* requests; one that has ended may begin again
    Keys,         \* API keys
    NoKey, NoRow, \* NULL, and a row that does not exist
    Sess, Token,  \* sessions, tokens of a password reset
    People,       \* bound on the registrations
    Topics,       \* what the requests are about, one of TopicKinds
    Seed          \* settings.live_trading_enabled

TopicKinds == {"vault", "sessions", "codes", "people", "switch"}

ASSUME TopicAssumption == Topics \subseteq TopicKinds
ASSUME KeyAssumption == NoKey \notin Keys
ASSUME SeedAssumption == Seed \in BOOLEAN
ASSUME PeopleAssumption == People \in Nat

Secret == 1..2   \* bound on the second-factor secrets; 0 is none

\* The rows of exchange_accounts, auth_users, auth_sessions and auth_tokens.
VaultRows == [key : Keys \cup {NoKey}, withdraw : BOOLEAN,
              status : {"CONNECTED", "ERROR", "DISCONNECTED"}]
UserRows == [status : {"ACTIVE", "SUSPENDED"}, secret : Secret \cup {0}, totp : BOOLEAN]
SessRows == [revoked : BOOLEAN]
TokenRows == [used : BOOLEAN]

ASSUME NoRowAssumption == NoRow \notin VaultRows \cup SessRows \cup TokenRows \cup BOOLEAN

VARIABLES
    topic,
    perm,     \* what the exchange says of a key
    vetted,   \* ghost: the keys a validation has found fit
    vault,    \* the row of exchange_accounts
    user,     \* the row of auth_users
    proven,   \* ghost: the second-factor secrets whose code was confirmed
    sess,     \* auth_sessions
    token,    \* auth_tokens of kind RESET
    people,   \* how many accounts of each role were registered
    live,     \* _RUNTIME_LIVE_ENABLED, and its system setting
    unruly,   \* ghost: toggles have overlapped, or one was not stored
    req

keys == <<perm, vetted, vault>>
auth == <<user, proven, sess, token, people>>
switch == <<live, unruly>>
vars == <<topic, keys, auth, switch, req>>


-----------------------------------------------------------------------------
Idle == [at |-> "idle"]
Begins(r, t) == topic = t /\ req[r] = Idle
At(r, op, step) == req[r].at = step /\ req[r].op = op
Step(r, rec) == req' = [req EXCEPT ![r] = rec]
Ends(r) == Step(r, Idle)

\* Mutation: every column is written.
WholeRow(row, seen, new, always) == new
\* An UPDATE names the columns that changed, and those whose new value never equals the
\* one loaded (a ciphertext has a fresh nonce).
Update(row, seen, new, always) ==
    [c \in DOMAIN row |-> IF new[c] # seen[c] \/ c \in always THEN new[c] ELSE row[c]]

Init ==
    /\ topic \in Topics
    /\ perm \in [Keys -> {"fit", "withdraw"}] /\ vetted = {} /\ vault = NoRow
    /\ user = [status |-> "ACTIVE", secret |-> 0, totp |-> FALSE]
    /\ proven = {}
    /\ sess = [s \in Sess |-> NoRow] /\ token = [t \in Token |-> NoRow]
    /\ people = [role \in {"ADMIN", "FREE"} |-> 0]
    /\ live = [memory |-> Seed, stored |-> NoRow] /\ unruly = FALSE
    /\ req = [r \in Req |-> Idle]

-----------------------------------------------------------------------------
(* The vault: validation comes before the load of a connect and after the  *)
(* load of a test.                                                         *)

\* The owner changes what the key may do at the exchange.
Regrant(k, p) ==
    /\ topic = "vault" /\ perm[k] # p /\ perm' = [perm EXCEPT ![k] = p]
    /\ UNCHANGED <<topic, vetted, vault, auth, switch, req>>

Connect(r, k) ==
    /\ Begins(r, "vault")
    /\ Step(r, [op |-> "connect", key |-> k, seen |-> NoRow, verdict |-> "none", at |-> "validate"])
    /\ UNCHANGED <<topic, keys, auth, switch>>

\* A key that cannot be decrypted ends the request: its ERROR status is rolled back.
TestConnection(r) ==
    /\ Begins(r, "vault") /\ vault # NoRow /\ vault.key # NoKey
    /\ Step(r, [op |-> "test", key |-> vault.key, seen |-> vault, verdict |-> "none", at |-> "validate"])
    /\ UNCHANGED <<topic, keys, auth, switch>>

\* Mutation: a key that could not be validated is accepted.
AcceptedUnseen(verdict) == verdict \in {"fit", "unavailable"}
Accepted(verdict) == verdict = "fit"

\* validate_permissions: what the exchange says now, or that it does not answer.
Validate(r) ==
    /\ req[r].at = "validate"
    /\ \E verdict \in {perm[req[r].key], "unavailable"} :
         /\ vetted' = IF verdict = "fit" THEN vetted \cup {req[r].key} ELSE vetted
         /\ Step(r, IF req[r].op = "test" THEN [req[r] EXCEPT !.at = "write", !.verdict = verdict]
                    ELSE IF Accepted(verdict) THEN [req[r] EXCEPT !.at = "load"] ELSE Idle)
    /\ UNCHANGED <<topic, perm, vault, auth, switch>>

LoadConnect(r) ==
    /\ At(r, "connect", "load")
    /\ Step(r, [req[r] EXCEPT !.at = "write", !.seen = vault])
    /\ UNCHANGED <<topic, keys, auth, switch>>

\* A second first connect violates the unique constraint.
CommitConnect(r) ==
    LET new == [key |-> req[r].key, status |-> "CONNECTED", withdraw |-> FALSE]
    IN /\ At(r, "connect", "write")
       /\ vault' = IF req[r].seen # NoRow THEN Update(vault, req[r].seen, new, {"key"})
                   ELSE IF vault = NoRow THEN new ELSE vault
       /\ Ends(r) /\ UNCHANGED <<topic, perm, vetted, auth, switch>>

CommitTest(r) ==
    LET new == [req[r].seen EXCEPT
                   !.status = IF req[r].verdict = "fit" THEN "CONNECTED" ELSE "ERROR",
                   !.withdraw = req[r].verdict = "withdraw"]
    IN /\ At(r, "test", "write")
       /\ vault' = Update(vault, req[r].seen, new, {})
       /\ Ends(r) /\ UNCHANGED <<topic, perm, vetted, auth, switch>>

Disconnect(r) ==
    /\ Begins(r, "vault") /\ vault # NoRow
    /\ Step(r, [op |-> "disconnect", seen |-> vault, at |-> "write"])
    /\ UNCHANGED <<topic, keys, auth, switch>>

CommitDisconnect(r) ==
    LET new == [key |-> NoKey, status |-> "DISCONNECTED", withdraw |-> FALSE]
    IN /\ At(r, "disconnect", "write")
       /\ vault' = Update(vault, req[r].seen, new, {})
       /\ Ends(r) /\ UNCHANGED <<topic, perm, vetted, auth, switch>>

-----------------------------------------------------------------------------
(* Sessions.                                                               *)

Live(s) == sess[s] # NoRow /\ ~sess[s].revoked

\* authenticate; a failed one is rolled back whole.
Authenticate(r) ==
    /\ Begins(r, "sessions") /\ user.status = "ACTIVE"
    /\ Step(r, [op |-> "login", at |-> "write"])
    /\ UNCHANGED <<topic, keys, auth, switch>>

CommitLogin(r) ==
    /\ At(r, "login", "write")
    /\ \E s \in Sess :
         /\ sess[s] = NoRow
         /\ sess' = [sess EXCEPT ![s] = [revoked |-> FALSE]]
    /\ Ends(r) /\ UNCHANGED <<topic, keys, user, proven, token, people, switch>>

\* refresh_access_token and logout read the session first.
OpenSession(r, op, s) ==
    /\ Begins(r, "sessions") /\ sess[s] # NoRow
    /\ op = "refresh" => Live(s)
    /\ Step(r, [op |-> op, sess |-> s, seen |-> sess[s], at |-> "user"])
    /\ UNCHANGED <<topic, keys, auth, switch>>

\* The refresh then reads the account.
RefreshUser(r) ==
    /\ At(r, "refresh", "user")
    /\ Step(r, IF user.status = "SUSPENDED" THEN Idle ELSE [req[r] EXCEPT !.at = "write"])
    /\ UNCHANGED <<topic, keys, auth, switch>>

\* last_seen and ip are written, and nothing that the model keeps.
CommitRefresh(r) ==
    /\ At(r, "refresh", "write")
    /\ sess' = [sess EXCEPT ![req[r].sess] = Update(@, req[r].seen, req[r].seen, {})]
    /\ Ends(r) /\ UNCHANGED <<topic, keys, user, proven, token, people, switch>>

Logout(r) ==
    /\ At(r, "logout", "user")
    /\ sess' = [sess EXCEPT ![req[r].sess] =
                  Update(@, req[r].seen, [req[r].seen EXCEPT !.revoked = TRUE], {})]
    /\ Ends(r) /\ UNCHANGED <<topic, keys, user, proven, token, people, switch>>

RequestPasswordReset(t) ==
    /\ topic = "sessions" /\ token[t] = NoRow
    /\ token' = [token EXCEPT ![t] = [used |-> FALSE]]
    /\ UNCHANGED <<topic, keys, user, proven, sess, people, switch, req>>

\* _consume_token.
ResetPassword(r, t) ==
    /\ Begins(r, "sessions") /\ token[t] # NoRow /\ ~token[t].used
    /\ Step(r, [op |-> "reset", token |-> t, listed |-> {}, at |-> "list"])
    /\ UNCHANGED <<topic, keys, auth, switch>>

\* list_sessions.
ListSessions(r) ==
    /\ At(r, "reset", "list")
    /\ Step(r, [req[r] EXCEPT !.at = "write", !.listed = {s \in Sess : Live(s)}])
    /\ UNCHANGED <<topic, keys, auth, switch>>

\* The hash of the password is left out; the sessions that were listed are revoked.
CommitReset(r) ==
    /\ At(r, "reset", "write")
    /\ token' = [token EXCEPT ![req[r].token].used = TRUE]
    /\ sess' = [s \in Sess |-> IF s \in req[r].listed THEN [sess[s] EXCEPT !.revoked = TRUE]
                               ELSE sess[s]]
    /\ Ends(r) /\ UNCHANGED <<topic, keys, user, proven, people, switch>>

\* set_user_status of the administrator.
SetUserStatus(status) ==
    /\ topic = "sessions" /\ user.status # status
    /\ user' = [user EXCEPT !.status = status]
    /\ UNCHANGED <<topic, keys, proven, sess, token, people, switch, req>>

-----------------------------------------------------------------------------
(* The second factor: each request loads the account and commits.          *)

\* begin_2fa_setup, confirm_2fa and disable_2fa, on the row that was loaded.
Coded(op, u, fresh) ==
    CASE op = "begin" -> [u EXCEPT !.secret = fresh, !.totp = FALSE]
      [] op = "confirm" -> [u EXCEPT !.totp = TRUE]
      [] op = "disable" -> [u EXCEPT !.secret = 0, !.totp = FALSE]

LoadCodes(r, op) ==
    /\ Begins(r, "codes")
    /\ op = "confirm" => user.secret # 0
    /\ op = "disable" => user.totp
    /\ Step(r, [op |-> op, seen |-> user, at |-> "code"])
    /\ UNCHANGED <<topic, keys, auth, switch>>

\* The code was that of the loaded secret.
CommitCodes(r) ==
    /\ req[r].at = "code"
    /\ \E fresh \in Secret \ {req[r].seen.secret} :
         user' = Update(user, req[r].seen, Coded(req[r].op, req[r].seen, fresh), {})
    /\ proven' = IF req[r].op = "confirm" THEN proven \cup {req[r].seen.secret} ELSE proven
    /\ Ends(r) /\ UNCHANGED <<topic, keys, sess, token, people, switch>>

-----------------------------------------------------------------------------
(* Registration, and the account that a first Google login makes.          *)

Registered == people["ADMIN"] + people["FREE"]

\* Mutation: only the other accounts are counted.
RoleAmongFree == IF people["FREE"] = 0 THEN "ADMIN" ELSE "FREE"
Role == IF Registered = 0 THEN "ADMIN" ELSE "FREE"

Joins(r, role) ==
    /\ Begins(r, "people")
    /\ Registered + Cardinality({q \in Req : req[q] # Idle}) < People
    /\ Step(r, [op |-> "register", at |-> "write", role |-> role])
    /\ UNCHANGED <<topic, keys, auth, switch>>

Register(r) == Joins(r, Role)
\* login_or_link_google for an address without an account.
LoginGoogle(r) == Joins(r, "FREE")

CommitRegister(r) ==
    /\ At(r, "register", "write")
    /\ people' = [people EXCEPT ![req[r].role] = @ + 1]
    /\ Ends(r) /\ UNCHANGED <<topic, keys, user, proven, sess, token, switch>>

-----------------------------------------------------------------------------
(* The switch of live trading.                                             *)

Toggling == {r \in Req : req[r].at = "store"}

\* set_live_trading, up to the awaited set_setting.
SetLiveTrading(r, on) ==
    /\ Begins(r, "switch")
    /\ live' = [live EXCEPT !.memory = on]
    /\ unruly' = (unruly \/ Toggling # {})
    /\ Step(r, [op |-> "toggle", on |-> on, at |-> "store"])
    /\ UNCHANGED <<topic, keys, auth>>

\* Mutation: the row is written once only.
StoreOnce(r) ==
    /\ At(r, "toggle", "store")
    /\ live' = [live EXCEPT !.stored = IF @ = NoRow THEN req[r].on ELSE @]
    /\ Ends(r) /\ UNCHANGED <<topic, keys, auth, unruly>>

\* set_setting, a transaction of its own that may fail.
StoreSetting(r) ==
    /\ At(r, "toggle", "store")
    /\ \/ live' = [live EXCEPT !.stored = req[r].on] /\ UNCHANGED unruly
       \/ unruly' = TRUE /\ UNCHANGED live
    /\ Ends(r) /\ UNCHANGED <<topic, keys, auth>>

\* The program ends, and load_runtime_live_enabled reads the row.
Restart ==
    /\ live' = [live EXCEPT !.memory = IF live.stored = NoRow THEN Seed ELSE live.stored]
    /\ unruly' = FALSE
    /\ req' = [r \in Req |-> Idle]
    /\ UNCHANGED <<topic, keys, auth>>

-----------------------------------------------------------------------------
Vault == \/ \E k \in Keys, p \in {"fit", "withdraw"} : Regrant(k, p)
         \/ \E r \in Req : \/ \E k \in Keys : Connect(r, k)
                           \/ TestConnection(r) \/ Validate(r) \/ LoadConnect(r)
                           \/ CommitConnect(r) \/ CommitTest(r)
                           \/ Disconnect(r) \/ CommitDisconnect(r)
Sessions == \/ \E t \in Token : RequestPasswordReset(t)
            \/ \E status \in {"ACTIVE", "SUSPENDED"} : SetUserStatus(status)
            \/ \E r \in Req :
                 \/ Authenticate(r) \/ CommitLogin(r)
                 \/ \E s \in Sess, op \in {"refresh", "logout"} : OpenSession(r, op, s)
                 \/ RefreshUser(r) \/ CommitRefresh(r) \/ Logout(r)
                 \/ \E t \in Token : ResetPassword(r, t)
                 \/ ListSessions(r) \/ CommitReset(r)
Codes == \E r \in Req : CommitCodes(r) \/ \E op \in {"begin", "confirm", "disable"} : LoadCodes(r, op)
Registration == \E r \in Req : Register(r) \/ LoginGoogle(r) \/ CommitRegister(r)
Switch == \E r \in Req : StoreSetting(r) \/ \E on \in BOOLEAN : SetLiveTrading(r, on)

Next == Vault \/ Sessions \/ Codes \/ Registration \/ Switch \/ Restart

Spec == Init /\ [][Next]_vars

-----------------------------------------------------------------------------
(* Properties.                                                             *)

Verdicts == {"fit", "withdraw", "unavailable"}
ConnectReq == [op : {"connect"}, key : Keys, seen : VaultRows \cup {NoRow}, verdict : {"none"},
               at : {"validate", "load", "write"}]
TestReq == [op : {"test"}, key : Keys, seen : VaultRows, verdict : Verdicts \cup {"none"},
            at : {"validate", "write"}]
DisconnectReq == [op : {"disconnect"}, seen : VaultRows, at : {"write"}]
LoginReq == [op : {"login"}, at : {"write"}]
SessionReq == [op : {"refresh", "logout"}, sess : Sess, seen : SessRows, at : {"user", "write"}]
ResetReq == [op : {"reset"}, token : Token, listed : SUBSET Sess, at : {"list", "write"}]
CodeReq == [op : {"begin", "confirm", "disable"}, seen : UserRows, at : {"code"}]
RegisterReq == [op : {"register"}, role : {"ADMIN", "FREE"}, at : {"write"}]
ToggleReq == [op : {"toggle"}, on : BOOLEAN, at : {"store"}]
Requests ==
    {Idle} \cup ConnectReq \cup TestReq \cup DisconnectReq \cup LoginReq \cup SessionReq
           \cup ResetReq \cup CodeReq \cup RegisterReq \cup ToggleReq

\* The rows and the requests have the form the code gives them.
TypeOK ==
    /\ topic \in Topics /\ perm \in [Keys -> {"fit", "withdraw"}]
    /\ vetted \subseteq Keys /\ vault \in VaultRows \cup {NoRow}
    /\ user \in UserRows /\ proven \subseteq Secret \cup {0}
    /\ sess \in [Sess -> SessRows \cup {NoRow}]
    /\ token \in [Token -> TokenRows \cup {NoRow}]
    /\ people \in [{"ADMIN", "FREE"} -> Nat]
    /\ live \in [memory : BOOLEAN, stored : BOOLEAN \cup {NoRow}] /\ unruly \in BOOLEAN
    /\ req \in [Req -> Requests]

\* A key in the vault was found fit to trade and without the right to withdraw by a
\* validation of that very key, however connects and tests overlap (connect).
VaultKeysWereFit == vault # NoRow /\ vault.key # NoKey => vault.key \in vetted

\* Only a connect puts a key into the vault: a test that was under way when the user
\* disconnected does not bring the wiped key back (test_connection, disconnect).
OnlyConnectBringsKey ==
    [][vault # NoRow /\ vault'.key # vault.key /\ vault'.key # NoKey
         => \E r \in Req : At(r, "connect", "write") /\ req[r].key = vault'.key]_vars

\* A session that was revoked, by a logout or a password reset, stays revoked, whatever
\* refresh of it was under way (refresh_access_token, reset_password).
RevokedStaysRevoked ==
    [][\A s \in Sess : sess[s] # NoRow /\ sess[s].revoked => sess'[s].revoked]_vars

\* A restart does not flip the switch of live trading, if toggles came one by one and
\* were stored (set_live_trading, load_runtime_live_enabled).
SwitchSurvivesRestart ==
    ~unruly /\ Toggling = {} =>
        live.memory = IF live.stored = NoRow THEN Seed ELSE live.stored

\* The same without the condition.  Not so: the memory is switched first, and the row by
\* each request when its turn comes.
SwitchIsStored ==
    Toggling = {} => live.memory = IF live.stored = NoRow THEN Seed ELSE live.stored

\* A second factor is asked for only with a secret whose code the user has given.  Not so
\* when a setup begins while a confirmation is under way.
CodesWork == user.totp => user.secret \in proven

\* A key in use has no right to withdraw that a test recorded.  Not so when two tests
\* overlap: each writes the column that changed.
ConnectedIsWhole == vault # NoRow /\ vault.status = "CONNECTED" => ~vault.withdraw /\ vault.key # NoKey

\* Registration makes at most as many administrators as can register at the same time,
\* before the first of them commits (register).
FirstAreAdmins == people["ADMIN"] <= Cardinality(Req)

\* The first account is an administrator's.  Not so when it comes from a Google login.
SomeAdmin == Registered > 0 => people["ADMIN"] > 0

\* The first account is the only one that registration makes an administrator.  Not so
\* when two register at once: both count none.
OneFirstAdmin == people["ADMIN"] <= 1

=============================================================================
