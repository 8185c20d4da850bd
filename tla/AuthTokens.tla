----------------------------- MODULE AuthTokens -----------------------------
(***************************************************************************)
(* The sessions of one account (AuthService): rotating refresh tokens,     *)
(* logout, password changes and password resets.  One action is one        *)
(* database statement; requests interleave at every await.                 *)
(*                                                                         *)
(* A token may lapse at any time, which only refuses requests that the     *)
(* model lets go on.  Access tokens are stateless and not modelled.        *)
(***************************************************************************)
EXTENDS Naturals, FiniteSets

CONSTANTS
    Requests,       \* slots for the requests in flight
    MaxTokens,      \* bound: refresh tokens issued
    MaxPasswords,   \* bound: passwords the account has had
    MaxResets,      \* bound: reset links mailed
    MaxFaults       \* bound: requests that die halfway

ASSUME BoundsAssumption ==
    /\ MaxTokens \in Nat /\ MaxPasswords \in Nat \ {0}
    /\ MaxResets \in Nat /\ MaxFaults \in Nat

VARIABLES
    password,       \* which password is stored, counting up; 0: no account
    token,          \* the refresh tokens
    reset,          \* the rows of the reset tokens
    setBy,          \* history: the reset link that set each password, or 0
    req,            \* the requests in flight
    unrevoked,      \* history: a password was stored, and its request died
                    \* before it revoked the tokens
    faults          \* faults still allowed

vars == <<password, token, reset, setBy, req, unrevoked, faults>>

-----------------------------------------------------------------------------
Tokens == 1..MaxTokens
Resets == 1..MaxResets
Passwords == 0..MaxPasswords

\* auth: the password a session goes back to; from: the token it was rotated
\* from; stray: issued on an authority that a revocation had already ended.
Token == [row : {"none", "live", "revoked", "deleted"}, auth : Passwords,
          from : 0..MaxTokens, stray : BOOLEAN]

Pcs == {"idle", "create", "claim", "replay", "issue", "store", "revoke",
        "reset-claim", "reset-store", "reset-revoke", "reset-clean", "mail"}

\* tok, link: the row in hand; auth, late: as above, for the token to come.
Request == [pc : Pcs, tok : 0..MaxTokens, link : 0..MaxResets,
            auth : Passwords, late : BOOLEAN]
Idle == [pc |-> "idle", tok |-> 0, link |-> 0, auth |-> 0, late |-> FALSE]

TypeOK ==
    /\ password \in Passwords
    /\ token \in [Tokens -> Token]
    /\ reset \in [Resets -> {"none", "open", "used", "deleted"}]
    /\ setBy \in [1..MaxPasswords -> 0..MaxResets]
    /\ req \in [Requests -> Request]
    /\ unrevoked \in BOOLEAN
    /\ faults \in 0..MaxFaults

Init ==
    /\ password = 0
    /\ token = [t \in Tokens |-> [row |-> "none", auth |-> 0, from |-> 0,
                                  stray |-> FALSE]]
    /\ reset = [i \in Resets |-> "none"]
    /\ setBy = [p \in 1..MaxPasswords |-> 0]
    /\ req = [r \in Requests |-> Idle]
    /\ unrevoked = FALSE
    /\ faults = MaxFaults

-----------------------------------------------------------------------------
At(r, pc) == req[r].pc = pc
Become(r, next) == req' = [req EXCEPT ![r] = next]
Start(r, next) == At(r, "idle") /\ Become(r, next)
Goto(r, pc) == Become(r, [req[r] EXCEPT !.pc = pc])
Answer(r) == Become(r, Idle)

\* The rows are numbered in the order of their creation.
Next1(rows, n) == rows[n] = "none" /\ \A k \in 1..(n - 1) : rows[k] # "none"
Rows == [t \in Tokens |-> token[t].row]

(* register: look for the address, then create under its unique key.       *)
Register(r) ==
    /\ password = 0
    /\ Start(r, [Idle EXCEPT !.pc = "create"])
    /\ UNCHANGED <<password, token, reset, setBy, unrevoked, faults>>

RegisterCreate(r) ==
    /\ At(r, "create")
    /\ password' = IF password = 0 THEN 1 ELSE password   \* else 409
    /\ Answer(r)
    /\ UNCHANGED <<token, reset, setBy, unrevoked, faults>>

(* login and createRefreshToken.                                           *)
Login(r) ==
    /\ password > 0
    /\ Start(r, [Idle EXCEPT !.pc = "issue", !.auth = password])
    /\ UNCHANGED <<password, token, reset, setBy, unrevoked, faults>>

Issue(r) ==
    /\ At(r, "issue")
    /\ \E t \in Tokens :
          /\ Next1(Rows, t)
          /\ token' = [token EXCEPT ![t] =
                [row |-> "live", auth |-> req[r].auth, from |-> req[r].tok,
                 stray |-> req[r].late]]
    /\ Answer(r)
    /\ UNCHANGED <<password, reset, setBy, unrevoked, faults>>

(* refresh: find, claim, issue; a revoked token ends the whole family.     *)
Refresh(r, t) ==
    /\ token[t].row \in {"live", "revoked"}
    /\ Start(r, [Idle EXCEPT !.tok = t,
                   !.pc = IF token[t].row = "live" THEN "claim" ELSE "replay"])
    /\ UNCHANGED <<password, token, reset, setBy, unrevoked, faults>>

\* Mutant: an update without `revokedAt: null`.
RefreshClaimAny(r) == LET t == req[r].tok IN
    /\ At(r, "claim")
    /\ IF token[t].row # "deleted"
       THEN /\ token' = [token EXCEPT ![t].row = "revoked"]
            /\ Become(r, [req[r] EXCEPT !.pc = "issue", !.auth = token[t].auth,
                                       !.late = token[t].stray])
       ELSE Answer(r) /\ UNCHANGED token
    /\ UNCHANGED <<password, reset, setBy, unrevoked, faults>>

\* Succeeds once per token; the loser of a race is refused.
RefreshClaim(r) == LET t == req[r].tok IN
    /\ At(r, "claim")
    /\ IF token[t].row = "live"
       THEN /\ token' = [token EXCEPT ![t].row = "revoked"]
            /\ Become(r, [req[r] EXCEPT !.pc = "issue", !.auth = token[t].auth,
                                       !.late = token[t].stray])
       ELSE Answer(r) /\ UNCHANGED token
    /\ UNCHANGED <<password, reset, setBy, unrevoked, faults>>

\* revokeAllUserTokens.  It ends what is stored; a request that is about to
\* issue a token on the authority of an earlier password is not stopped.
Revoked == [t \in Tokens |-> [token[t] EXCEPT !.row = IF @ = "live" THEN "revoked" ELSE @]]
Overtaken(q) ==
    \/ req[q].late
    \/ req[q].pc \in {"issue", "revoke"} /\ req[q].auth # password
RevokeAll(r, next) ==
    /\ token' = Revoked
    /\ req' = [q \in Requests |->
          IF q = r THEN next ELSE [req[q] EXCEPT !.late = Overtaken(q)]]
    /\ unrevoked' = FALSE
    /\ UNCHANGED <<password, reset, setBy, faults>>

Replay(r) == At(r, "replay") /\ RevokeAll(r, Idle)

(* logout deletes the row.                                                 *)
Logout(t) ==
    /\ token[t].row # "none"
    /\ token' = [token EXCEPT ![t].row = "deleted"]
    /\ UNCHANGED <<password, reset, setBy, req, unrevoked, faults>>

(* changePassword: compare and hash, store, revoke, issue.                 *)
Change(r) ==
    /\ password > 0
    /\ Start(r, [Idle EXCEPT !.pc = "store"])
    /\ UNCHANGED <<password, token, reset, setBy, unrevoked, faults>>

ChangeStore(r) ==
    /\ At(r, "store") /\ password < MaxPasswords
    /\ password' = password + 1
    /\ Become(r, [req[r] EXCEPT !.pc = "revoke", !.auth = password + 1])
    /\ UNCHANGED <<token, reset, setBy, unrevoked, faults>>

\* Mutant: the new session is issued and nothing revoked.
ChangeRevokeNothing(r) ==
    /\ At(r, "revoke")
    /\ Goto(r, "issue")
    /\ UNCHANGED <<password, token, reset, setBy, unrevoked, faults>>

ChangeRevoke(r) ==
    /\ At(r, "revoke")
    /\ RevokeAll(r, [req[r] EXCEPT !.pc = "issue", !.late = Overtaken(r)])

(* forgotPassword: delete the open links, create one, mail it.             *)
Forgot(r) ==
    /\ password > 0
    /\ Start(r, [Idle EXCEPT !.pc = "mail"])
    /\ reset' = [i \in Resets |-> IF reset[i] = "open" THEN "deleted" ELSE reset[i]]
    /\ UNCHANGED <<password, token, setBy, unrevoked, faults>>

ForgotCreate(r) ==
    /\ At(r, "mail")
    /\ \E i \in Resets : Next1(reset, i) /\ reset' = [reset EXCEPT ![i] = "open"]
    /\ Answer(r)
    /\ UNCHANGED <<password, token, setBy, unrevoked, faults>>

(* resetPassword: find, claim, store, revoke, delete what is used.         *)
Reset(r, i) ==
    /\ reset[i] = "open"
    /\ Start(r, [Idle EXCEPT !.pc = "reset-claim", !.link = i])
    /\ UNCHANGED <<password, token, reset, setBy, unrevoked, faults>>

\* Mutant: the link found is not looked at again.
ResetClaimFound(r) == LET i == req[r].link IN
    /\ At(r, "reset-claim")
    /\ reset' = [reset EXCEPT ![i] = "used"]
    /\ Goto(r, "reset-store")
    /\ UNCHANGED <<password, token, setBy, unrevoked, faults>>

ResetClaim(r) == LET i == req[r].link IN
    /\ At(r, "reset-claim")
    /\ IF reset[i] = "open"
       THEN reset' = [reset EXCEPT ![i] = "used"] /\ Goto(r, "reset-store")
       ELSE Answer(r) /\ UNCHANGED reset
    /\ UNCHANGED <<password, token, setBy, unrevoked, faults>>

ResetStore(r) ==
    /\ At(r, "reset-store") /\ password < MaxPasswords
    /\ password' = password + 1
    /\ setBy' = [setBy EXCEPT ![password + 1] = req[r].link]
    /\ Goto(r, "reset-revoke")
    /\ UNCHANGED <<token, reset, unrevoked, faults>>

ResetRevoke(r) ==
    /\ At(r, "reset-revoke")
    /\ RevokeAll(r, [req[r] EXCEPT !.pc = "reset-clean"])

ResetClean(r) ==
    /\ At(r, "reset-clean")
    /\ reset' = [i \in Resets |-> IF reset[i] = "used" THEN "deleted" ELSE reset[i]]
    /\ Answer(r)
    /\ UNCHANGED <<password, token, setBy, unrevoked, faults>>

\* A statement fails, or the process dies, and the request with it.
Die(r) ==
    /\ ~At(r, "idle") /\ faults > 0 /\ faults' = faults - 1
    /\ unrevoked' = (unrevoked \/ req[r].pc \in {"revoke", "reset-revoke"})
    /\ Answer(r)
    /\ UNCHANGED <<password, token, reset, setBy>>

-----------------------------------------------------------------------------
Next ==
    \/ \E r \in Requests :
          \/ Register(r) \/ RegisterCreate(r) \/ Login(r) \/ Issue(r)
          \/ \E t \in Tokens : Refresh(r, t)
          \/ RefreshClaim(r) \/ Replay(r)
          \/ Change(r) \/ ChangeStore(r) \/ ChangeRevoke(r)
          \/ Forgot(r) \/ ForgotCreate(r)
          \/ \E i \in Resets : Reset(r, i)
          \/ ResetClaim(r) \/ ResetStore(r) \/ ResetRevoke(r) \/ ResetClean(r)
          \/ Die(r)
    \/ \E t \in Tokens : Logout(t)

Spec == Init /\ [][Next]_vars

-----------------------------------------------------------------------------
(* Safety.                                                                 *)

\* "Succeeds exactly once per token": however many tabs refresh with one
\* token, and whenever, one new token at most comes of it.
RotatedOnce ==
    \A t, u \in Tokens :
        token[t].from = token[u].from /\ token[t].from # 0 => t = u

\* A reset link sets one password at most, whatever is mailed, claimed or
\* cleaned up meanwhile by other requests.
ResetOnce ==
    \A p, q \in 1..MaxPasswords : setBy[p] = setBy[q] /\ setBy[p] # 0 => p = q

\* The tokens are still to be revoked after a password was stored.
RevocationDue ==
    unrevoked \/ \E r \in Requests : req[r].pc \in {"revoke", "reset-revoke"}

\* What a password change or reset promises to the other devices: once it has
\* revoked, the live sessions go back to the stored password, save those (and
\* what they are rotated into) that a request in flight at that very moment
\* went on to issue, or when the request died before it could revoke.
SessionsFollowPassword ==
    \A t \in Tokens :
        token[t].row = "live" =>
            token[t].auth = password \/ token[t].stray \/ RevocationDue
=============================================================================
