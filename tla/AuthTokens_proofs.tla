-------------------------- MODULE AuthTokens_proofs --------------------------
(***************************************************************************)
(* AuthTokens for every number of requests, tokens, passwords, reset links *)
(* and faults.                                                             *)
(***************************************************************************)
EXTENDS AuthTokens, TLAPS

\* Before there is an account there is nothing else.
BornInv ==
    password = 0 =>
        /\ \A t \in Tokens : token[t].row = "none"
        /\ \A i \in Resets : reset[i] = "none"
        /\ \A r \in Requests : req[r].pc \in {"idle", "create"}

\* A token that was rotated is not live, and a request that has claimed one is
\* the only one to issue its successor.
InHand ==
    \A r \in Requests : req[r].pc \in {"claim", "replay"} => req[r].tok \in Tokens
Holds(r, t) == req[r].pc = "issue" /\ req[r].tok = t
RotationInv ==
    /\ RotatedOnce
    /\ \A t \in Tokens : token[t].row = "none" => token[t].from = 0
    /\ \A t, u \in Tokens : token[u].from = t => token[t].row \in {"revoked", "deleted"}
    /\ \A r \in Requests : req[r].pc \in {"store", "revoke"} => req[r].tok = 0
    /\ InHand
    /\ \A r \in Requests, t \in Tokens :
          /\ req[r].pc \in {"claim", "replay"} /\ req[r].tok = t =>
                token[t].row # "none"
          /\ Holds(r, t) =>
                /\ token[t].row \in {"revoked", "deleted"}
                /\ \A u \in Tokens : token[u].from # t
                /\ \A q \in Requests : Holds(q, t) => q = r

\* The same of the reset links and the passwords they set.
Redeems(r, i) == req[r].pc = "reset-store" /\ req[r].link = i
ResetInv ==
    /\ ResetOnce
    /\ \A p \in 1..MaxPasswords : p > password => setBy[p] = 0
    /\ \A p \in 1..MaxPasswords, i \in Resets :
          setBy[p] = i => reset[i] \in {"used", "deleted"}
    /\ \A r \in Requests : req[r].pc \in {"reset-claim", "reset-store"} =>
          req[r].link \in Resets
    /\ \A r \in Requests, i \in Resets :
          Redeems(r, i) =>
            /\ reset[i] \in {"used", "deleted"}
            /\ \A p \in 1..MaxPasswords : setBy[p] # i
            /\ \A q \in Requests : Redeems(q, i) => q = r

\* A request about to issue is in the position of a live token.
SessionInv ==
    /\ SessionsFollowPassword
    /\ \A r \in Requests :
          req[r].pc = "issue" =>
            req[r].auth = password \/ req[r].late \/ RevocationDue

IInv == TypeOK /\ BornInv /\ RotationInv /\ ResetInv /\ SessionInv

-----------------------------------------------------------------------------
LEMMA Numbers == Tokens \subseteq 0..MaxTokens /\ Resets \subseteq 0..MaxResets
BY BoundsAssumption DEF Tokens, Resets

\* A field of a request replaced by a value of its type.
LEMMA FieldType ==
    ASSUME NEW q \in Request PROVE
    /\ \A pc \in Pcs : [q EXCEPT !.pc = pc] \in Request
    /\ \A t \in 0..MaxTokens : [q EXCEPT !.tok = t] \in Request
    /\ \A i \in 0..MaxResets : [q EXCEPT !.link = i] \in Request
    /\ \A p \in Passwords : [q EXCEPT !.auth = p] \in Request
    /\ \A b \in BOOLEAN : [q EXCEPT !.late = b] \in Request
BY DEF Request

\* The new states that an action gives a request.
LEMMA FieldsType ==
    ASSUME NEW q \in Request, NEW pc \in Pcs, NEW p \in Passwords, NEW b \in BOOLEAN
    PROVE
    /\ [q EXCEPT !.pc = pc, !.auth = p] \in Request
    /\ [q EXCEPT !.pc = pc, !.late = b] \in Request
    /\ [q EXCEPT !.pc = pc, !.auth = p, !.late = b] \in Request
    /\ \A t \in 0..MaxTokens : [q EXCEPT !.tok = t, !.pc = pc] \in Request
    /\ \A i \in 0..MaxResets : [q EXCEPT !.pc = pc, !.link = i] \in Request
<1>1. [q EXCEPT !.pc = pc] \in Request
  BY FieldType
<1>2. [q EXCEPT !.pc = pc, !.auth = p] \in Request
  BY <1>1 DEF Request
<1>3. [q EXCEPT !.pc = pc, !.late = b] \in Request
  BY <1>1 DEF Request
<1>4. [q EXCEPT !.pc = pc, !.auth = p, !.late = b] \in Request
  BY <1>2 DEF Request
<1>5. \A t \in 0..MaxTokens : [q EXCEPT !.tok = t, !.pc = pc] \in Request
  BY DEF Request
<1>6. \A i \in 0..MaxResets : [q EXCEPT !.pc = pc, !.link = i] \in Request
  BY <1>1 DEF Request
<1> QED
  BY <1>2, <1>3, <1>4, <1>5, <1>6

LEMMA IdleType == Idle \in Request
BY BoundsAssumption DEF Idle, Request, Pcs, Passwords

\* A request in a new state.
LEMMA BecomeType ==
    ASSUME TypeOK, NEW r \in Requests, NEW next \in Request, Become(r, next)
    PROVE  req' \in [Requests -> Request] /\ req'[r] = next
BY DEF TypeOK, Become

LEMMA GotoType ==
    ASSUME TypeOK, NEW r \in Requests, NEW pc \in Pcs, Goto(r, pc)
    PROVE  req' \in [Requests -> Request]
<1>1. [req[r] EXCEPT !.pc = pc] \in Request
  BY DEF TypeOK, Request
<1> QED
  BY <1>1, BecomeType DEF Goto

LEMMA AnswerType ==
    ASSUME TypeOK, NEW r \in Requests, Answer(r)
    PROVE  req' \in [Requests -> Request]
BY IdleType, BecomeType DEF Answer

LEMMA IInvInit == Init => IInv
<1> SUFFICES ASSUME Init PROVE IInv
  OBVIOUS
<1> USE BoundsAssumption
<1>1. TypeOK
  <2>1. token \in [Tokens -> Token]
    BY DEF Init, Token, Passwords
  <2>2. req \in [Requests -> Request]
    BY IdleType DEF Init
  <2>3. setBy \in [1..MaxPasswords -> 0..MaxResets]
    BY DEF Init
  <2>4. reset \in [Resets -> {"none", "open", "used", "deleted"}]
    BY DEF Init
  <2>5. password \in Passwords /\ faults \in 0..MaxFaults
    BY DEF Init, Passwords
  <2>6. unrevoked \in BOOLEAN
    BY DEF Init
  <2> QED
    BY <2>1, <2>2, <2>3, <2>4, <2>5, <2>6 DEF TypeOK
<1>2. \A r \in Requests : req[r].pc = "idle"
  BY DEF Init, Idle
<1>3. BornInv /\ RotationInv /\ ResetInv /\ SessionInv
  BY <1>2 DEF Init, BornInv, RotationInv, RotatedOnce, Holds, ResetInv, InHand,
     ResetOnce, Redeems, SessionInv, SessionsFollowPassword, Tokens, Resets
<1> QED
  BY <1>1, <1>3 DEF IInv

\* revokeAllUserTokens changes no more of a token than a live row.
LEMMA RevokedType ==
    ASSUME TypeOK PROVE
    /\ Revoked \in [Tokens -> Token]
    /\ \A t \in Tokens :
          /\ Revoked[t].row = IF token[t].row = "live" THEN "revoked" ELSE token[t].row
          /\ Revoked[t].from = token[t].from /\ Revoked[t].auth = token[t].auth
BY DEF TypeOK, Revoked, Token

LEMMA TypeStep ==
    ASSUME TypeOK, InHand, [Next]_vars PROVE TypeOK'
<1> USE BoundsAssumption DEF TypeOK
<1>1. ASSUME NEW r \in Requests, Register(r) \/ Change(r) \/ Forgot(r) PROVE TypeOK'
  <2>1. \A pc \in Pcs : [Idle EXCEPT !.pc = pc] \in Request
    BY IdleType DEF Request
  <2> QED
    BY <1>1, <2>1, BecomeType DEF Register, Change, Forgot, Start, Pcs
<1>2. ASSUME NEW r \in Requests, Login(r) PROVE TypeOK'
  <2>1. [Idle EXCEPT !.pc = "issue", !.auth = password] \in Request
    BY IdleType DEF Request, Pcs
  <2> QED
    BY <1>2, <2>1, BecomeType DEF Login, Start
<1>3. ASSUME NEW r \in Requests, RegisterCreate(r) PROVE TypeOK'
  BY <1>3, AnswerType DEF RegisterCreate, Passwords
<1>4. ASSUME NEW r \in Requests, Issue(r) PROVE TypeOK'
  <2>1. PICK t \in Tokens : token' = [token EXCEPT ![t] =
                [row |-> "live", auth |-> req[r].auth, from |-> req[r].tok,
                 stray |-> req[r].late]]
    BY <1>4 DEF Issue
  <2>2. token' \in [Tokens -> Token]
    BY <2>1 DEF Token, Request
  <2> QED
    BY <1>4, <2>2, AnswerType DEF Issue
<1>5. ASSUME NEW r \in Requests, NEW t \in Tokens, Refresh(r, t) PROVE TypeOK'
  <2>1. \A pc \in Pcs : [Idle EXCEPT !.tok = t, !.pc = pc] \in Request
    BY IdleType, FieldsType, Numbers
  <2> QED
    BY <1>5, <2>1, BecomeType DEF Refresh, Start, Pcs
<1>6. ASSUME NEW r \in Requests, RefreshClaim(r) PROVE TypeOK'
  <2>1. CASE token' = token /\ Answer(r)
    BY <1>6, <2>1, AnswerType DEF RefreshClaim
  <2>2. CASE /\ token[req[r].tok].row = "live"
             /\ token' = [token EXCEPT ![req[r].tok].row = "revoked"]
    <3>1. token' \in [Tokens -> Token]
      BY <2>2, ZenonT(60) DEF Token
    <3>2. token[req[r].tok] \in Token
      BY <1>6 DEF RefreshClaim, At, InHand
    <3>3. /\ token[req[r].tok].auth \in Passwords
          /\ token[req[r].tok].stray \in BOOLEAN
      BY <3>2 DEF Token
    <3>4. [req[r] EXCEPT !.pc = "issue", !.auth = token[req[r].tok].auth,
                         !.late = token[req[r].tok].stray] \in Request
      BY <3>3, FieldsType, ZenonT(60) DEF Pcs
    <3> QED
      BY <1>6, <2>2, <3>1, <3>4, BecomeType DEF RefreshClaim
  <2> QED
    BY <1>6, <2>1, <2>2 DEF RefreshClaim
<1>7. ASSUME NEW r \in Requests, Replay(r) \/ ChangeRevoke(r) \/ ResetRevoke(r)
      PROVE  TypeOK'
  <2>1. \A q \in Requests : Overtaken(q) \in BOOLEAN
    BY DEF Overtaken, Request
  <2>2. PICK next \in Request : RevokeAll(r, next)
    <3>1. [req[r] EXCEPT !.pc = "issue", !.late = Overtaken(r)] \in Request
      BY <2>1 DEF Request, Pcs
    <3>2. [req[r] EXCEPT !.pc = "reset-clean"] \in Request
      BY DEF Request, Pcs
    <3> QED
      BY <1>7, <3>1, <3>2, IdleType DEF Replay, ChangeRevoke, ResetRevoke
  <2>3. \A q \in Requests : [req[q] EXCEPT !.late = Overtaken(q)] \in Request
    BY <2>1 DEF Request
  <2>4. req' \in [Requests -> Request]
    BY <2>2, <2>3 DEF RevokeAll
  <2> QED
    BY <2>2, <2>4, RevokedType DEF RevokeAll
<1>8. ASSUME NEW r \in Requests, ChangeStore(r) PROVE TypeOK'
  <2>1. [req[r] EXCEPT !.pc = "revoke", !.auth = password + 1] \in Request
    <3>1. password + 1 \in Passwords
      BY <1>8 DEF ChangeStore, Passwords
    <3> QED
      BY <3>1, FieldsType DEF Pcs
  <2> QED
    BY <1>8, <2>1, BecomeType DEF ChangeStore, Passwords
<1>9. ASSUME NEW r \in Requests, ForgotCreate(r) PROVE TypeOK'
  BY <1>9, AnswerType DEF ForgotCreate
<1>10. ASSUME NEW r \in Requests, NEW i \in Resets, Reset(r, i) PROVE TypeOK'
  <2>1. [Idle EXCEPT !.pc = "reset-claim", !.link = i] \in Request
    BY IdleType, FieldsType, Numbers DEF Pcs
  <2> QED
    BY <1>10, <2>1, BecomeType DEF Reset, Start
<1>11. ASSUME NEW r \in Requests, ResetClaim(r) PROVE TypeOK'
  BY <1>11, AnswerType, GotoType DEF ResetClaim, Pcs
<1>12. ASSUME NEW r \in Requests, ResetStore(r) PROVE TypeOK'
  <2>1. setBy' \in [1..MaxPasswords -> 0..MaxResets]
    BY <1>12 DEF ResetStore, Request
  <2> QED
    BY <1>12, <2>1, GotoType DEF ResetStore, Pcs, Passwords
<1>13. ASSUME NEW r \in Requests, ResetClean(r) PROVE TypeOK'
  BY <1>13, AnswerType DEF ResetClean
<1>14. ASSUME NEW r \in Requests, Die(r) PROVE TypeOK'
  BY <1>14, AnswerType DEF Die
<1>15. ASSUME NEW t \in Tokens, Logout(t) PROVE TypeOK'
  BY <1>15 DEF Logout, Token
<1>16. CASE UNCHANGED vars
  BY <1>16 DEF vars
<1> QED
  BY <1>1, <1>2, <1>3, <1>4, <1>5, <1>6, <1>7, <1>8, <1>9, <1>10, <1>11,
     <1>12, <1>13, <1>14, <1>15, <1>16 DEF Next

-----------------------------------------------------------------------------
(* What a step does to the requests.                                       *)

Same(q) == /\ req'[q].pc = req[q].pc /\ req'[q].tok = req[q].tok
           /\ req'[q].link = req[q].link /\ req'[q].auth = req[q].auth
OneMoves(r, next) ==
    /\ req'[r] = next
    /\ \A q \in Requests : q # r => Same(q)

\* A step concerns one request; a revocation marks the others late at most.
LEMMA BecomeMoves ==
    ASSUME TypeOK, NEW r \in Requests, NEW next, Become(r, next)
    PROVE  OneMoves(r, next) /\ \A q \in Requests : q # r => req'[q] = req[q]
BY DEF TypeOK, Become, OneMoves, Same

LEMMA RevokeMoves ==
    ASSUME TypeOK, NEW r \in Requests, NEW next, RevokeAll(r, next)
    PROVE  /\ OneMoves(r, next)
           /\ \A q \in Requests : q # r => req'[q].late = Overtaken(q)
<1>1. ASSUME NEW q \in Requests, q # r
      PROVE  Same(q) /\ req'[q].late = Overtaken(q)
  <2>1. req'[q] = [req[q] EXCEPT !.late = Overtaken(q)]
    BY <1>1 DEF RevokeAll
  <2>2. req[q] \in Request
    BY DEF TypeOK
  <2> QED
    BY <2>1, <2>2 DEF Same, Request
<1>2. req'[r] = next
  BY DEF RevokeAll
<1> QED
  BY <1>1, <1>2 DEF OneMoves

LEMMA IdleFields ==
    /\ Idle.pc = "idle" /\ Idle.tok = 0 /\ Idle.link = 0
    /\ \A pc : /\ [Idle EXCEPT !.pc = pc].pc = pc
               /\ [Idle EXCEPT !.pc = pc].tok = 0
BY DEF Idle

LEMMA Begins ==
    ASSUME NEW r \in Requests, Register(r) \/ Change(r) \/ Forgot(r)
    PROVE  \E next : /\ Become(r, next) /\ next.tok = 0
                     /\ next.pc \in {"create", "store", "mail"}
<1> DEFINE At0(pc) == [Idle EXCEPT !.pc = pc]
<1>1. \A pc : At0(pc).pc = pc /\ At0(pc).tok = 0
  BY IdleFields
<1>2. Become(r, At0("create")) \/ Become(r, At0("store")) \/ Become(r, At0("mail"))
  BY DEF Register, Change, Forgot, Start
<1> HIDE DEF At0
<1>3. PICK pc \in {"create", "store", "mail"} : Become(r, At0(pc))
  BY <1>2
<1> WITNESS At0(pc)
<1> QED
  BY <1>1, <1>3

LEMMA Presents ==
    ASSUME NEW r \in Requests, NEW t \in Tokens, Refresh(r, t)
    PROVE  \E next : /\ Become(r, next) /\ next.tok = t
                     /\ next.pc \in {"claim", "replay"}
<1> DEFINE pc == IF token[t].row = "live" THEN "claim" ELSE "replay"
           next == [Idle EXCEPT !.tok = t, !.pc = pc]
<1>1. pc \in {"claim", "replay"}
  OBVIOUS
<1>2. next.pc = pc /\ next.tok = t
  BY DEF Idle
<1>3. Become(r, next)
  BY DEF Refresh, Start
<1> HIDE DEF next, pc
<1> WITNESS next
<1> QED
  BY <1>1, <1>2, <1>3

\* The fields that a Goto sets and keeps.
LEMMA GotoMoves ==
    ASSUME TypeOK, NEW r \in Requests, NEW pc, Goto(r, pc)
    PROVE  /\ req'[r].pc = pc /\ req'[r].tok = req[r].tok
           /\ req'[r].link = req[r].link /\ req'[r].auth = req[r].auth
           /\ req'[r].late = req[r].late
           /\ \A q \in Requests : q # r => req'[q] = req[q]
BY DEF TypeOK, Goto, Become, Request

-----------------------------------------------------------------------------
(* An account comes first.                                                 *)

LEMMA BornStep ==
    ASSUME TypeOK, TypeOK', BornInv, InHand, [Next]_vars PROVE BornInv'
<1> SUFFICES ASSUME password' = 0 PROVE BornInv'
  BY DEF BornInv
<1>1. ASSUME NEW r \in Requests, Register(r) PROVE BornInv'
  <2>1. \A q \in Requests : req'[q].pc \in {"create", req[q].pc}
    <3>1. Become(r, [Idle EXCEPT !.pc = "create"])
      BY <1>1 DEF Register, Start
    <3>2. OneMoves(r, [Idle EXCEPT !.pc = "create"])
      BY <3>1, BecomeMoves
    <3>3. req'[r].pc = "create"
      <4>1. [Idle EXCEPT !.pc = "create"].pc = "create"
        BY DEF Idle
      <4> QED
        BY <3>2, <4>1 DEF OneMoves
    <3>4. \A q \in Requests : q # r => req'[q].pc = req[q].pc
      BY <3>2 DEF OneMoves, Same
    <3> QED
      BY <3>3, <3>4
  <2> QED
    BY <1>1, <2>1 DEF Register, BornInv
<1>2. ASSUME NEW r \in Requests, RegisterCreate(r) PROVE FALSE
  BY <1>2 DEF RegisterCreate, TypeOK, Passwords
<1>3. ASSUME NEW r \in Requests, Login(r) \/ Change(r) \/ Forgot(r) PROVE FALSE
  BY <1>3 DEF Login, Change, Forgot
<1>4. ASSUME NEW r \in Requests,
             \/ Issue(r) \/ RefreshClaim(r) \/ Replay(r) \/ ChangeRevoke(r)
             \/ ForgotCreate(r) \/ ResetClaim(r) \/ ResetRevoke(r) \/ ResetClean(r)
      PROVE  FALSE
  <2>1. password' = password /\ ~(req[r].pc \in {"idle", "create"})
    BY <1>4 DEF Issue, RefreshClaim, Replay, ChangeRevoke, ForgotCreate,
       ResetClaim, ResetRevoke, ResetClean, At, RevokeAll
  <2> QED
    BY <2>1 DEF BornInv
<1>5. ASSUME NEW r \in Requests, ChangeStore(r) \/ ResetStore(r) PROVE FALSE
  BY <1>5 DEF ChangeStore, ResetStore, TypeOK, Passwords
<1>6. ASSUME NEW r \in Requests, NEW t \in Tokens, Refresh(r, t) PROVE FALSE
  BY <1>6 DEF Refresh, BornInv
<1>7. ASSUME NEW r \in Requests, NEW i \in Resets, Reset(r, i) PROVE FALSE
  BY <1>7 DEF Reset, BornInv
<1>8. ASSUME NEW r \in Requests, Die(r) PROVE BornInv'
  <2>1. \A q \in Requests : req'[q].pc \in {"idle", req[q].pc}
    <3>1. OneMoves(r, Idle)
      BY <1>8, BecomeMoves DEF Die, Answer
    <3> QED
      BY <3>1, IdleFields DEF OneMoves, Same
  <2> QED
    BY <1>8, <2>1 DEF Die, BornInv
<1>9. ASSUME NEW t \in Tokens, Logout(t) PROVE FALSE
  BY <1>9 DEF Logout, BornInv
<1>10. CASE UNCHANGED vars
  BY <1>10 DEF vars, BornInv
<1> QED
  BY <1>1, <1>2, <1>3, <1>4, <1>5, <1>6, <1>7, <1>8, <1>9, <1>10 DEF Next

-----------------------------------------------------------------------------
(* A token is rotated once.                                                *)

\* A request that takes no token in hand disturbs nothing, if a revocation or
\* a logout is all that happens to the tokens.
Ends == \A t \in Tokens :
    /\ token'[t].from = token[t].from
    /\ token'[t].row = "none" <=> token[t].row = "none"
    /\ token[t].row \in {"revoked", "deleted"} => token'[t].row \in {"revoked", "deleted"}
Harmless(next) ==
    /\ next.pc \in {"store", "revoke", "issue"} => next.tok = 0
    /\ next.pc \in {"claim", "replay"} =>
          next.tok \in Tokens /\ token[next.tok].row # "none"

LEMMA RotationFrame ==
    ASSUME TypeOK, RotationInv, Ends,
           NEW r \in Requests, NEW next, OneMoves(r, next), Harmless(next)
    PROVE  RotationInv'
<1>1. \A q \in Requests, t \in Tokens : Holds(q, t)' => Holds(q, t)
  BY DEF OneMoves, Same, Harmless, Holds, Tokens
<1>2. RotatedOnce'
  BY DEF RotationInv, RotatedOnce, Ends
<1>3. InHand'
  BY DEF RotationInv, InHand, OneMoves, Same, Harmless
<1>4. \A q \in Requests : req'[q].pc \in {"store", "revoke"} => req'[q].tok = 0
  BY DEF RotationInv, OneMoves, Same, Harmless
<1>5. \A q \in Requests, t \in Tokens :
         req'[q].pc \in {"claim", "replay"} /\ req'[q].tok = t => token'[t].row # "none"
  BY DEF RotationInv, OneMoves, Same, Harmless, Ends
<1>6. \A q \in Requests, t \in Tokens :
         Holds(q, t)' =>
            /\ token'[t].row \in {"revoked", "deleted"}
            /\ \A u \in Tokens : token'[u].from # t
            /\ \A p \in Requests : Holds(p, t)' => p = q
  BY <1>1 DEF RotationInv, Ends
<1>7. /\ \A t \in Tokens : token'[t].row = "none" => token'[t].from = 0
      /\ \A t, u \in Tokens : token'[u].from = t => token'[t].row \in {"revoked", "deleted"}
  BY DEF RotationInv, Ends
<1> QED
  BY <1>2, <1>3, <1>4, <1>5, <1>6, <1>7 DEF RotationInv

LEMMA TokensSame == ASSUME UNCHANGED token PROVE Ends
BY DEF Ends

LEMMA RotationStep ==
    ASSUME TypeOK, RotationInv, [Next]_vars PROVE RotationInv'
<1>1. ASSUME NEW r \in Requests,
             \/ Register(r) \/ RegisterCreate(r) \/ Login(r) \/ Change(r)
             \/ Forgot(r) \/ ForgotCreate(r) \/ ResetClean(r) \/ Die(r)
      PROVE  RotationInv'
  <2>1. PICK next : Become(r, next) /\ next.tok = 0 /\ ~(next.pc \in {"claim", "replay"})
    <3>1. CASE Login(r)
      <4>1. [Idle EXCEPT !.pc = "issue", !.auth = password].tok = 0
            /\ [Idle EXCEPT !.pc = "issue", !.auth = password].pc = "issue"
        BY DEF Idle
      <4> QED
        BY <3>1, <4>1 DEF Login, Start
    <3>2. CASE Register(r) \/ Change(r) \/ Forgot(r)
      BY <3>2, Begins
    <3>3. CASE RegisterCreate(r) \/ ForgotCreate(r) \/ ResetClean(r) \/ Die(r)
      BY <3>3, IdleFields DEF RegisterCreate, ForgotCreate, ResetClean, Die, Answer
    <3> QED
      BY <1>1, <3>1, <3>2, <3>3
  <2>2. UNCHANGED token
    BY <1>1 DEF Register, RegisterCreate, Login, Change, Forgot, ForgotCreate,
       ResetClean, Die
  <2>3. Harmless(next)
    BY <2>1 DEF Harmless
  <2>4. Ends
    BY <2>2, TokensSame
  <2>5. OneMoves(r, next)
    BY <2>1, BecomeMoves
  <2> QED
    BY <2>3, <2>4, <2>5, RotationFrame
<1>2. ASSUME NEW r \in Requests, NEW i \in Resets, Reset(r, i) PROVE RotationInv'
  <2>1. PICK next : Become(r, next) /\ next.pc = "reset-claim"
    <3>1. [Idle EXCEPT !.pc = "reset-claim", !.link = i].pc = "reset-claim"
      BY DEF Idle
    <3> QED
      BY <1>2, <3>1 DEF Reset, Start
  <2>2. Harmless(next)
    BY <2>1 DEF Harmless
  <2>3. Ends
    BY <1>2, TokensSame DEF Reset
  <2>4. OneMoves(r, next)
    BY <2>1, BecomeMoves
  <2> QED
    BY <2>2, <2>3, <2>4, RotationFrame
<1>3. ASSUME NEW r \in Requests, NEW t \in Tokens, Refresh(r, t) PROVE RotationInv'
  <2>1. PICK next : Become(r, next) /\ next.pc \in {"claim", "replay"} /\ next.tok = t
    BY <1>3, Presents
  <2>2. Harmless(next)
    BY <1>3, <2>1 DEF Harmless, Refresh
  <2>3. Ends
    BY <1>3, TokensSame DEF Refresh
  <2>4. OneMoves(r, next)
    BY <2>1, BecomeMoves
  <2> QED
    BY <2>2, <2>3, <2>4, RotationFrame
<1>4. ASSUME NEW r \in Requests, ChangeStore(r) \/ ResetClaim(r) \/ ResetStore(r)
      PROVE  RotationInv'
  <2>1. PICK next : Become(r, next) /\ Harmless(next)
    <3>1. req[r] \in Request
      BY DEF TypeOK
    <3>2. CASE ChangeStore(r)
      <4>1. req[r].tok = 0
        BY <3>2 DEF ChangeStore, At, RotationInv
      <4>2. Harmless([req[r] EXCEPT !.pc = "revoke", !.auth = password + 1])
        BY <3>1, <4>1 DEF Harmless, Request
      <4> QED
        BY <3>2, <4>2 DEF ChangeStore
    <3>3. Harmless([req[r] EXCEPT !.pc = "reset-store"])
      BY <3>1 DEF Harmless, Request
    <3>4. Harmless([req[r] EXCEPT !.pc = "reset-revoke"])
      BY <3>1 DEF Harmless, Request
    <3>5. Harmless(Idle)
      BY IdleFields DEF Harmless
    <3> QED
      BY <1>4, <3>2, <3>3, <3>4, <3>5 DEF ResetClaim, ResetStore, Goto, Answer
  <2>2. Ends
    BY <1>4, TokensSame DEF ChangeStore, ResetClaim, ResetStore
  <2>3. OneMoves(r, next)
    BY <2>1, BecomeMoves
  <2> QED
    BY <2>1, <2>2, <2>3, RotationFrame
<1>5. ASSUME NEW r \in Requests, Replay(r) \/ ChangeRevoke(r) \/ ResetRevoke(r)
      PROVE  RotationInv'
  <2>1. PICK next : RevokeAll(r, next) /\ Harmless(next)
    <3>1. req[r] \in Request
      BY DEF TypeOK
    <3>2. CASE ChangeRevoke(r)
      <4>1. req[r].tok = 0
        BY <3>2 DEF ChangeRevoke, At, RotationInv
      <4>2. Harmless([req[r] EXCEPT !.pc = "issue", !.late = Overtaken(r)])
        BY <3>1, <4>1 DEF Harmless, Request
      <4> QED
        BY <3>2, <4>2 DEF ChangeRevoke
    <3>3. Harmless([req[r] EXCEPT !.pc = "reset-clean"])
      BY <3>1 DEF Harmless, Request
    <3>4. Harmless(Idle)
      BY IdleFields DEF Harmless
    <3> QED
      BY <1>5, <3>2, <3>3, <3>4 DEF Replay, ResetRevoke
  <2>2. Ends
    BY <2>1, RevokedType DEF RevokeAll, Ends
  <2>3. OneMoves(r, next)
    BY <2>1, RevokeMoves
  <2> QED
    BY <2>1, <2>2, <2>3, RotationFrame
<1>6. ASSUME NEW r \in Requests, RefreshClaim(r) PROVE RotationInv'
  <2> DEFINE t == req[r].tok
  <2>1. t \in Tokens
    BY <1>6 DEF RefreshClaim, At, RotationInv, InHand
  <2>2. CASE token' = token /\ Answer(r)
    <3>1. OneMoves(r, Idle)
      BY <2>2, BecomeMoves DEF Answer
    <3>2. Harmless(Idle)
      BY IdleFields DEF Harmless
    <3> QED
      BY <2>2, <3>1, <3>2, TokensSame, RotationFrame
  <2>3. CASE /\ token[t].row = "live"
             /\ token' = [token EXCEPT ![t].row = "revoked"]
             /\ Become(r, [req[r] EXCEPT !.pc = "issue", !.auth = token[t].auth,
                                        !.late = token[t].stray])
    <3>1. /\ token'[t].row = "revoked"
          /\ \A u \in Tokens : token'[u].from = token[u].from
          /\ \A u \in Tokens : u # t => token'[u].row = token[u].row
      BY <2>1, <2>3 DEF TypeOK, Token
    <3>2. /\ req'[r].pc = "issue" /\ req'[r].tok = t
          /\ \A q \in Requests : q # r => Same(q)
      <4>1. OneMoves(r, [req[r] EXCEPT !.pc = "issue", !.auth = token[t].auth,
                                       !.late = token[t].stray])
        BY <2>3, BecomeMoves
      <4>2. req[r] \in Request
        BY DEF TypeOK
      <4> QED
        BY <4>1, <4>2 DEF OneMoves, Request
    <3>3. \A q \in Requests : ~Holds(q, t)
      BY <2>1, <2>3 DEF RotationInv
    <3>4. \A q \in Requests, u \in Tokens :
             Holds(q, u)' <=> (q = r /\ u = t) \/ (q # r /\ Holds(q, u))
      BY <3>2 DEF Holds, Same
    <3>5. \A u \in Tokens : token[u].from # t
      BY <2>1, <2>3 DEF RotationInv
    <3>6. RotatedOnce' /\ InHand'
      BY <3>1, <3>2 DEF RotationInv, RotatedOnce, InHand, Same
    <3>7. \A q \in Requests, u \in Tokens :
             Holds(q, u)' =>
                /\ token'[u].row \in {"revoked", "deleted"}
                /\ \A v \in Tokens : token'[v].from # u
                /\ \A p \in Requests : Holds(p, u)' => p = q
      BY <3>1, <3>3, <3>4, <3>5 DEF RotationInv
    <3>8. /\ \A q \in Requests : req'[q].pc \in {"store", "revoke"} => req'[q].tok = 0
          /\ \A q \in Requests, u \in Tokens :
                req'[q].pc \in {"claim", "replay"} /\ req'[q].tok = u => token'[u].row # "none"
      BY <3>1, <3>2 DEF RotationInv, Same
    <3>9. /\ \A u \in Tokens : token'[u].row = "none" => token'[u].from = 0
          /\ \A v, u \in Tokens : token'[u].from = v => token'[v].row \in {"revoked", "deleted"}
      BY <3>1 DEF RotationInv
    <3> QED
      BY <3>6, <3>7, <3>8, <3>9 DEF RotationInv
  <2> QED
    BY <1>6, <2>2, <2>3 DEF RefreshClaim
<1>7. ASSUME NEW r \in Requests, Issue(r) PROVE RotationInv'
  <2>1. PICK n \in Tokens :
           /\ token[n].row = "none"
           /\ token' = [token EXCEPT ![n] =
                [row |-> "live", auth |-> req[r].auth, from |-> req[r].tok,
                 stray |-> req[r].late]]
    BY <1>7 DEF Issue, Next1, Rows
  <2>2. /\ req'[r] = Idle
        /\ \A q \in Requests : q # r => Same(q)
    BY <1>7, BecomeMoves DEF Issue, Answer, OneMoves
  <2>3. /\ token'[n].row = "live" /\ token'[n].from = req[r].tok
        /\ \A u \in Tokens : u # n => token'[u] = token[u]
    BY <2>1 DEF TypeOK
  <2>4. req[r].pc = "issue" /\ req[r].tok \in 0..MaxTokens
    BY <1>7 DEF Issue, At, TypeOK, Request
  <2>5. req[r].tok # 0 => req[r].tok \in Tokens /\ Holds(r, req[r].tok)
    BY <2>4, BoundsAssumption DEF Holds, Tokens
  <2>6. \A u \in Tokens : u # n /\ token[u].from = req[r].tok => token[u].from = 0
    BY <2>5 DEF RotationInv
  <2>7. RotatedOnce'
    BY <2>3, <2>6 DEF RotationInv, RotatedOnce
  <2>8. \A u \in Tokens : token[u].from # n
    BY <2>1 DEF RotationInv
  <2>9. req[r].tok # n
    BY <2>1, <2>5 DEF RotationInv
  <2>10. \A v, u \in Tokens : token'[u].from = v => token'[v].row \in {"revoked", "deleted"}
    <3> SUFFICES ASSUME NEW v \in Tokens, NEW u \in Tokens, token'[u].from = v
                 PROVE  token'[v].row \in {"revoked", "deleted"}
      OBVIOUS
    <3>1. CASE u = n
      <4>1. v = req[r].tok /\ Holds(r, v)
        BY <2>3, <2>4, <3>1 DEF Holds
      <4>2. token[v].row \in {"revoked", "deleted"}
        BY <4>1 DEF RotationInv
      <4> QED
        BY <2>3, <2>9, <4>1, <4>2
    <3>2. CASE u # n
      <4>1. token[u].from = v /\ v # n
        BY <2>3, <2>8, <3>2
      <4>2. token[v].row \in {"revoked", "deleted"}
        BY <4>1 DEF RotationInv
      <4> QED
        BY <2>3, <4>1, <4>2
    <3> QED
      BY <3>1, <3>2
  <2>11. \A q \in Requests, u \in Tokens : Holds(q, u)' <=> q # r /\ Holds(q, u)
    BY <2>2, IdleFields DEF Holds, Same
  <2>12. \A q \in Requests, u \in Tokens :
             Holds(q, u)' =>
                /\ token'[u].row \in {"revoked", "deleted"}
                /\ \A v \in Tokens : token'[v].from # u
                /\ \A p \in Requests : Holds(p, u)' => p = q
    <3> SUFFICES ASSUME NEW q \in Requests, NEW u \in Tokens, Holds(q, u)'
                 PROVE  /\ token'[u].row \in {"revoked", "deleted"}
                        /\ \A v \in Tokens : token'[v].from # u
                        /\ \A p \in Requests : Holds(p, u)' => p = q
      OBVIOUS
    <3>1. q # r /\ Holds(q, u)
      BY <2>11
    <3>2. u # n /\ token[u].row \in {"revoked", "deleted"}
      BY <2>1, <3>1 DEF RotationInv
    <3>3. u # req[r].tok
      <4>1. Holds(r, u) => r = q
        BY <3>1 DEF RotationInv
      <4> QED
        BY <2>4, <3>1, <4>1 DEF Holds
    <3>4. \A v \in Tokens : token'[v].from # u
      BY <2>3, <3>1, <3>3 DEF RotationInv
    <3>5. \A p \in Requests : Holds(p, u)' => p = q
      BY <2>11, <3>1 DEF RotationInv
    <3> QED
      BY <2>3, <3>2, <3>4, <3>5
  <2>13. InHand' /\ \A q \in Requests :
            req'[q].pc \in {"store", "revoke"} => req'[q].tok = 0
    BY <2>2, IdleFields DEF RotationInv, InHand, Same
  <2>14. \A q \in Requests, u \in Tokens :
            req'[q].pc \in {"claim", "replay"} /\ req'[q].tok = u => token'[u].row # "none"
    BY <2>2, <2>3, IdleFields DEF RotationInv, Same
  <2>15. \A u \in Tokens : token'[u].row = "none" => token'[u].from = 0
    BY <2>3 DEF RotationInv
  <2> QED
    BY <2>7, <2>10, <2>12, <2>13, <2>14, <2>15 DEF RotationInv
<1>8. ASSUME NEW t \in Tokens, Logout(t) PROVE RotationInv'
  <2>1. Ends
    BY <1>8 DEF Logout, Ends, TypeOK, Token
  <2>2. UNCHANGED req
    BY <1>8 DEF Logout
  <2>3. RotatedOnce' /\ InHand'
    BY <2>1, <2>2 DEF RotationInv, RotatedOnce, Ends, InHand
  <2> QED
    BY <2>1, <2>2, <2>3 DEF RotationInv, Ends, Holds
<1>9. CASE UNCHANGED vars
  BY <1>9 DEF vars, RotationInv, RotatedOnce, InHand, Holds
<1> QED
  BY <1>1, <1>2, <1>3, <1>4, <1>5, <1>6, <1>7, <1>8, <1>9 DEF Next

-----------------------------------------------------------------------------
(* A reset link sets one password.                                         *)

\* A request that redeems no link disturbs nothing, if the links that were
\* used or deleted stay so.
Spent(i) == reset[i] \in {"used", "deleted"}
LinksKept ==
    /\ \A i \in Resets : Spent(i) => Spent(i)'
    /\ setBy' = setBy
    /\ password' >= password
Unredeeming(next) ==
    /\ next.pc # "reset-store"
    /\ next.pc = "reset-claim" => next.link \in Resets

LEMMA ResetFrame ==
    ASSUME TypeOK, TypeOK', ResetInv, LinksKept,
           NEW r \in Requests, NEW next, OneMoves(r, next), Unredeeming(next)
    PROVE  ResetInv'
<1>1. \A q \in Requests, i \in Resets : Redeems(q, i)' => Redeems(q, i)
  BY DEF OneMoves, Same, Unredeeming, Redeems
<1>2. ResetOnce'
  BY DEF ResetInv, ResetOnce, LinksKept
<1>3. \A p \in 1..MaxPasswords : p > password' => setBy'[p] = 0
  <2>1. \A p \in 1..MaxPasswords : p > password' => p > password
    BY BoundsAssumption DEF LinksKept, TypeOK, Passwords
  <2> QED
    BY <2>1 DEF LinksKept, ResetInv
<1>4. \A p \in 1..MaxPasswords, i \in Resets : setBy'[p] = i => Spent(i)'
  BY DEF LinksKept, ResetInv, Spent
<1>5. \A q \in Requests :
         req'[q].pc \in {"reset-claim", "reset-store"} => req'[q].link \in Resets
  BY DEF ResetInv, OneMoves, Same, Unredeeming
<1>6. \A q \in Requests, i \in Resets :
         Redeems(q, i)' =>
            /\ Spent(i)'
            /\ \A p \in 1..MaxPasswords : setBy'[p] # i
            /\ \A v \in Requests : Redeems(v, i)' => v = q
  BY <1>1 DEF LinksKept, ResetInv, Spent
<1> QED
  BY <1>2, <1>3, <1>4, <1>5, <1>6 DEF ResetInv, Spent

LEMMA ResetStep ==
    ASSUME TypeOK, TypeOK', ResetInv, [Next]_vars PROVE ResetInv'
<1> USE BoundsAssumption
<1>1. ASSUME NEW r \in Requests,
             \/ Register(r) \/ RegisterCreate(r) \/ Login(r) \/ Issue(r) \/ Change(r)
             \/ Forgot(r) \/ ForgotCreate(r) \/ ResetClean(r) \/ Die(r)
      PROVE  ResetInv'
  <2>1. PICK next : Become(r, next) /\ ~(next.pc \in {"reset-claim", "reset-store"})
    <3>1. CASE Login(r)
      <4>1. [Idle EXCEPT !.pc = "issue", !.auth = password].pc = "issue"
        BY DEF Idle
      <4> QED
        BY <3>1, <4>1 DEF Login, Start
    <3>2. CASE Register(r) \/ Change(r) \/ Forgot(r)
      BY <3>2, Begins
    <3>3. CASE RegisterCreate(r) \/ Issue(r) \/ ForgotCreate(r) \/ ResetClean(r) \/ Die(r)
      BY <3>3, IdleFields DEF RegisterCreate, Issue, ForgotCreate, ResetClean, Die, Answer
    <3> QED
      BY <1>1, <3>1, <3>2, <3>3
  <2>2. setBy' = setBy
    BY <1>1 DEF Register, RegisterCreate, Login, Issue, Change, Forgot,
       ForgotCreate, ResetClean, Die
  <2>3. password' >= password
    BY <1>1 DEF Register, RegisterCreate, Login, Issue, Change, Forgot,
       ForgotCreate, ResetClean, Die, TypeOK, Passwords
  <2>4. \A i \in Resets : Spent(i) => Spent(i)'
    <3>1. CASE Forgot(r) \/ ResetClean(r)
      BY <3>1 DEF Forgot, ResetClean, Spent
    <3>2. CASE ForgotCreate(r)
      BY <3>2 DEF ForgotCreate, Next1, Spent, TypeOK
    <3>3. CASE UNCHANGED reset
      BY <3>3 DEF Spent
    <3> QED
      BY <1>1, <3>1, <3>2, <3>3 DEF Register, RegisterCreate, Login, Issue, Change, Die
  <2>5. OneMoves(r, next) /\ Unredeeming(next) /\ LinksKept
    BY <2>1, <2>2, <2>3, <2>4, BecomeMoves DEF Unredeeming, LinksKept
  <2> QED
    BY <2>5, ResetFrame
<1>2. ASSUME NEW r \in Requests, NEW i \in Resets, Reset(r, i) PROVE ResetInv'
  <2>1. PICK next : Become(r, next) /\ next.pc = "reset-claim" /\ next.link = i
    <3> DEFINE next == [Idle EXCEPT !.pc = "reset-claim", !.link = i]
    <3>1. next.pc = "reset-claim" /\ next.link = i
      BY DEF Idle
    <3>2. Become(r, next)
      BY <1>2 DEF Reset, Start
    <3> QED
      BY <3>1, <3>2
  <2>2. OneMoves(r, next) /\ Unredeeming(next)
    BY <2>1, BecomeMoves DEF Unredeeming
  <2>3. LinksKept
    BY <1>2 DEF Reset, LinksKept, Spent, TypeOK, Passwords
  <2> QED
    BY <2>2, <2>3, ResetFrame
<1>3. ASSUME NEW r \in Requests, NEW t \in Tokens, Refresh(r, t) PROVE ResetInv'
  <2>1. PICK next : Become(r, next) /\ next.pc \in {"claim", "replay"}
    BY <1>3, Presents
  <2>2. OneMoves(r, next) /\ Unredeeming(next)
    BY <2>1, BecomeMoves DEF Unredeeming
  <2>3. LinksKept
    BY <1>3 DEF Refresh, LinksKept, Spent, TypeOK, Passwords
  <2> QED
    BY <2>2, <2>3, ResetFrame
<1>4. ASSUME NEW r \in Requests, RefreshClaim(r) \/ ChangeStore(r) PROVE ResetInv'
  <2>1. PICK next : Become(r, next) /\ Unredeeming(next)
    <3> DEFINE t == req[r].tok
               a == [req[r] EXCEPT !.pc = "issue", !.auth = token[t].auth,
                                   !.late = token[t].stray]
               b == [req[r] EXCEPT !.pc = "revoke", !.auth = password + 1]
    <3>1. Unredeeming(a) /\ Unredeeming(b)
      BY DEF TypeOK, Request, Unredeeming
    <3>2. Unredeeming(Idle)
      BY IdleFields DEF Unredeeming
    <3>3. Become(r, a) \/ Become(r, b) \/ Become(r, Idle)
      BY <1>4 DEF RefreshClaim, ChangeStore, Answer
    <3> HIDE DEF a, b
    <3> QED
      BY <3>1, <3>2, <3>3
  <2>2. OneMoves(r, next)
    BY <2>1, BecomeMoves
  <2>3. LinksKept
    BY <1>4 DEF RefreshClaim, ChangeStore, LinksKept, Spent, TypeOK, Passwords
  <2> QED
    BY <2>1, <2>2, <2>3, ResetFrame
<1>5. ASSUME NEW r \in Requests, Replay(r) \/ ChangeRevoke(r) \/ ResetRevoke(r)
      PROVE  ResetInv'
  <2>1. PICK next : RevokeAll(r, next) /\ Unredeeming(next)
    <3> DEFINE a == [req[r] EXCEPT !.pc = "issue", !.late = Overtaken(r)]
               b == [req[r] EXCEPT !.pc = "reset-clean"]
    <3>1. Unredeeming(a) /\ Unredeeming(b)
      BY DEF TypeOK, Request, Unredeeming
    <3>2. Unredeeming(Idle)
      BY IdleFields DEF Unredeeming
    <3>3. RevokeAll(r, a) \/ RevokeAll(r, b) \/ RevokeAll(r, Idle)
      BY <1>5 DEF Replay, ChangeRevoke, ResetRevoke
    <3> HIDE DEF a, b
    <3> QED
      BY <3>1, <3>2, <3>3
  <2>2. OneMoves(r, next)
    BY <2>1, RevokeMoves
  <2>3. LinksKept
    BY <2>1 DEF RevokeAll, LinksKept, Spent, TypeOK, Passwords
  <2>4. Unredeeming(next)
    BY <2>1
  <2> QED
    BY <2>2, <2>3, <2>4, ResetFrame
<1>6. ASSUME NEW r \in Requests, ResetClaim(r) PROVE ResetInv'
  <2> DEFINE i == req[r].link
  <2>1. i \in Resets
    BY <1>6 DEF ResetClaim, At, ResetInv
  <2>2. CASE reset' = reset /\ Answer(r)
    <3>1. OneMoves(r, Idle) /\ Unredeeming(Idle)
      BY <2>2, BecomeMoves, IdleFields DEF Answer, Unredeeming
    <3>2. LinksKept
      BY <1>6, <2>2 DEF ResetClaim, LinksKept, Spent, TypeOK, Passwords
    <3> QED
      BY <3>1, <3>2, ResetFrame
  <2>3. CASE /\ reset[i] = "open" /\ reset' = [reset EXCEPT ![i] = "used"]
             /\ Goto(r, "reset-store")
    <3>1. /\ reset'[i] = "used"
          /\ \A k \in Resets : k # i => reset'[k] = reset[k]
      BY <2>1, <2>3 DEF TypeOK
    <3>2. /\ req'[r].pc = "reset-store" /\ req'[r].link = i
          /\ \A q \in Requests : q # r => req'[q] = req[q]
      BY <2>3, GotoMoves
    <3>3. setBy' = setBy /\ password' = password
      BY <1>6 DEF ResetClaim
    <3>4. /\ \A q \in Requests : ~Redeems(q, i)
          /\ \A p \in 1..MaxPasswords : setBy[p] # i
      BY <2>1, <2>3 DEF ResetInv
    <3>5. \A q \in Requests, k \in Resets :
             Redeems(q, k)' <=> (q = r /\ k = i) \/ (q # r /\ Redeems(q, k))
      BY <3>2 DEF Redeems
    <3>6. \A q \in Requests, k \in Resets :
             Redeems(q, k)' =>
                /\ reset'[k] \in {"used", "deleted"}
                /\ \A p \in 1..MaxPasswords : setBy'[p] # k
                /\ \A v \in Requests : Redeems(v, k)' => v = q
      BY <3>1, <3>3, <3>4, <3>5 DEF ResetInv
    <3>7. ResetOnce' /\ \A p \in 1..MaxPasswords : p > password' => setBy'[p] = 0
      BY <3>3 DEF ResetInv, ResetOnce
    <3>8. \A p \in 1..MaxPasswords, k \in Resets :
             setBy'[p] = k => reset'[k] \in {"used", "deleted"}
      BY <3>1, <3>3 DEF ResetInv
    <3>9. \A q \in Requests :
             req'[q].pc \in {"reset-claim", "reset-store"} => req'[q].link \in Resets
      BY <2>1, <3>2 DEF ResetInv
    <3> QED
      BY <3>6, <3>7, <3>8, <3>9 DEF ResetInv
  <2> QED
    BY <1>6, <2>2, <2>3 DEF ResetClaim
<1>7. ASSUME NEW r \in Requests, ResetStore(r) PROVE ResetInv'
  <2> DEFINE i == req[r].link
             n == password + 1
  <2>1. i \in Resets /\ Redeems(r, i)
    BY <1>7 DEF ResetStore, At, ResetInv, Redeems
  <2>2. n \in 1..MaxPasswords /\ password' = n /\ password < n
    BY <1>7 DEF ResetStore, TypeOK, Passwords
  <2>3. /\ setBy'[n] = i
        /\ \A p \in 1..MaxPasswords : p # n => setBy'[p] = setBy[p]
    BY <1>7, <2>2 DEF ResetStore, TypeOK
  <2>4. /\ req'[r].pc = "reset-revoke"
        /\ \A q \in Requests : q # r => req'[q] = req[q]
    BY <1>7, GotoMoves DEF ResetStore
  <2>5. reset' = reset /\ Spent(i)
    BY <1>7, <2>1 DEF ResetStore, ResetInv, Spent
  <2>6. \A p \in 1..MaxPasswords : setBy[p] # i
    BY <2>1 DEF ResetInv
  <2>7. ResetOnce'
    BY <2>3, <2>6 DEF ResetInv, ResetOnce
  <2>8. \A p \in 1..MaxPasswords : p > password' => setBy'[p] = 0
    <3>1. \A p \in 1..MaxPasswords : p > password' => p > password /\ p # n
      BY <2>2 DEF TypeOK, Passwords
    <3> QED
      BY <2>3, <3>1 DEF ResetInv
  <2>9. \A p \in 1..MaxPasswords, k \in Resets : setBy'[p] = k => Spent(k)'
    BY <2>3, <2>5 DEF ResetInv, Spent
  <2>10. \A q \in Requests, k \in Resets : Redeems(q, k)' => q # r /\ Redeems(q, k)
    BY <2>4 DEF Redeems
  <2>11. \A q \in Requests, k \in Resets :
             Redeems(q, k)' =>
                /\ Spent(k)'
                /\ \A p \in 1..MaxPasswords : setBy'[p] # k
                /\ \A v \in Requests : Redeems(v, k)' => v = q
    <3> SUFFICES ASSUME NEW q \in Requests, NEW k \in Resets, Redeems(q, k)'
                 PROVE  /\ Spent(k)'
                        /\ \A p \in 1..MaxPasswords : setBy'[p] # k
                        /\ \A v \in Requests : Redeems(v, k)' => v = q
      OBVIOUS
    <3>1. q # r /\ Redeems(q, k)
      BY <2>10
    <3>2. k # i
      BY <2>1, <3>1 DEF ResetInv
    <3>3. Spent(k)' /\ \A p \in 1..MaxPasswords : setBy'[p] # k
      BY <2>3, <2>5, <3>1, <3>2 DEF ResetInv, Spent
    <3>4. \A v \in Requests : Redeems(v, k)' => v = q
      BY <2>10, <3>1 DEF ResetInv
    <3> QED
      BY <3>3, <3>4
  <2>12. \A q \in Requests :
             req'[q].pc \in {"reset-claim", "reset-store"} => req'[q].link \in Resets
    BY <2>4 DEF ResetInv
  <2> QED
    BY <2>7, <2>8, <2>9, <2>11, <2>12 DEF ResetInv, Spent
<1>8. CASE (\E t \in Tokens : Logout(t)) \/ UNCHANGED vars
  BY <1>8 DEF Logout, vars, ResetInv, ResetOnce, Redeems
<1> QED
  BY <1>1, <1>2, <1>3, <1>4, <1>5, <1>6, <1>7, <1>8 DEF Next

-----------------------------------------------------------------------------
(* The sessions follow the password.                                       *)

\* A step that neither stores a password nor settles a revocation, and makes no
\* token live: the request it concerns gets a position it may have.
Placed(q) == \/ req[q].auth = password
             \/ req[q].late
             \/ RevocationDue
Steady(r) ==
    /\ password' = password
    /\ unrevoked => unrevoked'
    /\ req[r].pc \in {"revoke", "reset-revoke"} => RevocationDue'
    /\ \A q \in Requests : q # r => req'[q] = req[q]
Ending == \A t \in Tokens :
    token'[t].row = "live" => /\ token[t].row = "live" /\ token'[t].auth = token[t].auth
                              /\ token'[t].stray = token[t].stray

LEMMA DueKept ==
    ASSUME NEW r \in Requests, Steady(r), RevocationDue PROVE RevocationDue'
<1>1. CASE unrevoked
  BY <1>1 DEF Steady, RevocationDue
<1>2. CASE \E q \in Requests : req[q].pc \in {"revoke", "reset-revoke"}
  <2>1. PICK q \in Requests : req[q].pc \in {"revoke", "reset-revoke"}
    BY <1>2
  <2>2. CASE q = r
    BY <2>1, <2>2 DEF Steady
  <2>3. CASE q # r
    BY <2>1, <2>3 DEF Steady, RevocationDue
  <2> QED
    BY <2>2, <2>3
<1> QED
  BY <1>1, <1>2 DEF RevocationDue

LEMMA SessionFrame ==
    ASSUME SessionInv, NEW r \in Requests, Steady(r), Ending,
           req'[r].pc = "issue" => Placed(r)'
    PROVE  SessionInv'
<1>1. \A t \in Tokens :
         token'[t].row = "live" =>
            token'[t].auth = password' \/ token'[t].stray \/ RevocationDue'
  BY DueKept DEF SessionInv, SessionsFollowPassword, Steady, Ending
<1>2. \A q \in Requests : req'[q].pc = "issue" => Placed(q)'
  BY DueKept DEF SessionInv, Steady, Placed
<1> QED
  BY <1>1, <1>2 DEF SessionInv, SessionsFollowPassword, Placed

LEMMA SessionStep ==
    ASSUME TypeOK, TypeOK', BornInv, RotationInv, SessionInv, [Next]_vars
    PROVE  SessionInv'
<1>1. ASSUME NEW r \in Requests,
             \/ Register(r) \/ Change(r) \/ Forgot(r) \/ ForgotCreate(r)
             \/ ResetClean(r) \/ Die(r)
      PROVE  SessionInv'
  <2>1. PICK next : Become(r, next) /\ next.pc # "issue"
    <3>1. CASE Register(r) \/ Change(r) \/ Forgot(r)
      BY <3>1, Begins
    <3>4. CASE ForgotCreate(r) \/ ResetClean(r) \/ Die(r)
      BY <3>4, IdleFields DEF ForgotCreate, ResetClean, Die, Answer
    <3> QED
      BY <1>1, <3>1, <3>4
  <2>2. /\ req'[r].pc # "issue"
        /\ \A q \in Requests : q # r => req'[q] = req[q]
    BY <2>1, BecomeMoves DEF OneMoves
  <2>3. password' = password /\ token' = token
    BY <1>1 DEF Register, Change, Forgot, ForgotCreate, ResetClean, Die
  <2>5. unrevoked => unrevoked'
    <3>1. CASE Die(r)
      BY <3>1 DEF Die
    <3>2. CASE UNCHANGED unrevoked
      BY <3>2
    <3> QED
      BY <1>1, <3>1, <3>2 DEF Register, Change, Forgot, ForgotCreate, ResetClean
  <2>4. req[r].pc \in {"revoke", "reset-revoke"} => RevocationDue'
    BY <1>1 DEF Register, Change, Forgot, ForgotCreate, ResetClean, Die, Start, At,
       RevocationDue
  <2> QED
    BY <2>2, <2>3, <2>4, <2>5, SessionFrame DEF Steady, Ending
<1>2. ASSUME NEW r \in Requests, Login(r) PROVE SessionInv'
  <2> DEFINE next == [Idle EXCEPT !.pc = "issue", !.auth = password]
  <2>1. next.auth = password
    BY DEF Idle
  <2>2. Become(r, next)
    BY <1>2 DEF Login, Start
  <2> HIDE DEF next
  <2>3. /\ req'[r].auth = password
        /\ \A q \in Requests : q # r => req'[q] = req[q]
    BY <2>1, <2>2, BecomeMoves DEF OneMoves
  <2> QED
    BY <1>2, <2>3, SessionFrame DEF Login, Start, At, Steady, Ending, Placed
<1>3. ASSUME NEW r \in Requests, RegisterCreate(r) PROVE SessionInv'
  <2>1. CASE password = 0
    <3>1. \A t \in Tokens : token'[t].row # "live"
      BY <1>3, <2>1 DEF RegisterCreate, BornInv
    <3>2. \A q \in Requests : req'[q].pc # "issue"
      BY <1>3, <2>1, BecomeMoves, IdleFields DEF RegisterCreate, BornInv, Answer, OneMoves
    <3> QED
      BY <3>1, <3>2 DEF SessionInv, SessionsFollowPassword
  <2>2. CASE password # 0
    <3>1. /\ req'[r] = Idle
          /\ \A q \in Requests : q # r => req'[q] = req[q]
      BY <1>3, BecomeMoves DEF RegisterCreate, Answer, OneMoves
    <3> QED
      BY <1>3, <2>2, <3>1, IdleFields, SessionFrame
         DEF RegisterCreate, At, Steady, Ending
  <2> QED
    BY <2>1, <2>2
<1>4. ASSUME NEW r \in Requests, Issue(r) PROVE SessionInv'
  <2>1. PICK n \in Tokens : token' = [token EXCEPT ![n] =
                [row |-> "live", auth |-> req[r].auth, from |-> req[r].tok,
                 stray |-> req[r].late]]
    BY <1>4 DEF Issue
  <2>2. /\ req'[r] = Idle
        /\ \A q \in Requests : q # r => req'[q] = req[q]
    BY <1>4, BecomeMoves DEF Issue, Answer, OneMoves
  <2>3. /\ token'[n].auth = req[r].auth /\ token'[n].stray = req[r].late
        /\ \A u \in Tokens : u # n => token'[u] = token[u]
    BY <2>1 DEF TypeOK
  <2>4. Steady(r)
    BY <1>4, <2>2 DEF Issue, At, Steady
  <2>5. Placed(r)
    BY <1>4 DEF Issue, At, SessionInv, Placed
  <2>6. \A t \in Tokens :
           token'[t].row = "live" =>
              token'[t].auth = password' \/ token'[t].stray \/ RevocationDue'
    BY <2>3, <2>4, <2>5, DueKept DEF SessionInv, SessionsFollowPassword, Placed, Steady
  <2>7. \A q \in Requests : req'[q].pc = "issue" => Placed(q)'
    BY <2>2, <2>4, DueKept, IdleFields DEF SessionInv, Placed, Steady
  <2> QED
    BY <2>6, <2>7 DEF SessionInv, SessionsFollowPassword, Placed
<1>5. ASSUME NEW r \in Requests, NEW t \in Tokens, Refresh(r, t) PROVE SessionInv'
  <2>1. PICK next : Become(r, next) /\ next.pc \in {"claim", "replay"}
    BY <1>5, Presents
  <2>2. /\ req'[r].pc # "issue"
        /\ \A q \in Requests : q # r => req'[q] = req[q]
    BY <2>1, BecomeMoves DEF OneMoves
  <2> QED
    BY <1>5, <2>2, SessionFrame DEF Refresh, Start, At, Steady, Ending
<1>6. ASSUME NEW r \in Requests, RefreshClaim(r) PROVE SessionInv'
  <2> DEFINE t == req[r].tok
             next == [req[r] EXCEPT !.pc = "issue", !.auth = token[t].auth,
                                    !.late = token[t].stray]
  <2>1. t \in Tokens
    BY <1>6 DEF RefreshClaim, At, RotationInv, InHand
  <2>2. Steady(r)
    <3>1. \A q \in Requests : q # r => req'[q] = req[q]
      BY <1>6, BecomeMoves DEF RefreshClaim, Answer
    <3> QED
      BY <1>6, <3>1 DEF RefreshClaim, At, Steady
  <2>3. CASE token' = token /\ Answer(r)
    <3>1. req'[r] = Idle
      BY <2>3, BecomeMoves DEF Answer, OneMoves
    <3> QED
      BY <2>2, <2>3, <3>1, IdleFields, SessionFrame DEF Ending
  <2>4. CASE /\ token[t].row = "live"
             /\ token' = [token EXCEPT ![t].row = "revoked"]
             /\ Become(r, next)
    <3>1. req'[r] = next
      BY <2>4, BecomeMoves DEF OneMoves
    <3>2. req'[r].auth = token[t].auth /\ req'[r].late = token[t].stray
      BY <3>1 DEF TypeOK, Request
    <3>3. token[t].auth = password \/ token[t].stray \/ RevocationDue
      BY <2>1, <2>4 DEF SessionInv, SessionsFollowPassword
    <3>4. Placed(r)'
      BY <2>2, <3>2, <3>3, DueKept DEF Placed, Steady
    <3>5. Ending
      BY <2>1, <2>4 DEF Ending, TypeOK, Token
    <3> QED
      BY <2>2, <3>4, <3>5, SessionFrame
  <2> QED
    BY <1>6, <2>3, <2>4 DEF RefreshClaim
<1>7. ASSUME NEW r \in Requests, Replay(r) \/ ChangeRevoke(r) \/ ResetRevoke(r)
      PROVE  SessionInv'
  <2>1. PICK next : RevokeAll(r, next) /\
           (next.pc = "issue" => next.auth = password \/ next.late)
    <3> DEFINE a == [req[r] EXCEPT !.pc = "issue", !.late = Overtaken(r)]
               b == [req[r] EXCEPT !.pc = "reset-clean"]
    <3>1. CASE ChangeRevoke(r)
      <4>1. a.auth = req[r].auth /\ a.late = Overtaken(r)
        BY DEF TypeOK, Request
      <4>2. req[r].auth # password => Overtaken(r)
        BY <3>1 DEF ChangeRevoke, At, Overtaken
      <4>3. RevokeAll(r, a)
        BY <3>1 DEF ChangeRevoke
      <4> HIDE DEF a
      <4> QED
        BY <4>1, <4>2, <4>3
    <3>2. b.pc = "reset-clean"
      BY DEF TypeOK, Request
    <3> HIDE DEF b
    <3>3. CASE ResetRevoke(r)
      BY <3>2, <3>3 DEF ResetRevoke, b
    <3>4. CASE Replay(r)
      BY <3>4, IdleFields DEF Replay
    <3> QED
      BY <1>7, <3>1, <3>3, <3>4
  <2>2. \A t \in Tokens : token'[t].row # "live"
    BY <2>1, RevokedType DEF RevokeAll
  <2>3. password' = password
    BY <2>1 DEF RevokeAll
  <2>4. ASSUME NEW q \in Requests, req'[q].pc = "issue" PROVE Placed(q)'
    <3>1. CASE q = r
      BY <2>1, <2>3, <2>4, <3>1, RevokeMoves DEF OneMoves, Placed
    <3>2. CASE q # r
      <4>1. Same(q) /\ req'[q].late = Overtaken(q)
        BY <2>1, <3>2, RevokeMoves DEF OneMoves
      <4> QED
        BY <2>3, <2>4, <4>1 DEF Same, Overtaken, Placed
    <3> QED
      BY <3>1, <3>2
  <2> QED
    BY <2>2, <2>4 DEF SessionInv, SessionsFollowPassword, Placed
<1>8. ASSUME NEW r \in Requests, ChangeStore(r) \/ ResetStore(r) PROVE SessionInv'
  <2>1. req'[r].pc \in {"revoke", "reset-revoke"}
    <3>1. CASE ChangeStore(r)
      <4> DEFINE a == [req[r] EXCEPT !.pc = "revoke", !.auth = password + 1]
      <4>1. a.pc = "revoke"
        BY DEF TypeOK, Request
      <4>2. Become(r, a)
        BY <3>1 DEF ChangeStore
      <4> HIDE DEF a
      <4> QED
        BY <4>1, <4>2, BecomeMoves DEF OneMoves
    <3>2. CASE ResetStore(r)
      BY <3>2, GotoMoves DEF ResetStore
    <3> QED
      BY <1>8, <3>1, <3>2
  <2>2. RevocationDue'
    BY <2>1 DEF RevocationDue
  <2> QED
    BY <2>2 DEF SessionInv, SessionsFollowPassword
<1>9. ASSUME NEW r \in Requests, NEW i \in Resets, Reset(r, i) PROVE SessionInv'
  <2> DEFINE next == [Idle EXCEPT !.pc = "reset-claim", !.link = i]
  <2>1. next.pc = "reset-claim"
    BY DEF Idle
  <2>2. Become(r, next)
    BY <1>9 DEF Reset, Start
  <2> HIDE DEF next
  <2>3. /\ req'[r].pc # "issue"
        /\ \A q \in Requests : q # r => req'[q] = req[q]
    BY <2>1, <2>2, BecomeMoves DEF OneMoves
  <2> QED
    BY <1>9, <2>3, SessionFrame DEF Reset, Start, At, Steady, Ending
<1>10. ASSUME NEW r \in Requests, ResetClaim(r) PROVE SessionInv'
  <2>1. /\ req'[r].pc # "issue"
        /\ \A q \in Requests : q # r => req'[q] = req[q]
    <3>1. CASE Goto(r, "reset-store")
      BY <3>1, GotoMoves
    <3>2. CASE Answer(r)
      BY <3>2, BecomeMoves, IdleFields DEF Answer, OneMoves
    <3> QED
      BY <1>10, <3>1, <3>2 DEF ResetClaim
  <2> QED
    BY <1>10, <2>1, SessionFrame DEF ResetClaim, At, Steady, Ending
<1>11. ASSUME NEW t \in Tokens, Logout(t) PROVE SessionInv'
  <2>1. Ending
    BY <1>11 DEF Logout, Ending, TypeOK, Token
  <2>2. password' = password /\ req' = req /\ unrevoked' = unrevoked
    BY <1>11 DEF Logout
  <2> QED
    BY <2>1, <2>2 DEF Ending, SessionInv, SessionsFollowPassword, RevocationDue
<1>12. CASE UNCHANGED vars
  BY <1>12 DEF vars, SessionInv, SessionsFollowPassword, RevocationDue
<1> QED
  BY <1>1, <1>2, <1>3, <1>4, <1>5, <1>6, <1>7, <1>8, <1>9, <1>10, <1>11,
     <1>12 DEF Next

-----------------------------------------------------------------------------
(* The theorems.                                                           *)

\* The invariant of the sessions and the links.
THEOREM Invariance == Spec => []IInv
<1>1. IInv /\ [Next]_vars => IInv'
  <2> SUFFICES ASSUME IInv, [Next]_vars PROVE IInv'
    OBVIOUS
  <2>1. TypeOK'
    BY TypeStep DEF IInv, RotationInv
  <2>2. BornInv'
    BY <2>1, BornStep DEF IInv, RotationInv
  <2>3. RotationInv' /\ ResetInv'
    BY <2>1, RotationStep, ResetStep DEF IInv
  <2>4. SessionInv'
    BY <2>1, SessionStep DEF IInv
  <2> QED
    BY <2>1, <2>2, <2>3, <2>4 DEF IInv
<1> QED
  BY <1>1, IInvInit, PTL DEF Spec

\* The variables have the types of the rows and the requests.
THEOREM TypeCorrect == Spec => []TypeOK
BY Invariance, PTL DEF IInv

\* However many requests refresh with one token, one succeeds at most.
THEOREM Rotation == Spec => []RotatedOnce
BY Invariance, PTL DEF IInv, RotationInv

\* A reset link sets one password at most.
THEOREM Redemption == Spec => []ResetOnce
BY Invariance, PTL DEF IInv, ResetInv

\* The live sessions go back to the stored password, save the exceptions that
\* the property names.
THEOREM Sessions == Spec => []SessionsFollowPassword
BY Invariance, PTL DEF IInv, SessionInv

\* A new row of a token leaves the rest of it, and the other tokens, alone.
LEMMA RowMoved ==
    ASSUME TypeOK, NEW t, NEW row, token' = [token EXCEPT ![t].row = row]
    PROVE  \A u \in Tokens :
              /\ token'[u].row = (IF u = t THEN row ELSE token[u].row)
              /\ token'[u].auth = token[u].auth /\ token'[u].from = token[u].from
<1> SUFFICES ASSUME NEW u \in Tokens
             PROVE  /\ token'[u].row = (IF u = t THEN row ELSE token[u].row)
                    /\ token'[u].auth = token[u].auth
                    /\ token'[u].from = token[u].from
  OBVIOUS
<1>1. token'[u] = IF u = t THEN [token[u] EXCEPT !.row = row] ELSE token[u]
  BY DEF TypeOK
<1>2. token[u] \in Token
  BY DEF TypeOK
<1> QED
  BY <1>1, <1>2 DEF Token

\* Nothing spent is good again: a refresh token that was rotated, revoked or
\* logged out never becomes live, nor a reset link that was used or replaced
\* open, and a stored token keeps the authority it was issued on.
NoRevival ==
    [][/\ \A t \in Tokens :
             /\ token[t].row \in {"revoked", "deleted"} =>
                   token'[t].row \in {"revoked", "deleted"}
             /\ token[t].row # "none" =>
                   /\ token'[t].row # "none"
                   /\ token'[t].auth = token[t].auth
                   /\ token'[t].from = token[t].from
       /\ \A i \in Resets :
             reset[i] \in {"used", "deleted"} => reset'[i] \in {"used", "deleted"}]_vars

\* No request brings a token or a link back, whatever it had read before the
\* row was spent.
THEOREM SpentForGood == Spec => NoRevival
<1> DEFINE TokensOnward == \A t \in Tokens :
             /\ token[t].row \in {"revoked", "deleted"} =>
                   token'[t].row \in {"revoked", "deleted"}
             /\ token[t].row # "none" =>
                   /\ token'[t].row # "none"
                   /\ token'[t].auth = token[t].auth
                   /\ token'[t].from = token[t].from
           LinksOnward == \A i \in Resets :
             reset[i] \in {"used", "deleted"} => reset'[i] \in {"used", "deleted"}
<1>1. ASSUME TypeOK, Next PROVE TokensOnward
  <2>1. CASE UNCHANGED token
    BY <2>1
  <2>2. ASSUME NEW r \in Requests, Issue(r) PROVE TokensOnward
    <3>1. PICK t \in Tokens :
             token[t].row = "none" /\ \A u \in Tokens : u # t => token'[u] = token[u]
      BY <2>2 DEF Issue, Next1, Rows, TypeOK
    <3> QED
      BY <3>1
  <2>3. ASSUME NEW r \in Requests, RefreshClaim(r) PROVE TokensOnward
    <3>1. CASE token' = [token EXCEPT ![req[r].tok].row = "revoked"]
      <4>1. \A u \in Tokens :
               /\ token'[u].row =
                     (IF u = req[r].tok THEN "revoked" ELSE token[u].row)
               /\ token'[u].auth = token[u].auth /\ token'[u].from = token[u].from
        BY <1>1, <3>1, RowMoved
      <4> QED
        BY <4>1
    <3> QED
      BY <2>1, <2>3, <3>1 DEF RefreshClaim
  <2>4. ASSUME token' = Revoked PROVE TokensOnward
    BY <1>1, <2>4, RevokedType
  <2>5. ASSUME NEW t \in Tokens, Logout(t) PROVE TokensOnward
    BY <1>1, <2>5, RowMoved DEF Logout
  <2> QED
    BY <1>1, <2>1, <2>2, <2>3, <2>4, <2>5 DEF Next, Register, RegisterCreate,
       Login, Refresh, Replay, RevokeAll, Change, ChangeStore, ChangeRevoke,
       Forgot, ForgotCreate, Reset, ResetClaim, ResetStore, ResetRevoke,
       ResetClean, Die
<1>2. ASSUME TypeOK, Next PROVE LinksOnward
  <2>1. CASE UNCHANGED reset
    BY <2>1
  <2>2. ASSUME NEW r \in Requests,
               Forgot(r) \/ ForgotCreate(r) \/ ResetClaim(r) \/ ResetClean(r)
        PROVE  LinksOnward
    BY <1>2, <2>2 DEF Forgot, ForgotCreate, ResetClaim, ResetClean, Next1, TypeOK
  <2> QED
    BY <1>2, <2>1, <2>2 DEF Next, Register, RegisterCreate, Login, Issue,
       Refresh, RefreshClaim, Replay, RevokeAll, Change, ChangeStore,
       ChangeRevoke, Reset, ResetStore, ResetRevoke, Die, Logout
<1>3. TypeOK /\ [Next]_vars => [TokensOnward /\ LinksOnward]_vars
  BY <1>1, <1>2
<1> QED
  BY <1>3, TypeCorrect, PTL DEF Spec, NoRevival
=============================================================================
