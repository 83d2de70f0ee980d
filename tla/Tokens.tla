------------------------------- MODULE Tokens -------------------------------
(***************************************************************************)
(* The token pairs of users, after backend/app/identity/service.py,        *)
(* blacklist.py, router.py and core/security.py.  A refresh token is a     *)
(* signed statement of the user and the second of its issue, so that two   *)
(* tokens of one user and one second are the same token; Redis holds an    *)
(* entry for each that is revoked, for whole seconds from an instant       *)
(* within one.  The clock is therefore one of half seconds.  Rights and    *)
(* roles are in Permissions, logins in Accounts.                           *)
(***************************************************************************)
EXTENDS Handlers, Integers

CONSTANTS
    Users,
    AccessTime, RefreshTime,   \* how many seconds the two tokens of a pair are valid
    MaxTime                    \* bound on the clock

VARIABLES
    now, active,               \* the clock, in half seconds; table users: is_active
    revoked,                   \* Redis: until when the blacklist has an entry of each refresh token
    issued,                    \* tokens that were handed to a client
    repeated,                  \* those that were handed out twice, in one second
    held,                      \* those that no client has handed in, to exchange them or to log out
    spent,                     \* those that were exchanged for a new pair
    twice,                     \* those that were exchanged again, with the time
    logged                     \* table audit_logs: the pairs that LOGIN_SUCCESS or TOKEN_REFRESHED tells of

tokenTables == <<active, revoked, logged>>
tokenGhosts == <<issued, repeated, held, spent, twice>>
tokenVars   == <<now, tokenTables, tokenGhosts, alone, sess>>

Times  == 0 .. MaxTime
Tokens == Users \X {time \div 2 : time \in Times}
\* create_refresh_token and create_access_token: iat and exp in whole seconds
Token(u) == <<u, now \div 2>>
Exp(t)   == t[2] + RefreshTime
\* decode_token: a token is accepted through the second in which it expires
Valid(t, life) == t[2] + life >= now \div 2
TypeOK ==
    /\ now \in Times /\ active \in [Users -> BOOLEAN] /\ revoked \in [Tokens -> Nat]
    /\ UNION {issued, repeated, held, spent, logged} \subseteq Tokens
    /\ twice \subseteq Tokens \X Times
Init ==
    /\ now = 0 /\ active = [u \in Users |-> TRUE]
    /\ revoked = [t \in Tokens |-> 0] /\ logged = {} /\ AllIdle
    /\ issued = {} /\ repeated = {} /\ held = {} /\ spent = {} /\ twice = {}
-----------------------------------------------------------------------------
\* get_current_user: a valid access token of an active user
SignedIn(u) == active[u] /\ \E t \in issued : t[1] = u /\ Valid(t, AccessTime)
\* is_revoked: while its entry is there
OnBlacklist(t) == revoked[t] > now
\* decode_token of a refresh token that is not on the blacklist
Accepted(t) == ~OnBlacklist(t) /\ Valid(t, RefreshTime)

\* login, once the password was right (Accounts)
Login(s, u) == active[u] /\ Begin(s, [op |-> "pair", stage |-> "audit", user |-> u, old |-> <<>>])
\* refresh_token_pair: the blacklist, then the user, then the new pair and the old
\* token's revocation
Refresh(s, t) == Accepted(t) /\ Begin(s, [op |-> "pair", stage |-> "load", user |-> t[1], old |-> t])
LoadAnyUser(s) ==
    /\ sess[s].op = "pair" /\ sess[s].stage = "load"
    /\ Go(s, [sess[s] EXCEPT !.stage = "revoke"])
    /\ UNCHANGED <<now, tokenTables, tokenGhosts>>
LoadUser(s) ==
    /\ sess[s].op = "pair" /\ sess[s].stage = "load"
    /\ IF active[sess[s].user] THEN Go(s, [sess[s] EXCEPT !.stage = "revoke"]) ELSE Finish(s)
    /\ UNCHANGED <<now, tokenTables, tokenGhosts>>
NotRevoked(t) == revoked
\* revoke_refresh_token: an entry for the whole seconds that are left, if there are
\* any; in the last second before the expiry and in that of the expiry there are none
RemainingOfAccess(t) == (2 * (t[2] + AccessTime) - now) \div 2
Remaining(t) == (2 * Exp(t) - now) \div 2
Revoked(t) ==
    IF Valid(t, RefreshTime) /\ Remaining(t) > 0
    THEN [revoked EXCEPT ![t] = now + 2 * Remaining(t)] ELSE revoked
RevokeOld(s) ==
    /\ sess[s].op = "pair" /\ sess[s].stage = "revoke"
    /\ revoked' = Revoked(sess[s].old) /\ held' = held \ {sess[s].old}
    /\ Go(s, [sess[s] EXCEPT !.stage = "audit"])
    /\ UNCHANGED <<now, active, logged, issued, repeated, spent, twice>>
\* The audit row is committed, then the pair is handed out.
AuditPair(s) ==
    /\ sess[s].op = "pair" /\ sess[s].stage = "audit"
    /\ logged' = logged \cup {Token(sess[s].user)}
    /\ Go(s, [sess[s] EXCEPT !.stage = "answer"])
    /\ UNCHANGED <<now, active, revoked, tokenGhosts>>
HandOut(s) ==
    /\ sess[s].op = "pair" /\ sess[s].stage = "answer"
    /\ LET t == Token(sess[s].user)
           old == {sess[s].old} \ {<<>>} IN
       /\ issued' = issued \cup {t} /\ held' = held \cup {t}
       /\ repeated' = repeated \cup (issued \cap {t})
       /\ spent' = spent \cup old
       /\ twice' = twice \cup ((spent \cap old) \X {now})
    /\ Finish(s) /\ UNCHANGED <<now, tokenTables>>

\* logout: who is signed in gives up a refresh token; the audit row follows
Logout(s, u, t) ==
    SignedIn(u) /\ Begin(s, [op |-> "logout", old |-> t])
LogoutCommit(s) ==
    /\ sess[s].op = "logout"
    /\ revoked' = Revoked(sess[s].old) /\ held' = held \ {sess[s].old}
    /\ Finish(s) /\ UNCHANGED <<now, active, logged, issued, repeated, spent, twice>>
\* soft_delete_employee
Deactivate(s, u) == active[u] /\ Begin(s, [op |-> "deactivate", user |-> u])
DeactivateCommit(s) ==
    /\ sess[s].op = "deactivate"
    /\ active' = [active EXCEPT ![sess[s].user] = FALSE]
    /\ Finish(s) /\ UNCHANGED <<now, revoked, logged, tokenGhosts>>
\* Time passes between the handlers.
Tick == /\ now < MaxTime /\ \A s \in Sessions : sess[s] = Idle
        /\ now' = now + 1 /\ UNCHANGED <<tokenTables, tokenGhosts, alone, sess>>

Step(s) ==
    \/ /\ \/ \E u \in Users : Login(s, u) \/ Deactivate(s, u) \/ \E t \in issued : Logout(s, u, t)
          \/ \E t \in issued : Refresh(s, t)
          \/ Abort(s)
       /\ UNCHANGED <<now, tokenTables, tokenGhosts>>
    \/ LoadUser(s) \/ RevokeOld(s) \/ AuditPair(s) \/ HandOut(s)
    \/ LogoutCommit(s) \/ DeactivateCommit(s)
Next == Tick \/ \E s \in Sessions : Step(s)
Spec == Init /\ [][Next]_tokenVars
-----------------------------------------------------------------------------
\* A refresh token is exchanged once, and again, if ever, only after the last whole
\* second before its expiry, when its entry may be gone from the blacklist (handlers
\* that do not overlap: of those that do, each may find it off the blacklist).
ExchangedOnce == alone => \A x \in twice : x[2] > 2 * (Exp(x[1]) - 1)

\* A pair that its client has not handed in works while it lives: whatever overlaps,
\* nobody else's exchange or logout takes it away.  A token handed out twice in one
\* second is left out, for there it may.
HeldPairsWork == \A t \in held \ repeated : Valid(t, RefreshTime) => Accepted(t)

\* Whatever overlaps or is cut off, no pair is handed out that the audit log does not
\* tell of.
PairsLogged == issued \subseteq logged

\* Who was deactivated gets no pair, whatever tokens are left (handlers that do not
\* overlap).
DeactivatedStaysOut == [][alone => \A t \in issued' \ issued : active[t[1]]]_tokenVars
=============================================================================
