------------------------------ MODULE Sessions ------------------------------
(***************************************************************************)
(* Refresh sessions: chains of rotating tokens, of users and of super admins. *)
(* backend/app/modules/auth/service.py, users/service.py,                     *)
(* super_admin/auth/service.py and the session commands of cli.py.             *)
(*                                                                          *)
(* A rotation holds the row lock of the token it was given until it commits.  *)
(* A revocation is one UPDATE: the rows it will touch are those that were live *)
(* and committed when it began; it waits for the locks on them and leaves      *)
(* alone what was revoked meanwhile.  A token inserted after it began is       *)
(* missed.  Only the hash of a token is stored, here the token itself.        *)
(***************************************************************************)
EXTENDS Naturals, FiniteSets

CONSTANTS
    Tokens,    \* the refresh tokens ever issued
    Holders,   \* users and super admins
    Admins,    \* the super admins among them
    Handlers,  \* requests at a time
    None       \* no token, nobody

ASSUME SessionsAssumption == Admins \subseteq Holders /\ None \notin Tokens \cup Holders

VARIABLES
    token,     \* token[t]: unused, live, revoked, or pruned
    family,    \* family[t]: the first token of t's chain
    owner,     \* owner[t]: whose it is; nobody's before it is issued
    expired,   \* the tokens past expires_at
    active,    \* the holders that are not disabled
    handler,   \* handler[h]: its request
    ended      \* the families revoked while nothing rotated in them (history)

sessionVars == <<token, family, owner, expired, active, handler, ended>>

Waiting == [kind |-> "idle", token |-> None, targets |-> {}, met |-> {}]

SessionsInit ==
    /\ token = [t \in Tokens |-> "unused"]
    /\ family = [t \in Tokens |-> None]
    /\ owner = [t \in Tokens |-> None]
    /\ expired = {}
    /\ active = Holders
    /\ handler = [h \in Handlers |-> Waiting]
    /\ ended = {}

Live(t) == token[t] = "live"

\* Tokens are random: which one is issued next makes no difference.
Fresh(t) == t = CHOOSE o \in Tokens : token[o] = "unused"

FamilyOf(t) == {o \in Tokens : family[o] = family[t]}

\* Mutant: a token is read without its lock.
Unlocked(t, h) == TRUE

\* with_for_update: no other request has the row of t locked.
LockFree(t, h) == \A o \in Handlers \ {h} : handler[o].token # t

\* The families of S in which a rotation is under way.
RotatingIn(S) ==
    {family[t] : t \in S}
        \cap {family[handler[h].token] : h \in {o \in Handlers : handler[o].kind = "rotate"}}

(***************************************************************************)
(* Requests                                                                  *)
(***************************************************************************)

\* register, login: the first token of a new family.
Login(u, t) ==
    /\ token[t] = "unused" /\ Fresh(t) /\ u \in active
    /\ token' = [token EXCEPT ![t] = "live"]
    /\ family' = [family EXCEPT ![t] = t]
    /\ owner' = [owner EXCEPT ![t] = u]
    /\ UNCHANGED <<expired, active, handler, ended>>

\* The UPDATE over S starts: it will revoke what is live of S now, if anything.
BeginRevoke(h, held, S) ==
    LET targets == {t \in S : Live(t)} IN
    /\ targets # {}
    /\ handler' = [handler EXCEPT ![h] =
                     [kind |-> "revoke", token |-> held, targets |-> targets,
                      met |-> RotatingIn(targets)]]

\* A token that was revoked before is played again: the family is revoked.
Replay(h, t) ==
    /\ handler[h] = Waiting /\ LockFree(t, h)
    /\ token[t] = "revoked"
    /\ BeginRevoke(h, t, FamilyOf(t))
    /\ UNCHANGED <<token, family, owner, expired, active, ended>>

\* logout: the family of the token, which is looked up without a lock.
Logout(h, t) ==
    /\ handler[h] = Waiting
    /\ token[t] \in {"live", "revoked"}
    /\ BeginRevoke(h, None, FamilyOf(t))
    /\ UNCHANGED <<token, family, owner, expired, active, ended>>

\* logout_all, and a new password: every session of u.
RevokeAll(h, u) ==
    /\ handler[h] = Waiting
    /\ BeginRevoke(h, None, {t \in Tokens : owner[t] = u})
    /\ UNCHANGED <<token, family, owner, expired, active, ended>>

\* A token that is expired, or whose admin is disabled, is revoked alone.
\* A disabled user's is rotated all the same.
RejectToken(h, t) ==
    /\ handler[h] = Waiting /\ LockFree(t, h) /\ Live(t)
    /\ t \in expired \/ owner[t] \in Admins \ active
    /\ token' = [token EXCEPT ![t] = "revoked"]
    /\ UNCHANGED <<family, owner, expired, active, handler, ended>>

\* rotate: the presented token is locked and found good; its successor is
\* written but not committed.  Revocations that have begun will miss that one.
RotateBegin(h, t) ==
    /\ handler[h] = Waiting /\ LockFree(t, h) /\ Live(t)
    /\ t \notin expired /\ (owner[t] \in Admins => owner[t] \in active)
    /\ handler' = [o \in Handlers |->
                     IF o = h THEN [Waiting EXCEPT !.kind = "rotate", !.token = t]
                     ELSE IF \E x \in handler[o].targets : family[x] = family[t]
                       THEN [handler[o] EXCEPT !.met = @ \cup {family[t]}]
                     ELSE handler[o]]
    /\ UNCHANGED <<token, family, owner, expired, active, ended>>

RotateCommit(h, new) ==
    LET t == handler[h].token IN
    /\ handler[h].kind = "rotate"
    /\ token[new] = "unused" /\ Fresh(new)
    /\ token' = [token EXCEPT ![t] = "revoked", ![new] = "live"]
    /\ family' = [family EXCEPT ![new] = family[t]]
    /\ owner' = [owner EXCEPT ![new] = owner[t]]
    /\ handler' = [handler EXCEPT ![h] = Waiting]
    /\ UNCHANGED <<expired, active, ended>>

\* Mutant: only the session that was presented is revoked.
Presented(h) == handler[h].targets \cap {handler[h].token}

Revoked(h) == handler[h].targets

\* The families of which this revocation leaves nothing alive.
EndedBy(h) == {family[t] : t \in handler[h].targets} \ (handler[h].met \cup {None})

RevokeCommit(h) ==
    /\ handler[h].kind = "revoke"
    /\ \A t \in handler[h].targets : LockFree(t, h)
    /\ token' = [t \in Tokens |-> IF t \in Revoked(h) /\ Live(t) THEN "revoked" ELSE token[t]]
    /\ ended' = ended \cup EndedBy(h)
    /\ handler' = [handler EXCEPT ![h] = Waiting]
    /\ UNCHANGED <<family, owner, expired, active>>

\* An error or a crash rolls the transaction back.
Drop(h) ==
    /\ handler[h] # Waiting
    /\ handler' = [handler EXCEPT ![h] = Waiting]
    /\ UNCHANGED <<token, family, owner, expired, active, ended>>

(***************************************************************************)
(* Time and administration                                                   *)
(***************************************************************************)

Expire(t) ==
    /\ Live(t) /\ t \notin expired
    /\ expired' = expired \cup {t}
    /\ UNCHANGED <<token, family, owner, active, handler, ended>>

\* Super admins are disabled and enabled again; nothing does that to a user.
SetActive(u, b) ==
    /\ u \in Admins
    /\ active' = IF b THEN active \cup {u} ELSE active \ {u}
    /\ UNCHANGED <<token, family, owner, expired, handler, ended>>

\* prune-sessions: what is expired or revoked is deleted, once unlocked.
Prune ==
    LET stale == {t \in Tokens : token[t] = "revoked" \/ (Live(t) /\ t \in expired)}
    IN  /\ stale # {} /\ \A t \in stale, h \in Handlers : handler[h].token # t
        /\ token' = [t \in Tokens |-> IF t \in stale THEN "pruned" ELSE token[t]]
        /\ family' = [t \in Tokens |-> IF t \in stale THEN None ELSE family[t]]
        /\ owner' = [t \in Tokens |-> IF t \in stale THEN None ELSE owner[t]]
        /\ expired' = expired \ stale
        /\ UNCHANGED <<active, handler, ended>>

SessionsNext ==
    \/ \E t \in Tokens : Expire(t) \/ \E u \in Holders : Login(u, t)
    \/ \E h \in Handlers :
        \/ \E t \in Tokens : \/ Replay(h, t) \/ Logout(h, t) \/ RejectToken(h, t)
                             \/ RotateBegin(h, t) \/ RotateCommit(h, t)
        \/ \E u \in Holders : RevokeAll(h, u)
        \/ RevokeCommit(h) \/ Drop(h)
    \/ \E u \in Holders, b \in BOOLEAN : SetActive(u, b)
    \/ Prune

SessionsSpec == SessionsInit /\ [][SessionsNext]_sessionVars

(***************************************************************************)
(* Properties                                                                *)
(***************************************************************************)

SessionsTypeOK ==
    /\ token \in [Tokens -> {"unused", "live", "revoked", "pruned"}]
    /\ family \in [Tokens -> Tokens \cup {None}]
    /\ owner \in [Tokens -> Holders \cup {None}]
    /\ expired \subseteq Tokens /\ active \subseteq Holders
    /\ handler \in [Handlers -> [kind : {"idle", "rotate", "revoke"},
                                 token : Tokens \cup {None},
                                 targets : SUBSET Tokens,
                                 met : SUBSET (Tokens \cup {None})]]
    /\ ended \subseteq Tokens

\* Of a chain of tokens one at most is good, however many refreshes, logouts,
\* password changes and prunings run at once (rotate_refresh_token: "two
\* concurrent refreshes of the same token serialise").
OneLiveToken ==
    \A t, o \in Tokens : Live(t) /\ Live(o) /\ family[t] = family[o] => t = o

\* A family that was revoked, by a logout, a replayed token or a new password,
\* while no refresh of it was under way never has a good token again
\* (revoke_family, revoke_all_for_user).
DeadFamilyStaysDead ==
    \A t \in Tokens : family[t] \in ended => ~Live(t)
=============================================================================
