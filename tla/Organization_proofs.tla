------------------------- MODULE Organization_proofs -------------------------
(***************************************************************************)
(* Proofs about three parts of an organization that share no state: its        *)
(* sessions, its members with their roles, and the records its history names.  *)
(* Each holds for any sets of them and any number of requests at a time.        *)
(***************************************************************************)
EXTENDS Sessions, Members, Records, TLAPS

-----------------------------------------------------------------------------
(***************************************************************************)
(* A chain of refresh tokens has one good token at most, and none after it    *)
(* was revoked, for any tokens, holders and number of requests at a time.      *)
(*                                                                          *)
(* OneLiveToken rests on the row lock: a rotation that commits still holds a   *)
(* live token, and that one dies as its successor is born.                    *)
(* DeadFamilyStaysDead rests on the UPDATE of a revocation having seen every   *)
(* live token of a family in which nothing rotated since it began.            *)
(***************************************************************************)

\* Two requests never hold the row of one token.
LocksAreExclusive ==
    \A h, g \in Handlers :
        handler[h].token \in Tokens /\ handler[h].token = handler[g].token => h = g

\* The token a rotation was given is live until it commits.
RotatingIsLive ==
    \A h \in Handlers :
        handler[h].kind = "rotate" => handler[h].token \in Tokens /\ Live(handler[h].token)

\* Families are named after a token that was issued, and live tokens have one.
FamiliesAreFounded ==
    /\ \A t \in Tokens : family[t] # None => token[family[t]] # "unused"
    /\ \A t \in Tokens : Live(t) => family[t] # None
    /\ \A f \in ended : token[f] # "unused"

FamiliesHaveOneOwner ==
    \A t, o \in Tokens : family[t] # None /\ family[t] = family[o] => owner[t] = owner[o]

\* A token t that revocation h will touch was issued; unless something rotated in
\* its family since h began, h will touch every live token of the family.
Covers(h, t) ==
    /\ token[t] # "unused"
    /\ family[t] # None =>
        /\ \A g \in Handlers :
               handler[g].kind = "rotate" /\ family[handler[g].token] = family[t]
                 => family[t] \in handler[h].met
        /\ family[t] \notin handler[h].met =>
               \A o \in Tokens : Live(o) /\ family[o] = family[t] => o \in handler[h].targets

TargetsAreWhole == \A h \in Handlers : \A t \in handler[h].targets : Covers(h, t)

SessionsIInv ==
    /\ SessionsTypeOK /\ OneLiveToken /\ DeadFamilyStaysDead
    /\ LocksAreExclusive /\ RotatingIsLive
    /\ FamiliesAreFounded /\ FamiliesHaveOneOwner /\ TargetsAreWhole

-----------------------------------------------------------------------------
\* Nothing is issued and nobody asks at the start.
LEMMA SessionsInitIInv == SessionsInit => SessionsIInv
BY SessionsAssumption
   DEF SessionsInit, SessionsIInv, SessionsTypeOK, OneLiveToken, DeadFamilyStaysDead,
       LocksAreExclusive, RotatingIsLive, FamiliesAreFounded, FamiliesHaveOneOwner,
       TargetsAreWhole, Live, Waiting

\* A revocation that begins keeps the invariant: nothing has rotated in its
\* families but what is rotating now (revoke_family, revoke_all_for_user).
LEMMA BeginningKeepsIInv ==
    ASSUME SessionsIInv, NEW h \in Handlers, handler[h] = Waiting,
           NEW held \in Tokens \cup {None}, NEW S \in SUBSET Tokens, BeginRevoke(h, held, S),
           held \in Tokens => LockFree(held, h),
           \A t \in S, o \in Tokens :
               family[t] # None /\ Live(t) /\ family[o] = family[t] => o \in S,
           UNCHANGED <<token, family, owner, expired, active, ended>>
    PROVE  SessionsIInv'
<1> DEFINE targets == {t \in S : Live(t)}
<1>1. /\ targets \subseteq Tokens /\ \A t \in targets : Live(t) /\ token[t] # "unused"
      /\ RotatingIn(targets) \subseteq Tokens \cup {None}
      /\ handler' = [handler EXCEPT ![h] = [kind |-> "revoke", token |-> held,
                                             targets |-> targets, met |-> RotatingIn(targets)]]
  BY DEF BeginRevoke, Live, RotatingIn, SessionsIInv, SessionsTypeOK
<1> HIDE DEF targets
<1>2. \A g \in Handlers \ {h} : handler'[g] = handler[g]
  BY <1>1 DEF SessionsIInv, SessionsTypeOK
<1>3. /\ handler'[h].kind = "revoke" /\ handler'[h].token = held
      /\ handler'[h].targets = targets /\ handler'[h].met = RotatingIn(targets)
  BY <1>1 DEF SessionsIInv, SessionsTypeOK
<1>4. SessionsTypeOK'
  BY <1>1 DEF SessionsIInv, SessionsTypeOK
<1>5. (OneLiveToken /\ DeadFamilyStaysDead /\ FamiliesAreFounded /\ FamiliesHaveOneOwner)'
  BY DEF SessionsIInv, OneLiveToken, DeadFamilyStaysDead, FamiliesAreFounded,
         FamiliesHaveOneOwner, Live
<1>6. LocksAreExclusive'
  BY <1>2, <1>3 DEF SessionsIInv, LocksAreExclusive, LockFree
<1>7. RotatingIsLive'
  BY <1>2, <1>3 DEF SessionsIInv, RotatingIsLive, Live
<1>8. TargetsAreWhole'
  <2> SUFFICES ASSUME NEW j \in Handlers, NEW t \in handler'[j].targets
               PROVE  Covers(j, t)'
    BY DEF TargetsAreWhole
  <2>1. CASE j = h
    <3>1. t \in S /\ Live(t) /\ token[t] # "unused"
      BY <2>1, <1>1, <1>3 DEF targets
    <3>2. \A g \in Handlers :
             handler'[g].kind = "rotate" /\ family[handler'[g].token] = family[t]
               => family[t] \in handler'[j].met
      BY <2>1, <1>2, <1>3 DEF RotatingIn
    <3>3. family[t] # None =>
            \A o \in Tokens : Live(o) /\ family[o] = family[t] => o \in handler'[j].targets
      BY <2>1, <1>3, <3>1 DEF targets
    <3> QED
      BY <3>1, <3>2, <3>3 DEF Covers, Live
  <2>2. CASE j # h
    BY <2>2, <1>2, <1>3 DEF SessionsIInv, TargetsAreWhole, Covers, Live
  <2> QED
    BY <2>1, <2>2
<1> QED
  BY <1>4, <1>5, <1>6, <1>7, <1>8 DEF SessionsIInv

\* A replay, a logout and a new password all revoke whole families.
LEMMA RevokingKeepsIInv ==
    ASSUME SessionsIInv, NEW h \in Handlers,
           (\E t \in Tokens : Replay(h, t) \/ Logout(h, t)) \/ (\E u \in Holders : RevokeAll(h, u))
    PROVE  SessionsIInv'
<1>1. None \notin Tokens
  BY SessionsAssumption
<1>2. ASSUME NEW t \in Tokens, Replay(h, t) \/ Logout(h, t)
      PROVE  SessionsIInv'
  <2>1. FamilyOf(t) \subseteq Tokens
        /\ \A x \in FamilyOf(t), o \in Tokens : family[o] = family[x] => o \in FamilyOf(t)
    BY DEF FamilyOf
  <2> QED
    BY <1>1, <1>2, <2>1, BeginningKeepsIInv DEF Replay, Logout
<1>3. ASSUME NEW u \in Holders, RevokeAll(h, u)
      PROVE  SessionsIInv'
  <2> DEFINE S == {t \in Tokens : owner[t] = u}
  <2>1. \A x \in S, o \in Tokens : family[x] # None /\ family[o] = family[x] => o \in S
    BY DEF SessionsIInv, FamiliesHaveOneOwner
  <2>2. S \in SUBSET Tokens /\ handler[h] = Waiting /\ BeginRevoke(h, None, S)
        /\ UNCHANGED <<token, family, owner, expired, active, ended>>
    BY <1>3 DEF RevokeAll
  <2> HIDE DEF S
  <2> QED
    BY <1>1, <2>1, <2>2, BeginningKeepsIInv
<1> QED
  BY <1>2, <1>3

\* The first token of a family founds it (create_refresh_token).
LEMMA LoginKeepsIInv ==
    ASSUME SessionsIInv, NEW u \in Holders, NEW t \in Tokens, Login(u, t)
    PROVE  SessionsIInv'
<1>1. /\ token[t] = "unused" /\ t # None
      /\ token' = [token EXCEPT ![t] = "live"] /\ family' = [family EXCEPT ![t] = t]
      /\ owner' = [owner EXCEPT ![t] = u] /\ UNCHANGED <<expired, active, handler, ended>>
  BY SessionsAssumption DEF Login
<1>2. /\ \A o \in Tokens \ {t} : token'[o] = token[o] /\ family'[o] = family[o]
                                 /\ owner'[o] = owner[o]
      /\ token'[t] = "live" /\ family'[t] = t /\ owner'[t] = u
  BY <1>1 DEF SessionsIInv, SessionsTypeOK
<1>3. \A o \in Tokens : family[o] # t
  BY <1>1 DEF SessionsIInv, FamiliesAreFounded
<1>4. SessionsTypeOK'
  BY <1>1 DEF SessionsIInv, SessionsTypeOK
<1>5. OneLiveToken'
  BY <1>2, <1>3 DEF SessionsIInv, OneLiveToken, Live
<1>6. DeadFamilyStaysDead'
  BY <1>1, <1>2 DEF SessionsIInv, DeadFamilyStaysDead, FamiliesAreFounded, Live
<1>7. LocksAreExclusive'
  BY <1>1 DEF SessionsIInv, LocksAreExclusive
<1>8. RotatingIsLive'
  BY <1>1, <1>2 DEF SessionsIInv, RotatingIsLive, Live
<1>9. FamiliesAreFounded'
  <2>1. \A o \in Tokens : family'[o] # None => token'[family'[o]] # "unused"
    BY <1>2 DEF SessionsIInv, SessionsTypeOK, FamiliesAreFounded
  <2> QED
    BY <1>1, <1>2, <2>1 DEF SessionsIInv, SessionsTypeOK, FamiliesAreFounded, Live
<1>10. FamiliesHaveOneOwner'
  BY <1>2, <1>3 DEF SessionsIInv, FamiliesHaveOneOwner
<1>11. TargetsAreWhole'
  <2>1. \A j \in Handlers : \A o \in handler[j].targets : o \in Tokens \ {t}
    BY <1>1 DEF SessionsIInv, SessionsTypeOK, TargetsAreWhole, Covers
  <2>2. \A g \in Handlers :
          handler[g].kind = "rotate" => handler[g].token \in Tokens \ {t}
    BY <1>1 DEF SessionsIInv, RotatingIsLive, Live
  <2>3. \A o \in Tokens \ {t} : token'[o] = token[o] /\ family'[o] = family[o] /\ family[o] # t
    BY <1>2, <1>3
  <2> QED
    BY <1>1, <1>2, <2>1, <2>2, <2>3 DEF SessionsIInv, TargetsAreWhole, Live, Covers
<1> QED
  BY <1>4, <1>5, <1>6, <1>7, <1>8, <1>9, <1>10, <1>11 DEF SessionsIInv

\* What only revokes tokens that no rotation holds and lets go of requests keeps
\* the invariant, if the families it declares dead are (rotate_refresh_token,
\* revoke_family).
LEMMA RevokedStaysIInv ==
    ASSUME SessionsIInv, SessionsTypeOK', UNCHANGED <<family, owner>>,
           \A f \in ended' \ ended : f \in Tokens /\ token[f] # "unused"
                                     /\ \A t \in Tokens : family[t] = f => ~Live(t)',
           \A t \in Tokens : token'[t] = token[t] \/ (Live(t) /\ token'[t] = "revoked"),
           \A g \in Handlers : handler'[g] = handler[g] \/ handler'[g] = Waiting,
           \A g \in Handlers : handler'[g].kind = "rotate" =>
               token'[handler[g].token] = token[handler[g].token]
    PROVE  SessionsIInv'
<1>1. None \notin Tokens
  BY SessionsAssumption
<1>2. \A t \in Tokens : Live(t)' => Live(t)
  BY DEF Live
<1>3. \A t \in Tokens : token[t] # "unused" => token'[t] # "unused"
  OBVIOUS
<1>4. (OneLiveToken /\ DeadFamilyStaysDead)'
  BY <1>2 DEF SessionsIInv, OneLiveToken, DeadFamilyStaysDead
<1>5. LocksAreExclusive'
  BY <1>1 DEF SessionsIInv, LocksAreExclusive, Waiting
<1>6. RotatingIsLive'
  BY DEF SessionsIInv, RotatingIsLive, Live, Waiting
<1>7. (FamiliesAreFounded /\ FamiliesHaveOneOwner)'
  BY <1>2, <1>3 DEF SessionsIInv, SessionsTypeOK, FamiliesAreFounded, FamiliesHaveOneOwner
<1>8. TargetsAreWhole'
  <2> SUFFICES ASSUME NEW j \in Handlers, NEW t \in handler'[j].targets
               PROVE  Covers(j, t)'
    BY DEF TargetsAreWhole
  <2>1. handler'[j] = handler[j] /\ t \in Tokens
    BY DEF Waiting, SessionsIInv, SessionsTypeOK
  <2>2. \A g \in Handlers : handler'[g].kind = "rotate" => handler'[g] = handler[g]
    BY DEF Waiting
  <2> QED
    BY <1>2, <1>3, <2>1, <2>2 DEF SessionsIInv, TargetsAreWhole, Covers
<1> QED
  BY <1>4, <1>5, <1>6, <1>7, <1>8 DEF SessionsIInv

\* A token that is expired or whose admin is disabled is revoked under its lock;
\* a request that fails leaves nothing behind (rotate_refresh_token, get_db).
LEMMA RejectingKeepsIInv ==
    ASSUME SessionsIInv, NEW h \in Handlers, Drop(h) \/ \E t \in Tokens : RejectToken(h, t)
    PROVE  SessionsIInv'
<1>1. CASE Drop(h)
  <2>1. SessionsTypeOK'
    BY <1>1 DEF Drop, Waiting, SessionsIInv, SessionsTypeOK
  <2>2. \A g \in Handlers : handler'[g] = handler[g] \/ handler'[g] = Waiting
    BY <1>1 DEF Drop, SessionsIInv, SessionsTypeOK
  <2>3. UNCHANGED <<token, family, owner, ended>>
    BY <1>1 DEF Drop
  <2> QED
    BY <2>1, <2>2, <2>3, RevokedStaysIInv
<1>2. ASSUME NEW t \in Tokens, RejectToken(h, t)
      PROVE  SessionsIInv'
  <2>1. /\ LockFree(t, h) /\ Live(t) /\ handler[h] = Waiting
        /\ token' = [token EXCEPT ![t] = "revoked"]
        /\ UNCHANGED <<family, owner, expired, active, handler, ended>>
    BY <1>2 DEF RejectToken
  <2>2. SessionsTypeOK'
    BY <2>1 DEF SessionsIInv, SessionsTypeOK
  <2>3. \A o \in Tokens : token'[o] = token[o] \/ (Live(o) /\ token'[o] = "revoked")
    BY <2>1 DEF SessionsIInv, SessionsTypeOK
  <2>4. \A g \in Handlers : handler[g].kind = "rotate" =>
            token'[handler[g].token] = token[handler[g].token]
    BY <2>1 DEF LockFree, Waiting, SessionsIInv, SessionsTypeOK
  <2> QED
    BY <2>1, <2>2, <2>3, <2>4, RevokedStaysIInv
<1> QED
  BY <1>1, <1>2

\* A revocation commits when no rotation holds what it touches; the families it
\* found whole are dead then (revoke_family, revoke_all_for_user).
LEMMA RevokeCommitKeepsIInv ==
    ASSUME SessionsIInv, NEW h \in Handlers, RevokeCommit(h)
    PROVE  SessionsIInv'
<1>1. /\ handler[h].kind = "revoke" /\ \A t \in handler[h].targets : LockFree(t, h)
      /\ token' = [t \in Tokens |-> IF t \in handler[h].targets /\ Live(t) THEN "revoked" ELSE token[t]]
      /\ ended' = ended \cup EndedBy(h)
      /\ handler' = [handler EXCEPT ![h] = Waiting]
      /\ UNCHANGED <<family, owner, expired, active>>
  BY DEF RevokeCommit, Revoked
<1>2. EndedBy(h) \subseteq Tokens
  BY DEF EndedBy, SessionsIInv, SessionsTypeOK
<1>3. SessionsTypeOK'
  BY <1>1, <1>2 DEF SessionsIInv, SessionsTypeOK, Waiting
<1>4. \A t \in Tokens : token'[t] = token[t] \/ (Live(t) /\ token'[t] = "revoked")
  BY <1>1
<1>5. \A g \in Handlers : handler'[g] = handler[g] \/ handler'[g] = Waiting
  BY <1>1 DEF SessionsIInv, SessionsTypeOK
<1>6. \A g \in Handlers : handler'[g].kind = "rotate" => token'[handler[g].token] = token[handler[g].token]
  <2> SUFFICES ASSUME NEW g \in Handlers, handler'[g].kind = "rotate"
               PROVE  token'[handler[g].token] = token[handler[g].token]
    OBVIOUS
  <2>1. g # h /\ handler[g].kind = "rotate" /\ handler[g].token \in Tokens
    BY <1>1 DEF Waiting, SessionsIInv, SessionsTypeOK, RotatingIsLive
  <2> QED
    BY <1>1, <2>1 DEF LockFree
<1>7. \A f \in EndedBy(h) : f \in Tokens /\ token[f] # "unused"
                            /\ \A t \in Tokens : family[t] = f => ~Live(t)'
  <2> SUFFICES ASSUME NEW x \in handler[h].targets, family[x] \notin handler[h].met,
                      family[x] # None
               PROVE  token[family[x]] # "unused"
                      /\ \A t \in Tokens : family[t] = family[x] => ~Live(t)'
    BY <1>2 DEF EndedBy
  <2>1. \A t \in Tokens : Live(t) /\ family[t] = family[x] => t \in handler[h].targets
    BY DEF SessionsIInv, TargetsAreWhole, Covers
  <2> QED
    BY <1>1, <2>1 DEF SessionsIInv, SessionsTypeOK, FamiliesAreFounded, Live
<1> QED
  BY <1>1, <1>3, <1>4, <1>5, <1>6, <1>7, RevokedStaysIInv

\* A rotation locks a live token; the revocations that have begun on its family
\* will miss the successor (rotate_refresh_token).
LEMMA RotateBeginKeepsIInv ==
    ASSUME SessionsIInv, NEW h \in Handlers, NEW t \in Tokens, RotateBegin(h, t)
    PROVE  SessionsIInv'
<1>1. /\ handler[h] = Waiting /\ LockFree(t, h) /\ Live(t)
      /\ handler' = [o \in Handlers |->
            IF o = h THEN [Waiting EXCEPT !.kind = "rotate", !.token = t]
            ELSE IF \E x \in handler[o].targets : family[x] = family[t]
              THEN [handler[o] EXCEPT !.met = @ \cup {family[t]}]
            ELSE handler[o]]
      /\ UNCHANGED <<token, family, owner, expired, active, ended>>
  BY DEF RotateBegin
<1>2. /\ handler'[h].kind = "rotate" /\ handler'[h].token = t
      /\ handler'[h].targets = {} /\ handler'[h].met = {}
  BY <1>1 DEF Waiting
<1>3. \A g \in Handlers \ {h} :
         /\ handler'[g].kind = handler[g].kind /\ handler'[g].token = handler[g].token
         /\ handler'[g].targets = handler[g].targets
         /\ handler[g].met \subseteq handler'[g].met
         /\ \A x \in handler[g].targets : family[x] = family[t] => family[t] \in handler'[g].met
  BY <1>1 DEF SessionsIInv, SessionsTypeOK
<1>4. SessionsTypeOK'
  <2>1. family[t] \in Tokens \cup {None}
    BY DEF SessionsIInv, SessionsTypeOK
  <2> DEFINE Requests == [kind : {"idle", "rotate", "revoke"}, token : Tokens \cup {None},
                          targets : SUBSET Tokens, met : SUBSET (Tokens \cup {None})]
  <2>2. handler \in [Handlers -> Requests]
    BY DEF SessionsIInv, SessionsTypeOK
  <2>3. [Waiting EXCEPT !.kind = "rotate", !.token = t] \in Requests
    BY DEF Waiting
  <2>4. \A o \in Handlers : [handler[o] EXCEPT !.met = @ \cup {family[t]}] \in Requests
    BY <2>1, <2>2
  <2>5. handler' \in [Handlers -> Requests]
    <3> HIDE DEF Requests
    <3> QED
      BY <1>1, <2>2, <2>3, <2>4
  <2> QED
    BY <1>1, <2>5 DEF SessionsIInv, SessionsTypeOK
<1>5. (OneLiveToken /\ DeadFamilyStaysDead /\ FamiliesAreFounded /\ FamiliesHaveOneOwner)'
  BY <1>1 DEF SessionsIInv, OneLiveToken, DeadFamilyStaysDead, FamiliesAreFounded,
              FamiliesHaveOneOwner, Live
<1>6. LocksAreExclusive'
  BY <1>1, <1>2, <1>3 DEF SessionsIInv, LocksAreExclusive, LockFree
<1>7. RotatingIsLive'
  BY <1>1, <1>2, <1>3 DEF SessionsIInv, RotatingIsLive, Live
<1>8. UNCHANGED <<token, family>>
  BY <1>1
<1>9. TargetsAreWhole'
  <2> SUFFICES ASSUME NEW j \in Handlers, NEW x \in handler'[j].targets
               PROVE  Covers(j, x)'
    BY DEF TargetsAreWhole
  <2>1. j # h /\ handler'[j].targets = handler[j].targets
    BY <1>2, <1>3
  <2>2. Covers(j, x)
    BY <2>1 DEF SessionsIInv, TargetsAreWhole
  <2>3. ASSUME family[x] # None, NEW g \in Handlers, handler'[g].kind = "rotate",
               family[handler'[g].token] = family[x]
        PROVE  family[x] \in handler'[j].met
    <3>1. CASE g = h
      BY <1>2, <1>3, <2>1, <2>3, <3>1
    <3>2. CASE g # h
      BY <1>3, <2>1, <2>2, <2>3, <3>2 DEF Covers
    <3> QED
      BY <3>1, <3>2
  <2>4. handler[j].met \subseteq handler'[j].met
    BY <1>3, <2>1
  <2> QED
    BY <1>8, <2>1, <2>2, <2>3, <2>4 DEF Covers, Live
<1> QED
  BY <1>4, <1>5, <1>6, <1>7, <1>9 DEF SessionsIInv

\* A rotation commits: the token it holds dies as its successor is born into the
\* same family, which was not dead (rotate_refresh_token).
LEMMA RotateCommitKeepsIInv ==
    ASSUME SessionsIInv, NEW h \in Handlers, NEW new \in Tokens, RotateCommit(h, new)
    PROVE  SessionsIInv'
<1> DEFINE t == handler[h].token
<1>1. /\ handler[h].kind = "rotate" /\ token[new] = "unused"
      /\ token' = [token EXCEPT ![t] = "revoked", ![new] = "live"]
      /\ family' = [family EXCEPT ![new] = family[t]] /\ owner' = [owner EXCEPT ![new] = owner[t]]
      /\ handler' = [handler EXCEPT ![h] = Waiting]
      /\ UNCHANGED <<expired, active, ended>>
  BY DEF RotateCommit
<1>2. t \in Tokens /\ Live(t) /\ new # t /\ family[t] \in Tokens
  BY <1>1 DEF SessionsIInv, SessionsTypeOK, RotatingIsLive, FamiliesAreFounded, Live
<1>3. /\ token'[new] = "live" /\ family'[new] = family[t] /\ owner'[new] = owner[t]
      /\ token'[t] = "revoked"
      /\ \A o \in Tokens \ {new} : family'[o] = family[o] /\ owner'[o] = owner[o]
      /\ \A o \in Tokens \ {new, t} : token'[o] = token[o]
  BY <1>1, <1>2 DEF SessionsIInv, SessionsTypeOK
<1>4. \A g \in Handlers : IF g = h THEN handler'[g] = Waiting ELSE handler'[g] = handler[g]
  BY <1>1 DEF SessionsIInv, SessionsTypeOK
<1>5. SessionsTypeOK'
  BY <1>1, <1>2 DEF SessionsIInv, SessionsTypeOK, Waiting
<1> HIDE DEF t
<1>6. OneLiveToken'
  BY <1>2, <1>3 DEF SessionsIInv, OneLiveToken, Live
<1>7. DeadFamilyStaysDead'
  <2> SUFFICES ASSUME NEW o \in Tokens, family'[o] \in ended, token'[o] = "live"
               PROVE  FALSE
    BY <1>1 DEF DeadFamilyStaysDead, Live
  <2>1. o # t
    BY <1>3
  <2>2. family[t] \notin ended
    BY <1>2 DEF SessionsIInv, DeadFamilyStaysDead
  <2>3. CASE o = new
    BY <1>3, <2>2, <2>3
  <2>4. CASE o # new
    BY <1>3, <2>1, <2>4 DEF SessionsIInv, DeadFamilyStaysDead, Live
  <2> QED
    BY <2>3, <2>4
<1>8. LocksAreExclusive'
  BY <1>4, SessionsAssumption DEF SessionsIInv, LocksAreExclusive, Waiting
<1>9. RotatingIsLive'
  <2> SUFFICES ASSUME NEW g \in Handlers, handler'[g].kind = "rotate"
               PROVE  handler'[g].token \in Tokens /\ token'[handler'[g].token] = "live"
    BY DEF RotatingIsLive, Live
  <2>1. g # h /\ handler'[g] = handler[g]
    BY <1>4 DEF Waiting
  <2>2. handler[g].token \in Tokens /\ Live(handler[g].token) /\ handler[g].token # t
    BY <1>2, <2>1 DEF SessionsIInv, RotatingIsLive, LocksAreExclusive, t
  <2> QED
    BY <1>1, <1>3, <2>1, <2>2 DEF Live
<1>10. FamiliesAreFounded'
  <2>1. \A o \in Tokens : token[o] # "unused" => token'[o] # "unused"
    BY <1>3
  <2>2. \A o \in Tokens \ {new} : Live(o)' => Live(o)
    BY <1>3 DEF Live
  <2>3. \A o \in Tokens : family'[o] # None => token[family'[o]] # "unused" /\ family'[o] \in Tokens
    BY <1>2, <1>3 DEF SessionsIInv, SessionsTypeOK, FamiliesAreFounded
  <2>4. \A o \in Tokens : Live(o)' => family'[o] # None
    BY <1>2, <1>3, <2>2, SessionsAssumption DEF SessionsIInv, FamiliesAreFounded
  <2>5. \A f \in ended : f \in Tokens /\ token[f] # "unused"
    BY DEF SessionsIInv, SessionsTypeOK, FamiliesAreFounded
  <2> QED
    BY <1>1, <2>1, <2>3, <2>4, <2>5 DEF FamiliesAreFounded
<1>11. FamiliesHaveOneOwner'
  BY <1>2, <1>3 DEF SessionsIInv, FamiliesHaveOneOwner
<1>12. TargetsAreWhole'
  <2> SUFFICES ASSUME NEW j \in Handlers, NEW x \in handler'[j].targets
               PROVE  Covers(j, x)'
    BY DEF TargetsAreWhole
  <2>1. j # h /\ handler'[j] = handler[j] /\ x \in Tokens
    BY <1>4 DEF Waiting, SessionsIInv, SessionsTypeOK
  <2>2. Covers(j, x)
    BY <2>1 DEF SessionsIInv, TargetsAreWhole
  <2>3. family'[x] = family[x] /\ token'[x] # "unused"
    BY <1>1, <1>3, <2>1, <2>2 DEF Covers
  <2>4. \A g \in Handlers : handler'[g].kind = "rotate" =>
            handler'[g] = handler[g] /\ family'[handler[g].token] = family[handler[g].token]
    BY <1>1, <1>3, <1>4 DEF Waiting, SessionsIInv, RotatingIsLive, Live
  <2>5. family[x] = family[t] => family[x] \in handler[j].met
    BY <1>1, <1>2, <2>2, SessionsAssumption DEF t, Covers
  <2>6. \A o \in Tokens : token'[o] = "live" /\ family'[o] = family[x] =>
            (Live(o) /\ family[o] = family[x]) \/ family[x] = family[t]
    BY <1>3 DEF Live
  <2> QED
    BY <2>1, <2>2, <2>3, <2>4, <2>5, <2>6 DEF Covers, Live
<1> QED
  BY <1>5, <1>6, <1>7, <1>8, <1>9, <1>10, <1>11, <1>12 DEF SessionsIInv

\* What is pruned was not live and good, or is nobody's then; nothing comes back
\* (prune-sessions of the command line).
LEMMA PruningKeepsIInv ==
    ASSUME SessionsIInv, Prune
    PROVE  SessionsIInv'
<1> DEFINE stale == {t \in Tokens : token[t] = "revoked" \/ (Live(t) /\ t \in expired)}
<1>1. /\ \A t \in stale, h \in Handlers : handler[h].token # t
      /\ token' = [t \in Tokens |-> IF t \in stale THEN "pruned" ELSE token[t]]
      /\ family' = [t \in Tokens |-> IF t \in stale THEN None ELSE family[t]]
      /\ owner' = [t \in Tokens |-> IF t \in stale THEN None ELSE owner[t]]
      /\ expired' = expired \ stale
      /\ UNCHANGED <<active, handler, ended>>
  BY DEF Prune
<1>2. \A t \in stale : t \in Tokens /\ token[t] # "unused"
  BY DEF Live
<1> HIDE DEF stale
<1>3. SessionsTypeOK'
  BY <1>1 DEF SessionsIInv, SessionsTypeOK
<1>4. /\ \A t \in Tokens \ stale : token'[t] = token[t] /\ family'[t] = family[t] /\ owner'[t] = owner[t]
      /\ \A t \in stale : token'[t] = "pruned" /\ family'[t] = None /\ owner'[t] = None
  BY <1>1, <1>2
<1>5. /\ \A t \in Tokens : Live(t)' => Live(t) /\ family'[t] = family[t] /\ owner'[t] = owner[t]
      /\ \A t \in Tokens : token[t] # "unused" => token'[t] # "unused"
      /\ \A t \in Tokens : family'[t] # None => family'[t] = family[t] /\ owner'[t] = owner[t]
  BY <1>4 DEF Live
<1>6. (OneLiveToken /\ DeadFamilyStaysDead)'
  BY <1>1, <1>5 DEF SessionsIInv, OneLiveToken, DeadFamilyStaysDead
<1>7. LocksAreExclusive'
  BY <1>1 DEF SessionsIInv, LocksAreExclusive
<1>8. RotatingIsLive'
  BY <1>1, <1>4 DEF SessionsIInv, RotatingIsLive, Live
<1>9. FamiliesAreFounded'
  BY <1>1, <1>5 DEF SessionsIInv, SessionsTypeOK, FamiliesAreFounded
<1>10. FamiliesHaveOneOwner'
  BY <1>5 DEF SessionsIInv, FamiliesHaveOneOwner
<1>11. TargetsAreWhole'
  <2>1. \A g \in Handlers : handler[g].kind = "rotate" =>
            family'[handler[g].token] = family[handler[g].token]
    BY <1>1, <1>4 DEF SessionsIInv, RotatingIsLive
  <2>2. \A j \in Handlers : \A x \in handler[j].targets : x \in Tokens
    BY DEF SessionsIInv, SessionsTypeOK
  <2> QED
    BY <1>1, <1>5, <2>1, <2>2 DEF SessionsIInv, TargetsAreWhole, Covers, Live
<1> QED
  BY <1>3, <1>6, <1>7, <1>8, <1>9, <1>10, <1>11 DEF SessionsIInv

\* Every step of the sessions keeps the invariant.
LEMMA SessionsIInvStep == SessionsIInv /\ [SessionsNext]_sessionVars => SessionsIInv'
<1> SUFFICES ASSUME SessionsIInv, [SessionsNext]_sessionVars
             PROVE  SessionsIInv'
  OBVIOUS
<1>1. ASSUME UNCHANGED <<token, family, owner, handler, ended>>, SessionsTypeOK'
      PROVE  SessionsIInv'
  BY <1>1 DEF SessionsIInv, OneLiveToken, DeadFamilyStaysDead, LocksAreExclusive, RotatingIsLive, Covers,
              FamiliesAreFounded, FamiliesHaveOneOwner, TargetsAreWhole, Live
<1>2. ASSUME NEW t \in Tokens, Expire(t)
      PROVE  SessionsIInv'
  BY <1>1, <1>2 DEF Expire, SessionsIInv, SessionsTypeOK
<1>3. ASSUME NEW t \in Tokens, NEW u \in Holders, Login(u, t)
      PROVE  SessionsIInv'
  BY <1>3, LoginKeepsIInv
<1>4. ASSUME NEW h \in Handlers, NEW t \in Tokens,
             Replay(h, t) \/ Logout(h, t) \/ RejectToken(h, t) \/ RotateBegin(h, t) \/ RotateCommit(h, t)
      PROVE  SessionsIInv'
  BY <1>4, RevokingKeepsIInv, RejectingKeepsIInv, RotateBeginKeepsIInv, RotateCommitKeepsIInv
<1>5. ASSUME NEW h \in Handlers, NEW u \in Holders, RevokeAll(h, u)
      PROVE  SessionsIInv'
  BY <1>5, RevokingKeepsIInv
<1>6. ASSUME NEW h \in Handlers, RevokeCommit(h) \/ Drop(h)
      PROVE  SessionsIInv'
  BY <1>6, RevokeCommitKeepsIInv, RejectingKeepsIInv
<1>7. ASSUME NEW u \in Holders, NEW b \in BOOLEAN, SetActive(u, b)
      PROVE  SessionsIInv'
  <2>1. /\ active' \subseteq Holders
        /\ UNCHANGED <<token, family, owner, expired, handler, ended>>
    BY <1>7 DEF SetActive, SessionsIInv, SessionsTypeOK
  <2> QED
    BY <1>1, <2>1 DEF SessionsIInv, SessionsTypeOK
<1>8. CASE Prune
  BY <1>8, PruningKeepsIInv
<1>9. CASE UNCHANGED sessionVars
  BY <1>1, <1>9 DEF sessionVars, SessionsIInv, SessionsTypeOK
<1> QED
  BY <1>2, <1>3, <1>4, <1>5, <1>6, <1>7, <1>8, <1>9 DEF SessionsNext

\* The invariant holds throughout.
LEMMA SessionsAlwaysIInv == SessionsSpec => []SessionsIInv
<1>1. SessionsInit => SessionsIInv
  BY SessionsInitIInv
<1>2. SessionsIInv /\ [SessionsNext]_sessionVars => SessionsIInv'
  BY SessionsIInvStep
<1> QED
  BY <1>1, <1>2, PTL DEF SessionsSpec

\* Tokens, families and requests keep their types.
THEOREM SessionsTypeCorrect == SessionsSpec => []SessionsTypeOK
<1>1. SessionsIInv => SessionsTypeOK
  BY DEF SessionsIInv
<1> QED
  BY <1>1, SessionsAlwaysIInv, PTL

\* Of a chain of tokens one at most is good, however refreshes of one token,
\* logouts, replays and prunings overlap (rotate_refresh_token).
THEOREM ChainHasOneLiveToken == SessionsSpec => []OneLiveToken
<1>1. SessionsIInv => OneLiveToken
  BY DEF SessionsIInv
<1> QED
  BY <1>1, SessionsAlwaysIInv, PTL

\* A family that was revoked while nothing rotated in it has no good token ever
\* after (revoke_family, revoke_all_for_user).
THEOREM RevokedFamilyIsDead == SessionsSpec => []DeadFamilyStaysDead
<1>1. SessionsIInv => DeadFamilyStaysDead
  BY DEF SessionsIInv
<1> QED
  BY <1>1, SessionsAlwaysIInv, PTL

-----------------------------------------------------------------------------
(***************************************************************************)
(* Nobody passes on what was not vouched for, for any members, roles and      *)
(* permissions and any number of overlapping requests.                        *)
(*                                                                          *)
(* PermissionsAreVouched is not inductive: a request writes what it checked    *)
(* earlier.  What makes it inductive is that the role it assigns and the       *)
(* permissions it writes were vouched for when it checked them, and that a     *)
(* role that is vouched for stays so (VouchedStays): whoever adds to a role    *)
(* holds everything, or holds what is vouched for already.                     *)
(***************************************************************************)

CallRecord ==
    [stage : {"admitted", "ready"}, op : Operations, who : Users \cup {Nil}, full : BOOLEAN,
     own : Roles, ownPerms : SUBSET Catalog, role : Roles \cup {Nil},
     loaded : SUBSET Catalog, wish : SUBSET Catalog, user : Users \cup {Nil},
     was : Roles \cup {Nil}]

\* Roles, members and requests keep their types, and a request that is about to
\* write a role has one (create_role, update_role, add_member, update_member_role).
MembersTypeOK ==
    /\ perms \in [Roles -> SUBSET Catalog]
    /\ roleOf \in [Users -> Roles \cup {Nil}]
    /\ call \in [Callers -> {NoCall} \cup CallRecord]
    /\ roles \subseteq Roles
    /\ \A k \in Callers :
           call[k].stage = "ready" /\ call[k].op # "remove" => call[k].role \in Roles
    /\ \A k \in Callers :
           call[k].stage = "ready" /\ call[k].op = "add" => call[k].user \in Users

Vouched(r) == perms[r] \subseteq vouched

\* A caller who holds less than everything holds what is vouched for, by the
\* permissions that were loaded and by those its role has now.
CallersAreVouched ==
    \A k \in Callers :
        call[k] # NoCall /\ ~call[k].full =>
            call[k].ownPerms \subseteq vouched /\ Vouched(call[k].own)

\* What such a caller has checked and is about to write.
WritesAreVouched ==
    \A k \in Callers :
        call[k].stage = "ready" /\ ~call[k].full =>
            /\ call[k].op \in {"add", "move"} => Vouched(call[k].role)
            /\ call[k].op \in {"create", "edit"} => call[k].wish \subseteq vouched

MembersIInv ==
    MembersTypeOK /\ PermissionsAreVouched /\ CallersAreVouched /\ WritesAreVouched

-----------------------------------------------------------------------------
\* The permissions the default roles are made with are in the catalog
\* (DEFAULT_ROLES, create_default_roles).
LEMMA DefaultsInCatalog == DefaultPermissions \in [System -> SUBSET Catalog]
<1>1. \A m \in Modules : {m} \X Actions(m) \subseteq Catalog
  BY DEF Catalog
<1>2. ReadOnly \subseteq Catalog
  BY <1>1 DEF ReadOnly, Office, Actions
<1>3. <<"users", "read">> \in Catalog
  BY <1>1, MembersAssumption DEF Office, Actions
<1>4. (Modules \cap {"payments"}) \X {"create"} \subseteq Catalog
  BY <1>1 DEF Actions
<1>5. (Modules \ (Office \cup {"payments", "accounting", "reports"})) \X {"create", "update"}
          \subseteq Catalog
  BY <1>1 DEF Office, Actions
<1> QED
  BY <1>2, <1>3, <1>4, <1>5 DEF DefaultPermissions, System

LEMMA RolesAreNotNil == System \subseteq Roles /\ Nil \notin Roles /\ Nil \notin Users
BY MembersAssumption DEF Roles

\* An organization starts with its owner and its default roles alone.
LEMMA MembersInitIInv == MembersInit => MembersIInv
<1> SUFFICES ASSUME MembersInit PROVE MembersIInv
  OBVIOUS
<1>1. MembersTypeOK
  <2>1. perms \in [Roles -> SUBSET Catalog]
    BY DefaultsInCatalog DEF MembersInit
  <2>2. roleOf \in [Users -> Roles \cup {Nil}]
    BY RolesAreNotNil DEF MembersInit, System
  <2>3. call \in [Callers -> {NoCall} \cup CallRecord] /\ roles \subseteq Roles
    BY RolesAreNotNil DEF MembersInit
  <2>4. \A k \in Callers : call[k].stage = "none"
    BY DEF MembersInit, NoCall
  <2> QED
    BY <2>1, <2>2, <2>3, <2>4 DEF MembersTypeOK
<1>2. PermissionsAreVouched
  BY DEF MembersInit, PermissionsAreVouched
<1>3. CallersAreVouched /\ WritesAreVouched
  BY DEF MembersInit, CallersAreVouched, WritesAreVouched, NoCall
<1> QED
  BY <1>1, <1>2, <1>3 DEF MembersIInv

\* What a request that holds everything writes is vouched for, what another
\* writes was vouched for already (_held_by, _grantable, ensure_can_assign).
LEMMA WrittenIsVouched ==
  ASSUME NEW k \in Callers, NEW codes, MembersIInv, Vouch(call[k], codes),
         ~call[k].full => codes \subseteq vouched,
         call[k] \in CallRecord
  PROVE  codes \subseteq vouched' /\ vouched \subseteq vouched'
BY DEF Vouch, CallRecord

-----------------------------------------------------------------------------
\* The kinds of step, as the proofs split them.
LEMMA MembersSteps ==
  ASSUME MembersNext
  PROVE  \/ \E k \in Callers, u \in Users, op \in Operations : Admit(k, u, op)
         \/ \E k \in Callers : Checks(k)
         \/ \E k \in Callers : Writes(k)
         \/ \E k \in Callers : Dismiss(k)
         \/ \E u \in Users : SetSuperuser(u)
         \/ \E u \in Users, r \in Roles : AddByHand(u, r)
         \/ \E r \in Roles, codes \in Wishes : GrantByHand(r, codes)
         \/ SetStatus
BY DEF MembersNext

\* What a check leaves behind: the role, the permissions and the member it
\* found in order.
Checked(k, r, wish, u) ==
    /\ Ready(k, r, wish, u)
    /\ call[k].stage = "admitted"
    /\ call[k].op # "remove" => r \in Roles
    /\ call[k].op = "add" => u \in Users
    /\ call[k].op \in {"add", "move"} => CanAssign(call[k], r)
    /\ call[k].op \in {"create", "edit"} => Grantable(call[k], wish)

\* Every check of a request ends so.
LEMMA ChecksAreChecked ==
  ASSUME NEW k \in Callers, Checks(k)
  PROVE  \E r \in Roles \cup {Nil}, wish \in Wishes \cup {{}}, u \in Users \cup {Nil} :
            Checked(k, r, wish, u)
<1>1. ASSUME NEW r \in Roles, NEW u \in Users, CheckAdd(k, r, u) \/ CheckMove(k, r, u)
      PROVE  Checked(k, r, {}, u)
  BY <1>1 DEF CheckAdd, CheckMove, Admitted, Checked
<1>2. ASSUME NEW u \in Users, CheckRemove(k, u)
      PROVE  Checked(k, Nil, {}, u)
  BY <1>2 DEF CheckRemove, Admitted, Checked
<1>3. ASSUME NEW r \in CustomRoles, NEW wish \in Wishes,
             CheckCreate(k, r, wish) \/ CheckEdit(k, r, wish)
      PROVE  r \in Roles /\ Checked(k, r, wish, Nil)
  BY <1>3 DEF CheckCreate, CheckEdit, Admitted, Checked, Roles
<1>4. ASSUME NEW r \in CustomRoles, CheckDelete(k, r)
      PROVE  r \in Roles /\ Checked(k, r, {}, Nil)
  BY <1>4 DEF CheckDelete, Admitted, Checked, Roles
<1> QED
  BY <1>1, <1>2, <1>3, <1>4 DEF Checks

\* A request that writes is about to, so it has been let in.
LEMMA WritersAreReady ==
  ASSUME NEW k \in Callers, MembersTypeOK, Writes(k)
  PROVE  call[k] \in CallRecord /\ call[k].stage = "ready"
BY DEF Writes, WriteAdd, WriteMove, WriteRemove, WriteCreate, WriteEdit, WriteDelete,
       IsReady, MembersTypeOK, NoCall

\* d is request c, but for whose it is and whom it is about.
SameRequest(c, d) ==
    /\ c \in CallRecord /\ d \in CallRecord
    /\ d.stage = c.stage /\ d.op = c.op /\ d.full = c.full
    /\ d.own = c.own /\ d.ownPerms = c.ownPerms
    /\ d.role = c.role /\ d.wish = c.wish
    /\ d.op = "add" => d.user = c.user

LEMMA RequestIsSame ==
  ASSUME NEW c \in CallRecord PROVE SameRequest(c, c)
BY DEF SameRequest

\* A request whose caller or member is removed is the same request (remove_member).
LEMMA WithoutIsSame ==
  ASSUME NEW c \in CallRecord, NEW u \in Users
  PROVE  SameRequest(c, Without(c, u))
<1> DEFINE w == IF c.who = u THEN Nil ELSE c.who
           x == IF c.user = u /\ c.op \in {"move", "remove"} THEN Nil ELSE c.user
           d == [c EXCEPT !.who = w, !.user = x]
<1>1. c # NoCall
  BY DEF CallRecord, NoCall
<1>2. Without(c, u) = d
  BY <1>1 DEF Without
<1>3. w \in Users \cup {Nil} /\ x \in Users \cup {Nil}
  BY DEF CallRecord
<1>4. d \in CallRecord
  BY <1>3 DEF CallRecord
<1>5. SameRequest(c, d)
  BY <1>4 DEF SameRequest, CallRecord
<1> QED
  BY <1>2, <1>5

\* After a write the requests are the ones they were, or over.
LEMMA WritesLeaveCalls ==
  ASSUME NEW k \in Callers, MembersTypeOK, Writes(k), NEW j \in Callers
  PROVE  call'[j] = NoCall \/ SameRequest(call[j], call'[j])
<1>1. call[j] = NoCall \/ call[j] \in CallRecord
  BY DEF MembersTypeOK
<1>2. ASSUME NEW u \in Users,
             call' = [i \in Callers |-> IF i = k THEN NoCall ELSE Without(call[i], u)]
      PROVE  call'[j] = NoCall \/ SameRequest(call[j], call'[j])
  <2>1. call[j] = NoCall => Without(call[j], u) = NoCall
    BY DEF Without
  <2> QED
    BY <1>1, <1>2, <2>1, WithoutIsSame
<1>3. ASSUME call' = [call EXCEPT ![k] = NoCall]
      PROVE  call'[j] = NoCall \/ SameRequest(call[j], call'[j])
  <2>1. call'[j] = NoCall \/ call'[j] = call[j]
    BY <1>3 DEF MembersTypeOK
  <2> QED
    BY <1>1, <2>1, RequestIsSame
<1>4. WriteRemove(k) => call[k].user \in Users
  BY WritersAreReady DEF WriteRemove, CallRecord, IsReady
<1> QED
  BY <1>2, <1>3, <1>4 DEF Writes, WriteAdd, WriteMove, WriteRemove, WriteCreate, WriteEdit,
                          WriteDelete

-----------------------------------------------------------------------------
\* Members, roles and requests keep their types.
LEMMA MembersTypeStep ==
  ASSUME MembersTypeOK, [MembersNext]_memberVars
  PROVE  MembersTypeOK'
<1> USE DEF MembersTypeOK
<1>1. ASSUME NEW k \in Callers, NEW u \in Users, NEW op \in Operations, Admit(k, u, op)
      PROVE  MembersTypeOK'
  <2>1. roleOf[u] \in Roles
    BY <1>1 DEF Admit
  <2>2. call'[k] \in CallRecord /\ call'[k].stage = "admitted"
    BY <1>1, <2>1 DEF Admit, CallRecord, HoldsAll
  <2>3. \A j \in Callers \ {k} : call'[j] = call[j]
    BY <1>1 DEF Admit
  <2>4. call' \in [Callers -> {NoCall} \cup CallRecord]
    BY <1>1, <2>2, <2>3 DEF Admit
  <2> QED
    BY <1>1, <2>2, <2>3, <2>4 DEF Admit
<1>2. ASSUME NEW k \in Callers, Checks(k)
      PROVE  MembersTypeOK'
  <2>1. PICK r \in Roles \cup {Nil}, wish \in Wishes \cup {{}}, u \in Users \cup {Nil} :
             Checked(k, r, wish, u)
    BY <1>2, ChecksAreChecked
  <2>2. call[k] \in CallRecord
    BY <2>1 DEF Checked, NoCall
  <2> DEFINE found == IF r \in roles THEN Loaded(call[k], r) ELSE {}
             before == IF u = Nil THEN Nil ELSE roleOf[u]
             ready == [call[k] EXCEPT !.stage = "ready", !.role = r, !.wish = wish,
                                      !.loaded = found, !.user = u, !.was = before]
  <2>3. found \in SUBSET Catalog /\ wish \in SUBSET Catalog /\ before \in Roles \cup {Nil}
    BY <2>2, MembersAssumption DEF Loaded, CallRecord
  <2>4. ready \in CallRecord /\ ready.op = call[k].op /\ ready.role = r /\ ready.user = u
    <3> HIDE DEF found, before
    <3> QED BY <2>2, <2>3 DEF CallRecord
  <2>5. call' = [call EXCEPT ![k] = ready]
    BY <2>1 DEF Checked, Ready
  <2>6. /\ call'[k] \in CallRecord /\ call'[k].op = call[k].op
        /\ call'[k].role = r /\ call'[k].user = u
    BY <2>4, <2>5
  <2>7. \A j \in Callers \ {k} : call'[j] = call[j]
    BY <2>1 DEF Checked, Ready
  <2>8. call' \in [Callers -> {NoCall} \cup CallRecord]
    BY <2>1, <2>6, <2>7 DEF Checked, Ready
  <2> QED
    BY <2>1, <2>6, <2>7, <2>8 DEF Checked, Ready
<1>3. ASSUME NEW k \in Callers, Writes(k)
      PROVE  MembersTypeOK'
  <2>1. call[k] \in CallRecord /\ call[k].stage = "ready"
    BY <1>3, WritersAreReady
  <2>2. perms' \in [Roles -> SUBSET Catalog]
    BY <1>3, <2>1 DEF Writes, WriteAdd, WriteMove, WriteRemove, WriteCreate, WriteEdit,
                      WriteDelete, CallRecord
  <2>3. roleOf' \in [Users -> Roles \cup {Nil}]
    BY <1>3, <2>1 DEF Writes, WriteAdd, WriteMove, WriteRemove, WriteCreate, WriteEdit,
                      WriteDelete, CallRecord
  <2>4. roles' \subseteq Roles
    BY <1>3, <2>1 DEF Writes, WriteAdd, WriteMove, WriteRemove, WriteCreate, WriteEdit,
                      WriteDelete, IsReady
  <2>5. DOMAIN call' = Callers /\ call' = [j \in Callers |-> call'[j]]
    BY <1>3 DEF Writes, WriteAdd, WriteMove, WriteRemove, WriteCreate, WriteEdit, WriteDelete
  <2>6. \A j \in Callers : call'[j] = NoCall \/ SameRequest(call[j], call'[j])
    BY <1>3, WritesLeaveCalls
  <2>7. call' \in [Callers -> {NoCall} \cup CallRecord]
    BY <2>5, <2>6 DEF SameRequest
  <2> QED
    BY <2>2, <2>3, <2>4, <2>6, <2>7 DEF SameRequest, NoCall
<1>4. ASSUME NEW k \in Callers, Dismiss(k)
      PROVE  MembersTypeOK'
  BY <1>4 DEF Dismiss, NoCall
<1>5. CASE \E u \in Users : SetSuperuser(u)
  BY <1>5 DEF SetSuperuser, ByHand
<1>6. CASE \E u \in Users, r \in Roles : AddByHand(u, r)
  BY <1>6 DEF AddByHand, ByHand
<1>7. ASSUME NEW r \in Roles, NEW codes \in Wishes, GrantByHand(r, codes)
      PROVE  MembersTypeOK'
  BY <1>7, MembersAssumption DEF GrantByHand, ByHand
<1>8. CASE SetStatus
  BY <1>8 DEF SetStatus, ByHand
<1>9. CASE UNCHANGED memberVars
  BY <1>9 DEF memberVars
<1> QED
  BY <1>1, <1>2, <1>3, <1>4, <1>5, <1>6, <1>7, <1>8, <1>9, MembersSteps

-----------------------------------------------------------------------------
\* What is vouched for stays vouched for, and a role all of whose permissions are
\* keeps no others: whoever adds to a role vouches for what is added or has it
\* vouched for (create_role, update_role, roles grant).
LEMMA VouchedStays ==
  ASSUME MembersIInv, [MembersNext]_memberVars
  PROVE  vouched \subseteq vouched' /\ \A r \in Roles : Vouched(r) => Vouched(r)'
<1> USE DEF MembersIInv, MembersTypeOK, Vouched
<1>1. ASSUME UNCHANGED <<perms, vouched>>
      PROVE  vouched \subseteq vouched' /\ \A r \in Roles : Vouched(r) => Vouched(r)'
  BY <1>1
<1>2. ASSUME NEW k \in Callers, Writes(k)
      PROVE  vouched \subseteq vouched' /\ \A r \in Roles : Vouched(r) => Vouched(r)'
  <2>1. call[k] \in CallRecord /\ call[k].stage = "ready"
    BY <1>2, WritersAreReady
  <2>2. CASE WriteAdd(k) \/ WriteMove(k)
    BY <2>2 DEF WriteAdd, WriteMove, Vouch
  <2>3. CASE WriteRemove(k)
    BY <2>3, <1>1 DEF WriteRemove
  <2>4. CASE WriteCreate(k) \/ WriteEdit(k)
    <3>1. call[k].op \in {"create", "edit"} /\ Vouch(call[k], call[k].wish)
      BY <2>4 DEF WriteCreate, WriteEdit, IsReady
    <3>2. call[k].wish \subseteq vouched' /\ vouched \subseteq vouched'
      BY <2>1, <3>1 DEF Vouch, WritesAreVouched, CallRecord
    <3>3. \A r \in Roles : perms'[r] \subseteq perms[r] \cup call[k].wish
      BY <2>4 DEF WriteCreate, WriteEdit
    <3> QED
      BY <3>2, <3>3
  <2>5. CASE WriteDelete(k)
    BY <2>5 DEF WriteDelete
  <2> QED
    BY <1>2, <2>2, <2>3, <2>4, <2>5 DEF Writes
<1>3. ASSUME NEW k \in Callers, Checks(k)
      PROVE  UNCHANGED <<perms, vouched>>
  <2>1. PICK r \in Roles \cup {Nil}, wish \in Wishes \cup {{}}, u \in Users \cup {Nil} :
             Ready(k, r, wish, u)
    BY <1>3, ChecksAreChecked DEF Checked
  <2> QED
    BY <2>1 DEF Ready
<1>4. CASE \E u \in Users, r \in Roles : AddByHand(u, r)
  BY <1>4 DEF AddByHand
<1>5. CASE \E r \in Roles, codes \in Wishes : GrantByHand(r, codes)
  BY <1>5 DEF GrantByHand
<1>6. (\E k \in Callers, u \in Users, op \in Operations : Admit(k, u, op))
      \/ (\E k \in Callers : Dismiss(k)) \/ (\E u \in Users : SetSuperuser(u)) \/ SetStatus
          => UNCHANGED <<perms, vouched>>
  BY DEF Admit, Dismiss, SetSuperuser, SetStatus
<1>7. UNCHANGED memberVars => UNCHANGED <<perms, vouched>>
  BY DEF memberVars
<1>8. CASE MembersNext
  BY <1>1, <1>2, <1>3, <1>4, <1>5, <1>6, <1>8, MembersSteps
<1> QED
  BY <1>1, <1>7, <1>8

\* What a request that is let in, has checked or is about to write rests on: the
\* two parts of the invariant that are about requests, for one of them.
CallIsVouched(c) ==
    c # NoCall /\ ~c.full =>
        /\ c.ownPerms \subseteq vouched /\ Vouched(c.own)
        /\ c.stage = "ready" /\ c.op \in {"add", "move"} => Vouched(c.role)
        /\ c.stage = "ready" /\ c.op \in {"create", "edit"} => c.wish \subseteq vouched

LEMMA CallsAreVouched ==
  CallersAreVouched /\ WritesAreVouched <=> \A k \in Callers : CallIsVouched(call[k])
BY DEF CallersAreVouched, WritesAreVouched, CallIsVouched, NoCall

\* Such a request stays in order while others work.
LEMMA SameRequestStaysVouched ==
  ASSUME MembersIInv, [MembersNext]_memberVars, NEW j \in Callers,
         SameRequest(call[j], call'[j])
  PROVE  CallIsVouched(call[j])'
<1>1. CallIsVouched(call[j])
  BY CallsAreVouched DEF MembersIInv
<1>2. call[j] \in CallRecord /\ call[j] # NoCall
  BY DEF SameRequest, CallRecord, NoCall
<1>3. call[j].own \in Roles
  BY <1>2 DEF CallRecord
<1>4. call[j].stage = "ready" /\ call[j].op \in {"add", "move"} => call[j].role \in Roles
  BY DEF MembersIInv, MembersTypeOK
<1> QED
  BY <1>1, <1>2, <1>3, <1>4, VouchedStays DEF CallIsVouched, SameRequest, Vouched

LEMMA NoCallIsVouched == CallIsVouched(NoCall)
BY DEF CallIsVouched

-----------------------------------------------------------------------------
\* The invariant is kept by every step.
LEMMA MembersIInvStep ==
  ASSUME MembersIInv, [MembersNext]_memberVars
  PROVE  MembersIInv'
<1>1. MembersTypeOK'
  BY MembersTypeStep DEF MembersIInv
<1>2. PermissionsAreVouched'
  <2>1. SUFFICES ASSUME NEW u \in Users \ {Owner}, roleOf'[u] # Nil
                 PROVE  perms'[roleOf'[u]] \subseteq vouched'
    BY DEF PermissionsAreVouched, Vouched
  <2>2. roleOf'[u] \in Roles
    BY <1>1, <2>1 DEF MembersTypeOK
  <2>3. roleOf[u] = roleOf'[u] => perms'[roleOf'[u]] \subseteq vouched'
    BY <2>1, <2>2, VouchedStays DEF MembersIInv, PermissionsAreVouched, Vouched
  <2>4. ASSUME NEW k \in Callers, WriteAdd(k) \/ WriteMove(k)
        PROVE  perms'[roleOf'[u]] \subseteq vouched'
    <3>1. call[k] \in CallRecord /\ call[k].stage = "ready" /\ call[k].op \in {"add", "move"}
      BY <2>4, WritersAreReady DEF Writes, MembersIInv, WriteAdd, WriteMove, IsReady
    <3>2. ~call[k].full => Vouched(call[k].role)
      BY <3>1 DEF MembersIInv, WritesAreVouched
    <3>3. Vouch(call[k], perms[call[k].role]) /\ perms' = perms
      BY <2>4 DEF WriteAdd, WriteMove
    <3>4. perms[call[k].role] \subseteq vouched'
      BY <3>1, <3>2, <3>3 DEF Vouch, Vouched, CallRecord
    <3>5. roleOf'[u] = roleOf[u] \/ roleOf'[u] = call[k].role
      BY <2>4 DEF WriteAdd, WriteMove, MembersIInv, MembersTypeOK
    <3> QED
      BY <2>3, <3>3, <3>4, <3>5 DEF Vouched
  <2>5. ASSUME NEW v \in Users, NEW r \in Roles, AddByHand(v, r)
        PROVE  perms'[roleOf'[u]] \subseteq vouched'
    <3>1. roleOf'[u] = roleOf[u] \/ roleOf'[u] = r
      BY <2>5 DEF AddByHand, MembersIInv, MembersTypeOK
    <3> QED
      BY <2>3, <2>5, <3>1 DEF AddByHand, Vouched
  <2>6. ASSUME NEW k \in Callers, WriteRemove(k)
        PROVE  roleOf'[u] = roleOf[u]
    BY <2>1, <2>6 DEF WriteRemove, MembersIInv, MembersTypeOK
  <2>7. ASSUME NEW k \in Callers, Checks(k)
        PROVE  roleOf' = roleOf
    BY <2>7, ChecksAreChecked DEF Checked, Ready
  <2>8. ASSUME NEW k \in Callers, Writes(k)
        PROVE  perms'[roleOf'[u]] \subseteq vouched'
    BY <2>3, <2>4, <2>6, <2>8 DEF Writes, WriteCreate, WriteEdit, WriteDelete
  <2>9. (\E k \in Callers, v \in Users, op \in Operations : Admit(k, v, op))
        \/ (\E k \in Callers : Dismiss(k)) \/ (\E v \in Users : SetSuperuser(v))
        \/ (\E r \in Roles, codes \in Wishes : GrantByHand(r, codes)) \/ SetStatus
        \/ UNCHANGED memberVars => roleOf' = roleOf
    BY DEF Admit, Dismiss, SetSuperuser, GrantByHand, SetStatus, memberVars
  <2> QED
    BY <2>3, <2>5, <2>7, <2>8, <2>9, MembersSteps
<1>3. ASSUME NEW j \in Callers
      PROVE  CallIsVouched(call[j])'
  <2>1. call'[j] = NoCall => CallIsVouched(call[j])'
    BY DEF CallIsVouched
  <2>2. call'[j] = call[j] => CallIsVouched(call[j])'
    BY <2>1, RequestIsSame, SameRequestStaysVouched DEF MembersIInv, MembersTypeOK
  <2>3. ASSUME NEW k \in Callers, NEW u \in Users, NEW op \in Operations, Admit(k, u, op)
        PROVE  CallIsVouched(call[j])'
    <3>1. CASE j # k
      BY <2>2, <2>3, <3>1 DEF Admit
    <3>2. CASE j = k
      <4>1. /\ call'[j].stage = "admitted" /\ call'[j].full = HoldsAll(u)
            /\ call'[j].own = roleOf[u] /\ call'[j].ownPerms = perms[roleOf[u]]
        BY <2>3, <3>2 DEF Admit, MembersIInv, MembersTypeOK
      <4>2. ~HoldsAll(u) => perms[roleOf[u]] \subseteq vouched
        BY <2>3 DEF Admit, HoldsAll, MembersIInv, PermissionsAreVouched
      <4>3. UNCHANGED <<perms, vouched>>
        BY <2>3 DEF Admit
      <4> QED
        BY <4>1, <4>2, <4>3 DEF CallIsVouched, Vouched
    <3> QED
      BY <3>1, <3>2
  <2>4. ASSUME NEW k \in Callers, Checks(k)
        PROVE  CallIsVouched(call[j])'
    <3>1. PICK r \in Roles \cup {Nil}, wish \in Wishes \cup {{}}, u \in Users \cup {Nil} :
               Checked(k, r, wish, u)
      BY <2>4, ChecksAreChecked
    <3>2. CASE j # k
      <4>1. call'[j] = call[j]
        BY <3>1, <3>2 DEF Checked, Ready, MembersIInv, MembersTypeOK
      <4> QED
        BY <2>2, <4>1
    <3>3. CASE j = k
      <4>1. call[k] \in CallRecord /\ CallIsVouched(call[k]) /\ call[k] # NoCall
        BY <3>1, CallsAreVouched DEF Checked, NoCall, MembersIInv, MembersTypeOK
      <4>2. /\ call'[k].op = call[k].op /\ call'[k].full = call[k].full
            /\ call'[k].own = call[k].own /\ call'[k].ownPerms = call[k].ownPerms
            /\ call'[k].role = r /\ call'[k].wish = wish
        BY <3>1, <4>1 DEF Checked, Ready, CallRecord, MembersIInv, MembersTypeOK
      <4>3. UNCHANGED <<perms, vouched>>
        BY <3>1 DEF Checked, Ready
      <4>4. ~call[k].full /\ call[k].op \in {"add", "move"} => perms[r] \subseteq vouched
        BY <3>1, <4>1 DEF Checked, CanAssign, Loaded, Held, CallIsVouched, Vouched
      <4>5. ~call[k].full /\ call[k].op \in {"create", "edit"} => wish \subseteq vouched
        BY <3>1, <4>1 DEF Checked, Grantable, Held, CallIsVouched
      <4> QED
        BY <3>3, <4>1, <4>2, <4>3, <4>4, <4>5 DEF CallIsVouched, Vouched
    <3> QED
      BY <3>2, <3>3
  <2>5. ASSUME NEW k \in Callers, Writes(k)
        PROVE  CallIsVouched(call[j])'
    BY <2>1, <2>5, WritesLeaveCalls, SameRequestStaysVouched DEF MembersIInv
  <2>6. ASSUME NEW k \in Callers, Dismiss(k)
        PROVE  CallIsVouched(call[j])'
    BY <2>1, <2>2, <2>6 DEF Dismiss, MembersIInv, MembersTypeOK
  <2>7. (\E u \in Users : SetSuperuser(u)) \/ (\E u \in Users, r \in Roles : AddByHand(u, r))
        \/ (\E r \in Roles, codes \in Wishes : GrantByHand(r, codes)) \/ SetStatus
        \/ UNCHANGED memberVars => call' = call
    BY DEF SetSuperuser, AddByHand, GrantByHand, SetStatus, ByHand, memberVars
  <2> QED
    BY <2>2, <2>3, <2>4, <2>5, <2>6, <2>7, MembersSteps
<1>4. (CallersAreVouched /\ WritesAreVouched)'
  BY <1>3 DEF CallersAreVouched, WritesAreVouched, CallIsVouched, NoCall
<1> QED
  BY <1>1, <1>2, <1>4 DEF MembersIInv

\* The roles, members and requests of an organization keep their types.
THEOREM MembersTypeCorrect == MembersSpec => []MembersTypeOK
<1>1. MembersInit => MembersTypeOK
  BY MembersInitIInv DEF MembersIInv
<1>2. MembersTypeOK /\ [MembersNext]_memberVars => MembersTypeOK'
  BY MembersTypeStep
<1> QED
  BY <1>1, <1>2, PTL DEF MembersSpec

\* What a member other than the owner may do was given by somebody who holds
\* everything, however the requests of others overlap with promotions, edits and
\* removals (_grantable, ensure_can_assign).
THEOREM NothingIsPassedOnUnvouched == MembersSpec => []PermissionsAreVouched
<1>1. MembersInit => MembersIInv
  BY MembersInitIInv
<1>2. MembersIInv /\ [MembersNext]_memberVars => MembersIInv'
  BY MembersIInvStep
<1>3. MembersIInv => PermissionsAreVouched
  BY DEF MembersIInv
<1> QED
  BY <1>1, <1>2, <1>3, PTL DEF MembersSpec

-----------------------------------------------------------------------------
(***************************************************************************)
(* History keeps the records it names, for any records, rows and number of    *)
(* requests at a time.                                                        *)
(*                                                                          *)
(* A delete acts on what it looked for earlier.  The invariant says what that  *)
(* look is worth by then: a row the delete would have stopped at was written   *)
(* since, and its record is known to be overtaken (UnusedUnlessOvertaken).     *)
(* What is not looked for is kept by its foreign key (RowsAreProtected).       *)
(***************************************************************************)

Row == [kind : RowKinds, record : Masters \cup {Nought}, was : Masters, percent : {0, 1}]

\* Records, rows and requests keep their types.
RecordsTypeOK ==
    /\ alive \subseteq Masters
    /\ row \in Seq(Row)
    /\ percent \in [Masters -> {0, 1}]
    /\ keeper \in [Keepers -> Masters \cup {Nought}]
    /\ overtaken \subseteq Masters

\* A row names what it was written for, or nothing once that is gone; a tax rate is
\* never deleted, so a line that has one keeps it.
RowsNameTheirRecord ==
    \A i \in DOMAIN row :
        /\ Names[row[i].kind] = KindOf[row[i].was]
        /\ row[i].record \in {row[i].was, Nought}
        /\ row[i].record = Nought => row[i].was \notin alive
        /\ KindOf[row[i].was] = "rate" => row[i].record = row[i].was

\* A request about to delete m found no row that names it; one that is there now
\* was written since.
UnusedUnlessOvertaken ==
    \A k \in Keepers : \A i \in RowsNaming(keeper[k], LookedFor(KindOf[keeper[k]])) :
        keeper[k] # Nought => keeper[k] \in overtaken

RecordsIInv ==
    RecordsTypeOK /\ RowsNameTheirRecord /\ UnusedUnlessOvertaken /\ HistoryKeepsItsRecord

-----------------------------------------------------------------------------
\* What a delete does not look for, of rows whose records go, is kept by its
\* foreign key, or names a unit, or is a document that names its place (models.py of
\* every module, ondelete).
LEMMA RowsAreProtected ==
    ASSUME NEW kind \in RowKinds, OnDelete[kind] # "refuse", kind \notin {"measured", "placed"}
    PROVE  kind \in LookedFor(Names[kind])
BY DEF RowKinds, Names, OnDelete, LookedFor

\* Nothing is written at the start.
LEMMA RecordsInitIInv == RecordsInit => RecordsIInv
BY DEF RecordsInit, RecordsIInv, RecordsTypeOK, RowsNameTheirRecord, UnusedUnlessOvertaken,
       HistoryKeepsItsRecord, RowsNaming, Row

\* A row is written; who has found its record unused is overtaken.
LEMMA NamingKeepsIInv ==
    ASSUME RecordsIInv, NEW kind \in RowKinds, NEW m \in Masters, NameRecord(kind, m)
    PROVE  RecordsIInv'
<1> DEFINE new == [kind |-> kind, record |-> m, was |-> m, percent |-> percent[m]]
<1>1. /\ Names[kind] = KindOf[m] /\ row' = Append(row, new)
      /\ overtaken' = IF \E k \in Keepers : keeper[k] = m THEN overtaken \cup {m} ELSE overtaken
      /\ UNCHANGED <<alive, percent, keeper>>
  BY DEF NameRecord
<1>2. new \in Row /\ new.kind = kind /\ new.record = m /\ new.was = m /\ new.percent = percent[m]
  BY DEF Row, RecordsIInv, RecordsTypeOK
<1> HIDE DEF new
<1>3. RecordsTypeOK'
  BY <1>1, <1>2 DEF RecordsIInv, RecordsTypeOK
<1>4. /\ DOMAIN row' = 1..(Len(row) + 1) /\ DOMAIN row = 1..Len(row) /\ Len(row) \in Nat
      /\ \A i \in DOMAIN row : row'[i] = row[i] /\ row'[Len(row) + 1] = new
  BY <1>1, <1>2 DEF RecordsIInv, RecordsTypeOK
<1>5. \A i \in DOMAIN row' : (i \in DOMAIN row /\ row'[i] = row[i]) \/ row'[i] = new
  BY <1>1, <1>2, <1>4 DEF RecordsIInv, RecordsTypeOK
<1>6. RowsNameTheirRecord'
  BY <1>1, <1>2, <1>5, RecordsAssumption DEF RecordsIInv, RowsNameTheirRecord
<1>7. UnusedUnlessOvertaken'
  BY <1>1, <1>2, <1>5 DEF RecordsIInv, UnusedUnlessOvertaken, RowsNaming
<1>8. HistoryKeepsItsRecord'
  <2>1. \A x : x # m /\ MovedAt(x)' => MovedAt(x)
    BY <1>2, <1>5 DEF MovedAt
  <2>2. \A i \in DOMAIN row : row[i].record = Nought => row[i].was # m
    BY DEF NameRecord, RecordsIInv, RowsNameTheirRecord
  <2>3. /\ new.record # Nought /\ new.percent = percent'[new.was]
        /\ percent' = percent /\ overtaken \subseteq overtaken'
    BY <1>1, <1>2, RecordsAssumption
  <2>4. ASSUME NEW i \in DOMAIN row, row'[i] = row[i], row[i].record = Nought
        PROVE  \/ row[i].kind = "measured"
               \/ row[i].kind = "placed" /\ ~MovedAt(row[i].was)'
               \/ row[i].was \in overtaken' /\ OnDelete[row[i].kind] # "refuse"
               \/ row[i].was \in Variants /\ row[i].kind = "line"
    BY <2>1, <2>2, <2>3, <2>4 DEF RecordsIInv, HistoryKeepsItsRecord
  <2>5. \A i \in DOMAIN row : row[i].percent = percent'[row[i].was] \/ row[i].was \in overtaken'
    BY <2>3 DEF RecordsIInv, HistoryKeepsItsRecord
  <2> QED
    BY <1>5, <2>3, <2>4, <2>5 DEF HistoryKeepsItsRecord
<1> QED
  BY <1>3, <1>6, <1>7, <1>8 DEF RecordsIInv

\* Rows that lose their record, one the foreign keys let go, are those that were
\* written since it was found unused, those that name units, the lines of a dropped
\* variant, and documents at a place where no goods moved.
LEMMA RemovingKeepsIInv ==
    ASSUME RecordsIInv, NEW m \in Masters, Removed(m), KindOf[m] # "rate",
           UNCHANGED <<percent, overtaken>>,
           keeper' \in [Keepers -> Masters \cup {Nought}],
           \A k \in Keepers : keeper'[k] \in {keeper[k], Nought},
           \A i \in RowsNaming(m, LookedFor(KindOf[m])) :
               m \in overtaken \/ (m \in Variants /\ row[i].kind = "line")
    PROVE  RecordsIInv'
<1> DEFINE cleared(i) == IF row[i].record = m THEN [row[i] EXCEPT !.record = Nought] ELSE row[i]
<1>1. /\ \A i \in RowsNaming(m, RowKinds) : OnDelete[row[i].kind] # "refuse"
      /\ alive' = alive \ {m} /\ row' = [i \in DOMAIN row |-> cleared(i)]
  BY DEF Removed
<1>2. /\ row \in Seq(Row) /\ DOMAIN row = 1..Len(row) /\ Len(row) \in Nat
      /\ \A i \in DOMAIN row : row[i] \in Row
  BY DEF RecordsIInv, RecordsTypeOK
<1>3. \A i \in DOMAIN row :
        /\ cleared(i) \in Row /\ cleared(i).kind = row[i].kind /\ cleared(i).was = row[i].was
        /\ cleared(i).percent = row[i].percent
        /\ cleared(i).record = IF row[i].record = m THEN Nought ELSE row[i].record
  BY <1>2 DEF Row
<1> HIDE DEF cleared
<1>4. DOMAIN row' = DOMAIN row /\ \A i \in DOMAIN row : row'[i] = cleared(i)
  BY <1>1
<1>5. row' \in Seq(Row)
  BY <1>1, <1>2, <1>3
<1>6. RecordsTypeOK'
  BY <1>1, <1>5 DEF RecordsIInv, RecordsTypeOK
<1>7. RowsNameTheirRecord'
  <2> SUFFICES ASSUME NEW i \in DOMAIN row
               PROVE  /\ Names[cleared(i).kind] = KindOf[cleared(i).was]
                      /\ cleared(i).record \in {cleared(i).was, Nought}
                      /\ cleared(i).record = Nought => cleared(i).was \notin alive'
                      /\ KindOf[cleared(i).was] = "rate" => cleared(i).record = cleared(i).was
    BY <1>4 DEF RowsNameTheirRecord
  <2> QED
    BY <1>1, <1>3, RecordsAssumption DEF RecordsIInv, RowsNameTheirRecord
<1>8. UnusedUnlessOvertaken'
  BY <1>3, <1>4 DEF RecordsIInv, UnusedUnlessOvertaken, RowsNaming
<1>10. \A x : MovedAt(x)' <=> MovedAt(x)
  BY <1>3, <1>4 DEF MovedAt
<1>11. KindOf[m] = "location" /\ MovedAt(m) => m \in overtaken
  <2> SUFFICES ASSUME KindOf[m] = "location", NEW i \in DOMAIN row,
                      row[i].kind = "stay", row[i].was = m
               PROVE  m \in overtaken
    BY DEF MovedAt
  <2>1. CASE row[i].record = Nought
    BY <2>1 DEF RecordsIInv, HistoryKeepsItsRecord
  <2>2. CASE row[i].record = m
    <3>1. i \in RowsNaming(m, LookedFor(KindOf[m]))
      BY <2>2 DEF RowsNaming, LookedFor
    <3> QED
      BY <3>1
  <2> QED
    BY <2>1, <2>2 DEF RecordsIInv, RowsNameTheirRecord
<1>9. HistoryKeepsItsRecord'
  <2> SUFFICES ASSUME NEW i \in DOMAIN row
               PROVE  /\ cleared(i).record = Nought =>
                            \/ cleared(i).kind = "measured"
                            \/ cleared(i).kind = "placed" /\ ~MovedAt(cleared(i).was)
                            \/ cleared(i).was \in overtaken /\ OnDelete[cleared(i).kind] # "refuse"
                            \/ cleared(i).was \in Variants /\ cleared(i).kind = "line"
                      /\ cleared(i).percent = percent[cleared(i).was] \/ cleared(i).was \in overtaken
    BY <1>10, <1>4 DEF HistoryKeepsItsRecord
  <2>1. CASE row[i].record # m
    BY <1>3, <2>1 DEF RecordsIInv, HistoryKeepsItsRecord
  <2>2. CASE row[i].record = m
    <3>1. row[i].was = m /\ Names[row[i].kind] = KindOf[m] /\ row[i].kind \in RowKinds
      BY <1>2, <2>2, RecordsAssumption DEF RecordsIInv, RowsNameTheirRecord, Row
    <3>2. OnDelete[row[i].kind] # "refuse"
      BY <1>1, <2>2, <3>1 DEF RowsNaming
    <3>3. row[i].kind \notin {"measured", "placed"} => i \in RowsNaming(m, LookedFor(KindOf[m]))
      BY <2>2, <3>1, <3>2, RowsAreProtected DEF RowsNaming
    <3>4. row[i].kind = "placed" => m \in overtaken \/ ~MovedAt(m)
      BY <1>11, <3>1 DEF Names
    <3> QED
      BY <1>3, <3>1, <3>2, <3>3, <3>4 DEF RecordsIInv, HistoryKeepsItsRecord
  <2> QED
    BY <2>1, <2>2
<1> QED
  BY <1>6, <1>7, <1>8, <1>9 DEF RecordsIInv

\* The delete methods, and _apply_variants, which looks for nothing: what of an
\* item is not kept by its foreign key is a line.
LEMMA DeletingKeepsIInv ==
    ASSUME RecordsIInv,
           (\E k \in Keepers : DeleteRecord(k)) \/ (\E m \in Masters : DropVariant(m))
    PROVE  RecordsIInv'
<1>1. ASSUME NEW k \in Keepers, DeleteRecord(k)
      PROVE  RecordsIInv'
  <2>1. /\ keeper[k] \in Masters /\ keeper[k] # Nought /\ KindOf[keeper[k]] # "rate"
        /\ Removed(keeper[k])
        /\ keeper' = [keeper EXCEPT ![k] = Nought] /\ UNCHANGED <<percent, overtaken>>
    BY <1>1, RecordsAssumption DEF DeleteRecord, RecordsIInv, RecordsTypeOK
  <2>2. /\ keeper' \in [Keepers -> Masters \cup {Nought}]
        /\ \A o \in Keepers : keeper'[o] \in {keeper[o], Nought}
    BY <2>1 DEF RecordsIInv, RecordsTypeOK
  <2>3. \A i \in RowsNaming(keeper[k], LookedFor(KindOf[keeper[k]])) : keeper[k] \in overtaken
    BY <2>1 DEF RecordsIInv, UnusedUnlessOvertaken
  <2> QED
    BY <2>1, <2>2, <2>3, RemovingKeepsIInv
<1>2. ASSUME NEW m \in Masters, DropVariant(m)
      PROVE  RecordsIInv'
  <2>1. m \in Variants /\ KindOf[m] = "item" /\ Removed(m) /\ UNCHANGED <<percent, keeper, overtaken>>
    BY <1>2, RecordsAssumption DEF DropVariant
  <2>2. \A i \in RowsNaming(m, LookedFor(KindOf[m])) : row[i].kind = "line"
    BY <2>1 DEF Removed, RowsNaming, LookedFor, OnDelete, RowKinds, Names
  <2>3. keeper \in [Keepers -> Masters \cup {Nought}]
    BY DEF RecordsIInv, RecordsTypeOK
  <2> QED
    BY <2>1, <2>2, <2>3, RemovingKeepsIInv
<1> QED
  BY <1>1, <1>2

\* Looking for rows and giving up change no row; a rate changes when no line that
\* was there had it (update_tax_rate).
LEMMA LookingKeepsIInv ==
    ASSUME RecordsIInv, NEW k \in Keepers,
           LeaveRecord(k) \/ ChangePercent(k) \/ \E m \in Masters : FindUnused(k, m)
    PROVE  RecordsIInv'
<1>1. CASE LeaveRecord(k)
  BY <1>1 DEF LeaveRecord, RecordsIInv, RecordsTypeOK, RowsNameTheirRecord,
              UnusedUnlessOvertaken, HistoryKeepsItsRecord, MovedAt, RowsNaming
<1>2. ASSUME NEW m \in Masters, FindUnused(k, m)
      PROVE  RecordsIInv'
  BY <1>2 DEF FindUnused, RecordsIInv, RecordsTypeOK, RowsNameTheirRecord,
              UnusedUnlessOvertaken, HistoryKeepsItsRecord, MovedAt, RowsNaming
<1>3. CASE ChangePercent(k)
  <2> DEFINE m == keeper[k]
  <2>1. /\ m \in Masters /\ m # Nought /\ KindOf[m] = "rate"
        /\ percent' = [percent EXCEPT ![m] = 1] /\ keeper' = [keeper EXCEPT ![k] = Nought]
        /\ UNCHANGED <<alive, row, overtaken>>
    BY <1>3, RecordsAssumption DEF ChangePercent, RecordsIInv, RecordsTypeOK
  <2>2. \A i \in DOMAIN row : row[i].was = m => m \in overtaken
    <3> SUFFICES ASSUME NEW i \in DOMAIN row, row[i].was = m
                 PROVE  m \in overtaken
      OBVIOUS
    <3>1. row[i].record = m /\ Names[row[i].kind] = "rate" /\ row[i].kind \in RowKinds
      <4>1. row[i] \in Row
        BY DEF RecordsIInv, RecordsTypeOK
      <4> QED
        BY <2>1, <4>1 DEF RecordsIInv, RowsNameTheirRecord, Row
    <3>2. row[i].kind \in LookedFor(KindOf[m])
      BY <2>1, <3>1 DEF LookedFor, Names, RowKinds
    <3> QED
      BY <2>1, <3>1, <3>2 DEF RecordsIInv, UnusedUnlessOvertaken, RowsNaming
  <2>3. RecordsTypeOK'
    BY <2>1 DEF RecordsIInv, RecordsTypeOK
  <2>4. (RowsNameTheirRecord /\ UnusedUnlessOvertaken)'
    BY <2>1 DEF RecordsIInv, RecordsTypeOK, RowsNameTheirRecord, UnusedUnlessOvertaken, RowsNaming
  <2>5. HistoryKeepsItsRecord'
    BY <2>1, <2>2 DEF RecordsIInv, RecordsTypeOK, HistoryKeepsItsRecord, MovedAt
  <2> QED
    BY <2>3, <2>4, <2>5 DEF RecordsIInv
<1> QED
  BY <1>1, <1>2, <1>3

\* The invariant holds throughout.
LEMMA RecordsAlwaysIInv == RecordsSpec => []RecordsIInv
<1>1. RecordsInit => RecordsIInv
  BY RecordsInitIInv
<1>2. RecordsIInv /\ [RecordsNext]_recordVars => RecordsIInv'
  <2> SUFFICES ASSUME RecordsIInv, RecordsNext \/ UNCHANGED recordVars
               PROVE  RecordsIInv'
    OBVIOUS
  <2>1. CASE UNCHANGED recordVars
    BY <2>1 DEF recordVars, RecordsIInv, RecordsTypeOK, RowsNameTheirRecord,
                UnusedUnlessOvertaken, HistoryKeepsItsRecord, MovedAt, RowsNaming
  <2>2. CASE RecordsNext
    BY <2>2, NamingKeepsIInv, DeletingKeepsIInv, LookingKeepsIInv DEF RecordsNext
  <2> QED
    BY <2>1, <2>2
<1> QED
  BY <1>1, <1>2, PTL DEF RecordsSpec

\* Whatever rows are written beside deletes and changes of rates, a row loses its
\* record only if it was written while the record was being deleted, is the line
\* of a dropped variant, names a unit, or is a document at a place where no goods
\* moved; and its percentage only in the first case.
THEOREM HistoryIsKept == RecordsSpec => []HistoryKeepsItsRecord
<1>1. RecordsIInv => HistoryKeepsItsRecord
  BY DEF RecordsIInv
<1> QED
  BY <1>1, RecordsAlwaysIInv, PTL

=============================================================================
