------------------------------ MODULE Members ------------------------------
(***************************************************************************)
(* The members of an organization, their roles, and what they may do          *)
(* (orgs/service.py, rbac/service.py, api/deps.py, cli.py).                   *)
(*                                                                          *)
(* A request is let in by the permission its endpoint asks for; it then reads  *)
(* the role and the member it is about, checks that its caller grants nothing  *)
(* the caller does not hold, and writes.  Nothing is locked: the caller may be *)
(* demoted, the role edited and the member removed in between.                 *)
(***************************************************************************)
EXTENDS Naturals

CONSTANTS
    Modules,    \* the modules permissions are about, "orgs", "users", "roles" among them
    Users, Owner,
    CustomRoles,
    Wishes,     \* the sets of permissions a role is asked to have
    Callers,    \* requests at a time
    MaxCalls,   \* bound: requests altogether
    MaxByHand,  \* bound: what an operator does by hand
    Nil         \* no role, no user

System == {"super_admin", "admin", "member", "viewer"}
Roles  == System \cup CustomRoles
Office == {"orgs", "users", "roles"}

Actions(m) ==
    CASE m = "orgs" -> {"read", "update", "delete"}
      [] m = "reports" -> {"read"}
      [] OTHER -> {"create", "read", "update", "delete"}

\* A permission is a module and an action.
Catalog == UNION {{m} \X Actions(m) : m \in Modules}

ASSUME MembersAssumption ==
    /\ Office \subseteq Modules /\ Owner \in Users
    /\ CustomRoles \cap System = {} /\ Nil \notin Roles \cup Users
    /\ Wishes \subseteq SUBSET Catalog
    /\ MaxCalls \in Nat /\ MaxByHand \in Nat

ReadOnly == {<<m, "read">> : m \in Modules \ Office}

DefaultPermissions ==
    [r \in System |->
        CASE r = "super_admin" -> Catalog
          [] r = "admin" -> Catalog \ {<<"orgs", "delete">>}
          [] r = "member" ->
                 {<<"users", "read">>} \cup ReadOnly
                 \cup ((Modules \cap {"payments"}) \X {"create"})
                 \cup ((Modules \ (Office \cup {"payments", "accounting", "reports"}))
                       \X {"create", "update"})
          [] r = "viewer" -> ReadOnly]

Operations == {"add", "move", "remove", "create", "edit", "delete"}

\* What each endpoint asks for.
Needed == [add |-> <<"users", "create">>, move |-> <<"users", "update">>,
           remove |-> <<"users", "delete">>, create |-> <<"roles", "create">>,
           edit |-> <<"roles", "update">>, delete |-> <<"roles", "delete">>]

VARIABLES
    made,       \* the roles that were ever made: ids are not used twice
    roles,      \* the roles there are
    perms,      \* perms[r]: the permissions of role r
    roleOf,     \* roleOf[u]: the role of member u, Nil for who is no member
    supers,     \* the superusers
    enabled,    \* the organization is not disabled
    call,       \* call[k]: the request k works on
    calls, byHand,
    vouched     \* the permissions someone who holds them all has given (history)

memberVars == <<made, roles, perms, roleOf, supers, enabled, call, calls, byHand, vouched>>

NoCall == [stage |-> "none"]

\* create_org_with_owner: the default roles, and the owner as a super admin.
MembersInit ==
    /\ made = System /\ roles = System
    /\ perms = [r \in Roles |-> IF r \in System THEN DefaultPermissions[r] ELSE {}]
    /\ roleOf = [u \in Users |-> IF u = Owner THEN "super_admin" ELSE Nil]
    /\ supers = {} /\ enabled = TRUE
    /\ call = [k \in Callers |-> NoCall]
    /\ calls = 0 /\ byHand = 0
    /\ vouched = {}

HoldsAll(u) == u = Owner \/ u \in supers

Permitted(u, code) == HoldsAll(u) \/ code \in perms[roleOf[u]]

\* get_current_membership and require_permission: the caller's membership, role
\* and permissions are loaded, and not read again.
Admit(k, u, op) ==
    /\ call[k] = NoCall /\ calls < MaxCalls
    /\ roleOf[u] # Nil /\ enabled
    /\ Permitted(u, Needed[op])
    /\ call' = [call EXCEPT ![k] =
                   [stage |-> "admitted", op |-> op, who |-> u, full |-> HoldsAll(u),
                    own |-> roleOf[u], ownPerms |-> perms[roleOf[u]],
                    role |-> Nil, loaded |-> {}, wish |-> {}, user |-> Nil, was |-> Nil]]
    /\ calls' = calls + 1
    /\ UNCHANGED <<made, roles, perms, roleOf, supers, enabled, byHand, vouched>>

Held(c) == IF c.full THEN Catalog ELSE c.ownPerms

\* Mutant: only what the caller may assign is looked at, not what is granted.
AnyWish(c, codes) == TRUE

Grantable(c, codes) == codes \subseteq Held(c)

\* The session knows the caller's own role from before.
Loaded(c, r) == IF r = c.own THEN c.ownPerms ELSE perms[r]

CanAssign(c, r) == Loaded(c, r) \subseteq Held(c)

Ready(k, r, wish, u) ==
    /\ call' = [call EXCEPT ![k].stage = "ready", ![k].role = r, ![k].wish = wish,
                            ![k].loaded = IF r \in roles THEN Loaded(call[k], r) ELSE {},
                            ![k].user = u, ![k].was = IF u = Nil THEN Nil ELSE roleOf[u]]
    /\ UNCHANGED <<made, roles, perms, roleOf, supers, enabled, calls, byHand, vouched>>

Admitted(k, op) == call[k].stage = "admitted" /\ call[k].op = op

CheckAdd(k, r, u) ==
    /\ Admitted(k, "add")
    /\ r \in roles /\ CanAssign(call[k], r)
    /\ roleOf[u] = Nil
    /\ Ready(k, r, {}, u)

CheckMove(k, r, u) ==
    /\ Admitted(k, "move")
    /\ roleOf[u] # Nil /\ u # Owner /\ u # call[k].who
    /\ r \in roles /\ CanAssign(call[k], r)
    /\ Ready(k, r, {}, u)

CheckRemove(k, u) ==
    /\ Admitted(k, "remove")
    /\ roleOf[u] # Nil /\ u # Owner
    /\ Ready(k, Nil, {}, u)

CheckCreate(k, r, wish) ==
    /\ Admitted(k, "create")
    /\ r \in CustomRoles \ made /\ Grantable(call[k], wish)
    /\ Ready(k, r, wish, Nil)

CheckEdit(k, r, wish) ==
    /\ Admitted(k, "edit")
    /\ r \in roles \ System /\ CanAssign(call[k], r) /\ Grantable(call[k], wish)
    /\ Ready(k, r, wish, Nil)

CheckDelete(k, r) ==
    /\ Admitted(k, "delete")
    /\ r \in roles \ System /\ \A u \in Users : roleOf[u] # r
    /\ Ready(k, r, {}, Nil)

-----------------------------------------------------------------------------
IsReady(k, op) == call[k].stage = "ready" /\ call[k].op = op

Vouch(c, codes) == vouched' = IF c.full THEN vouched \cup codes ELSE vouched

\* The unique constraint on members and the foreign key to the role hold.
WriteAdd(k) ==
    LET c == call[k] IN
    /\ IsReady(k, "add")
    /\ roleOf[c.user] = Nil /\ c.role \in roles
    /\ roleOf' = [roleOf EXCEPT ![c.user] = c.role]
    /\ Vouch(c, perms[c.role])
    /\ call' = [call EXCEPT ![k] = NoCall]
    /\ UNCHANGED <<made, roles, perms, supers, enabled, calls, byHand>>

\* A role that is the one the member had is not written. A request about a
\* membership that is gone finds no row to write (see WriteRemove).
WriteMove(k) ==
    LET c == call[k] IN
    /\ IsReady(k, "move") /\ c.user # Nil /\ c.role # c.was /\ c.role \in roles
    /\ roleOf' = [roleOf EXCEPT ![c.user] = c.role]
    /\ Vouch(c, perms[c.role])
    /\ call' = [call EXCEPT ![k] = NoCall]
    /\ UNCHANGED <<made, roles, perms, supers, enabled, calls, byHand>>

\* The membership of u is gone, and a new one is another row.
Without(c, u) ==
    IF c = NoCall THEN c
    ELSE [c EXCEPT !.who = IF @ = u THEN Nil ELSE @,
                   !.user = IF @ = u /\ c.op \in {"move", "remove"} THEN Nil ELSE @]

WriteRemove(k) ==
    LET u == call[k].user IN
    /\ IsReady(k, "remove") /\ u # Nil
    /\ roleOf' = [roleOf EXCEPT ![u] = Nil]
    /\ call' = [j \in Callers |-> IF j = k THEN NoCall ELSE Without(call[j], u)]
    /\ UNCHANGED <<made, roles, perms, supers, enabled, calls, byHand, vouched>>

WriteCreate(k) ==
    LET c == call[k] IN
    /\ IsReady(k, "create") /\ c.role \notin made
    /\ made' = made \cup {c.role} /\ roles' = roles \cup {c.role}
    /\ perms' = [perms EXCEPT ![c.role] = c.wish]
    /\ Vouch(c, c.wish)
    /\ call' = [call EXCEPT ![k] = NoCall]
    /\ UNCHANGED <<roleOf, supers, enabled, calls, byHand>>

\* The rows of the role's permissions are brought from what was loaded to what
\* is wished: one inserted twice breaks the primary key.
WriteEdit(k) ==
    LET c == call[k] IN
    /\ IsReady(k, "edit") /\ c.role \in roles
    /\ (c.wish \ c.loaded) \cap perms[c.role] = {}
    /\ perms' = [perms EXCEPT ![c.role] = (@ \ (c.loaded \ c.wish)) \cup (c.wish \ c.loaded)]
    /\ Vouch(c, c.wish)
    /\ call' = [call EXCEPT ![k] = NoCall]
    /\ UNCHANGED <<made, roles, roleOf, supers, enabled, calls, byHand>>

\* Who holds the role by now keeps it from being deleted.
WriteDelete(k) ==
    LET r == call[k].role IN
    /\ IsReady(k, "delete") /\ r \in roles
    /\ \A u \in Users : roleOf[u] # r
    /\ roles' = roles \ {r} /\ perms' = [perms EXCEPT ![r] = {}]
    /\ call' = [call EXCEPT ![k] = NoCall]
    /\ UNCHANGED <<made, roleOf, supers, enabled, calls, byHand, vouched>>

\* Refused by a check or by the database, with nothing to write, or cut off.
Dismiss(k) ==
    /\ call[k] # NoCall
    /\ call' = [call EXCEPT ![k] = NoCall]
    /\ UNCHANGED <<made, roles, perms, roleOf, supers, enabled, calls, byHand, vouched>>

-----------------------------------------------------------------------------
ByHand == byHand < MaxByHand /\ byHand' = byHand + 1 /\ UNCHANGED <<made, roles, call, calls>>

\* users set-superuser
SetSuperuser(u) ==
    /\ ByHand
    /\ supers' = IF u \in supers THEN supers \ {u} ELSE supers \cup {u}
    /\ UNCHANGED <<perms, roleOf, enabled, vouched>>

\* orgs add-member
AddByHand(u, r) ==
    /\ ByHand
    /\ r \in roles /\ roleOf[u] = Nil
    /\ roleOf' = [roleOf EXCEPT ![u] = r]
    /\ vouched' = vouched \cup perms[r]
    /\ UNCHANGED <<perms, supers, enabled>>

\* roles grant: of any role, a system role too.
GrantByHand(r, codes) ==
    /\ ByHand
    /\ r \in roles
    /\ perms' = [perms EXCEPT ![r] = @ \cup codes]
    /\ vouched' = vouched \cup codes
    /\ UNCHANGED <<roleOf, supers, enabled>>

\* set_status of the super admins
SetStatus ==
    /\ ByHand
    /\ enabled' = ~enabled
    /\ UNCHANGED <<perms, roleOf, supers, vouched>>

Checks(k) ==
    \/ \E r \in Roles, u \in Users : CheckAdd(k, r, u) \/ CheckMove(k, r, u)
    \/ \E u \in Users : CheckRemove(k, u)
    \/ \E r \in CustomRoles, wish \in Wishes : CheckCreate(k, r, wish) \/ CheckEdit(k, r, wish)
    \/ \E r \in CustomRoles : CheckDelete(k, r)

Writes(k) ==
    \/ WriteAdd(k) \/ WriteMove(k) \/ WriteRemove(k)
    \/ WriteCreate(k) \/ WriteEdit(k) \/ WriteDelete(k)

MembersNext ==
    \/ \E k \in Callers : \/ \E u \in Users, op \in Operations : Admit(k, u, op)
                          \/ Checks(k) \/ Writes(k) \/ Dismiss(k)
    \/ \E u \in Users : SetSuperuser(u)
    \/ \E u \in Users, r \in Roles : AddByHand(u, r)
    \/ \E r \in Roles, codes \in Wishes : GrantByHand(r, codes)
    \/ SetStatus

MembersSpec == MembersInit /\ [][MembersNext]_memberVars

-----------------------------------------------------------------------------
\* What a member other than the owner may do, somebody who holds every
\* permission has once given: by assigning a role that has it, by putting it in
\* a role, or by hand.  Members who hold less can pass on what they hold, in any
\* number of steps and however their requests overlap with demotions and edits,
\* and nothing more ("You cannot grant permissions you do not hold").
PermissionsAreVouched ==
    \A u \in Users \ {Owner} : roleOf[u] # Nil => perms[roleOf[u]] \subseteq vouched
=============================================================================
