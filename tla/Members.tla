------------------------------ MODULE Members ------------------------------
(***************************************************************************)
(* The members of one business and the admins who change them.  A request  *)
(* of an admin is one transaction, but it locks nothing before it writes:  *)
(* what it checked may have changed (READ COMMITTED).                      *)
(***************************************************************************)
CONSTANTS
  Users, Admins,
  Owners       \* the active owners it begins with; with {}, it is yet to be created

VARIABLES
  opened,      \* the business's row exists
  member,      \* member[u]: the row of u in the business
  admin        \* admin[a]: the change a has checked and not written yet

vars == <<opened, member, admin>>

Role == {"OWNER", "MANAGER", "CASHIER"}
CriticalRoles == {"OWNER", "MANAGER"}

NoMember == [role |-> "NONE", active |-> FALSE]
Idle == [pc |-> "IDLE"]

Upserts == [pc: {"UPSERT"}, user: Users, role: Role, active: BOOLEAN]
Deactivations == [pc: {"DEACTIVATE"}, user: Users]

TypeOK ==
  /\ opened \in BOOLEAN
  /\ member \in [Users -> {NoMember} \union [role: Role, active: BOOLEAN]]
  /\ admin \in [Admins -> {Idle} \union Upserts \union Deactivations]

Init ==
  /\ opened = (Owners # {})
  /\ member = [u \in Users |-> IF u \in Owners THEN [role |-> "OWNER", active |-> TRUE]
                               ELSE NoMember]
  /\ admin = [a \in Admins |-> Idle]

-----------------------------------------------------------------------------
(* Who may do what: active memberships only, whatever the business's       *)
(* contact user is.                                                        *)

ActiveMembers(roles) == {u \in Users : member[u].active /\ member[u].role \in roles}

Critical == ActiveMembers(CriticalRoles)

-----------------------------------------------------------------------------
(* A business is created with its first member, or with none.              *)
CreateBusiness(first) ==
  /\ ~opened /\ opened' = TRUE
  /\ member' = [u \in Users |-> IF u \in DOMAIN first THEN first[u] ELSE member[u]]
  /\ UNCHANGED admin

First(u, role) == [v \in {u} |-> [role |-> role, active |-> TRUE]]

(* _assert_business_keeps_critical_membership.                             *)
KeepsCritical(u, role, active) ==
  \/ active /\ role \in CriticalRoles
  \/ Critical \ {u} # {}

CheckUpsert(a, u, role, active) ==
  /\ opened /\ admin[a] = Idle
  /\ member[u] # NoMember => KeepsCritical(u, role, active)
  /\ admin' = [admin EXCEPT ![a] = [pc |-> "UPSERT", user |-> u, role |-> role, active |-> active]]
  /\ UNCHANGED <<opened, member>>

WriteUpsert(a) ==
  /\ admin[a].pc = "UPSERT"
  /\ member' = [member EXCEPT ![admin[a].user] =
                  [role |-> admin[a].role, active |-> admin[a].active]]
  /\ admin' = [admin EXCEPT ![a] = Idle]
  /\ UNCHANGED opened

CheckDeactivation(a, u) ==
  /\ opened /\ admin[a] = Idle
  /\ member[u] # NoMember /\ KeepsCritical(u, member[u].role, FALSE)
  /\ admin' = [admin EXCEPT ![a] = [pc |-> "DEACTIVATE", user |-> u]]
  /\ UNCHANGED <<opened, member>>

WriteDeactivation(a) ==
  /\ admin[a].pc = "DEACTIVATE"
  /\ member' = [member EXCEPT ![admin[a].user].active = FALSE]
  /\ admin' = [admin EXCEPT ![a] = Idle]
  /\ UNCHANGED opened

-----------------------------------------------------------------------------
AdminStep(a) ==
  \/ \E u \in Users, role \in Role, active \in BOOLEAN : CheckUpsert(a, u, role, active)
  \/ \E u \in Users : CheckDeactivation(a, u)
  \/ WriteUpsert(a) \/ WriteDeactivation(a)

Next ==
  \/ CreateBusiness(<<>>)
  \/ \E u \in Users, role \in Role : CreateBusiness(First(u, role))
  \/ \E a \in Admins : AdminStep(a)

Spec == Init /\ [][Next]_vars

-----------------------------------------------------------------------------
(* A business that has an active owner or manager keeps one                *)
(* (businesses/api/views_ops.py:54, "Business must keep at least one       *)
(* active OWNER or MANAGER membership").                                   *)
CriticalStays == [][Critical # {} => Critical' # {}]_vars
=============================================================================
