-------------------------------- MODULE Scopes --------------------------------
(***************************************************************************)
(* What a role may do (db/src/models/scopes.rs).  A user's roles are       *)
(* global (users.role) or within an organization (organization_users.role) *)
(* and both are turned into scopes by get_scopes at each request.          *)
(***************************************************************************)

UserScopes == {"event:interest", "order:read-own", "ticket:transfer"}

DoorPersonScopes == {"redeem:ticket", "hold:read", "event:scan", "ticket:read"}

BoxOfficeScopes ==
    {"dashboard:read", "event:view-guests", "order:make-external-payment",
     "box-office-ticket:read"} \cup DoorPersonScopes

MemberScopes ==
    {"artist:write", "box-office-ticket:read", "box-office-ticket:write",
     "code:read", "code:write", "comp:read", "comp:write", "dashboard:read",
     "event:scan", "event:view-guests", "event:write", "hold:read", "hold:write",
     "order:read", "order:refund", "org:read", "org:fans", "redeem:ticket",
     "ticket:admin", "ticket:read", "venue:write"} \cup UserScopes

OrgAdminScopes ==
    {"org:write", "user:read", "org:users", "event:financial-reports",
     "event:reports", "org:reports"} \cup MemberScopes \cup BoxOfficeScopes

OwnerScopes == {"org:admin-users"} \cup OrgAdminScopes

AdminScopes == {"org:admin", "region:write", "org:financial-reports"} \cup OwnerScopes

\* The roles a person can have in an organization.
OrgRoles == {"OrgOwner", "OrgAdmin", "OrgMember", "DoorPerson", "OrgBoxOffice"}

RoleScopes ==
    [User |-> UserScopes, DoorPerson |-> DoorPersonScopes,
     OrgBoxOffice |-> BoxOfficeScopes, OrgMember |-> MemberScopes,
     OrgAdmin |-> OrgAdminScopes, OrgOwner |-> OwnerScopes, Admin |-> AdminScopes]

\* Display gives every scope a name of its own, by which scopes are compared.
ScopeNames ==
    {"artist:write", "box-office-ticket:read", "box-office-ticket:write", "code:read",
     "code:write", "comp:read", "comp:write", "dashboard:read", "event:write",
     "event:financial-reports", "event:interest", "event:reports", "event:scan",
     "event:view-guests", "hold:read", "hold:write", "order:read",
     "order:make-external-payment", "order:read-own", "order:refund", "org:admin",
     "org:read", "org:reports", "org:fans", "org:financial-reports", "org:write",
     "org:admin-users", "org:users", "redeem:ticket", "region:write", "user:read",
     "venue:write", "ticket:admin", "ticket:read", "ticket:transfer"}

\* Every scope can be had, and an administrator has them all.
ASSUME AdminHasAll == AdminScopes = ScopeNames

ScopesOf(roles) == UNION {RoleScopes[role] : role \in roles}
=============================================================================
