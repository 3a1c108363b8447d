-------------------------------- MODULE Access --------------------------------
(***************************************************************************)
(* What each route asks of its caller, and what each role may do: the       *)
(* tables of the routers, of the seed and of the creation of a tenant, and  *)
(* of the documentation.  The router guards every operation by a permission *)
(* ("resource:action"), by a token alone ("token"), or not at all.          *)
(***************************************************************************)
EXTENDS FiniteSets, Sequences, TLC

LOCAL Each(ops, guard) == [op \in ops |-> guard]

------------------------------------------------------------------------------
(* The routers *)

AuthRoutes ==
    Each({"login", "signup", "logout", "forgotPassword", "resetPassword", "socialLogin"},
         "public") @@ Each({"validate"}, "token")

TenantRoutes ==
    Each({"getBySlug", "getFeatures"}, "public")
    @@ Each({"getAll", "create", "updateFeatures", "getById", "update", "delete"}, "token")

UserRoutes ==
    Each({"getAll", "getById"}, "users:read")
    @@ Each({"getSummaryStats", "getUsersStats"}, "stats:read")
    @@ Each({"update", "assignRole", "delete"}, "users:manage")

RoleRoutes ==
    Each({"getAll", "getById"}, "roles:read")
    @@ Each({"create", "update"}, "roles:write") @@ Each({"delete"}, "roles:delete")

PermissionRoutes ==
    Each({"getAll", "getById"}, "permissions:read")
    @@ Each({"create", "update"}, "permissions:write")
    @@ Each({"delete"}, "permissions:delete")

FeatureRoutes ==
    Each({"getAll"}, "features:read")
    @@ Each({"create", "update"}, "features:write") @@ Each({"delete"}, "features:delete")

LogRoutes == Each({"getAll", "getStats"}, "features:read")

CartRoutes ==
    Each({"getItems"}, "cart:read")
    @@ Each({"create", "addToCart", "removeFromCart", "clearCart"}, "cart:write")
    @@ Each({"getCartsStats"}, "stats:read")

OrderRoutes == Each({"getStatuses", "create", "getOne", "getByUser"}, "token")

OrderAdminRoutes ==
    Each({"getStats"}, "stats:read") @@ Each({"getAll"}, "orders:read")
    @@ Each({"changeStatus", "update"}, "orders:write") @@ Each({"getOneById"}, "token")

ProductRoutes ==
    Each({"getAll", "search", "getOne"}, "public")
    @@ Each({"getStats", "getSummaryStats"}, "stats:read")

ProductAdminRoutes ==
    Each({"create", "update"}, "products:write") @@ Each({"delete"}, "products:delete")

CategoryRoutes ==
    Each({"getAll", "getById"}, "public") @@ Each({"getStats"}, "stats:read")
    @@ Each({"create", "update"}, "categories:write")
    @@ Each({"delete"}, "categories:delete")

BannerRoutes ==
    Each({"getActive", "getById", "trackImpression", "trackClick"}, "public")
    @@ Each({"getAll"}, "banners:read") @@ Each({"getStats"}, "stats:read")

BannerAdminRoutes ==
    Each({"create", "update"}, "banners:write") @@ Each({"delete"}, "banners:delete")

CouponRoutes ==
    Each({"validate"}, "token") @@ Each({"getStats"}, "stats:read")
    @@ Each({"getAll", "getById", "getByCode"}, "coupons:read")

CouponAdminRoutes ==
    Each({"create", "update"}, "coupons:write") @@ Each({"delete"}, "coupons:delete")

SlideRoutes ==
    Each({"getAll", "getById"}, "public") @@ Each({"getStats"}, "stats:read")
    @@ Each({"create", "update"}, "slides:write") @@ Each({"delete"}, "slides:delete")

ServiceRoutes ==
    Each({"getAll"}, "public") @@ Each({"create", "update", "delete"}, "services:write")

StaffRoutes == Each({"getMe", "getAll"}, "token")

StaffAdminRoutes ==
    Each({"create", "assignService", "syncServices", "update", "delete"}, "staff:write")

AppointmentRoutes ==
    Each({"getAvailability"}, "public") @@ Each({"create", "getAll"}, "token")

AppointmentChangeRoutes ==
    Each({"getById", "cancel", "updateStatus", "delete"}, "token")

WhatsAppRoutes ==
    Each({"getConfig", "updateConfig", "sendTemplate", "verify", "handleWebhook"}, "public")

Routes ==
    [auth |-> AuthRoutes, tenants |-> TenantRoutes, users |-> UserRoutes,
     roles |-> RoleRoutes, permissions |-> PermissionRoutes,
     features |-> FeatureRoutes, logs |-> LogRoutes, cart |-> CartRoutes,
     orders |-> OrderRoutes @@ OrderAdminRoutes,
     products |-> ProductRoutes @@ ProductAdminRoutes,
     categories |-> CategoryRoutes, banners |-> BannerRoutes @@ BannerAdminRoutes,
     coupons |-> CouponRoutes @@ CouponAdminRoutes, slides |-> SlideRoutes,
     services |-> ServiceRoutes, staff |-> StaffRoutes @@ StaffAdminRoutes,
     appointments |-> AppointmentRoutes @@ AppointmentChangeRoutes,
     whatsapp |-> WhatsAppRoutes]

Operations == UNION {{res} \X DOMAIN Routes[res] : res \in DOMAIN Routes}

\* requirePermission, for a caller whose role is not SUPER_ADMIN.
MayCall(perms, o) ==
    LET guard == Routes[o[1]][o[2]] IN guard \in {"public", "token"} \cup perms

------------------------------------------------------------------------------
(* The seed *)

Crud(resources, actions) ==
    {r \o ":" \o a : r \in resources, a \in actions}

\* PERMISSIONS
SeededPermissions ==
    Crud({"users", "products", "orders", "categories", "roles", "permissions", "banners",
          "coupons", "features", "services", "staff", "appointments"}, {"read", "write"})
    \cup Crud({"users", "products", "categories", "roles", "permissions", "banners",
               "coupons", "features", "services", "staff", "appointments"}, {"delete"})
    \cup {"users:manage", "orders:manage", "stats:read", "slides:write", "cart:read",
          "cart:write"}

\* ROLES.  SUPER_ADMIN is created without permissions.
SeededRoles ==
    [USER |-> {"products:read", "orders:read", "orders:write", "cart:read", "cart:write",
               "categories:read"},
     MANAGER |-> {"products:read", "products:write", "orders:read", "orders:manage",
                  "stats:read", "users:read", "cart:read", "services:read", "staff:read",
                  "appointments:read", "appointments:write"}
                 \cup Crud({"categories"}, {"read", "write", "delete"}),
     ADMIN |-> {"users:manage", "orders:manage", "stats:read", "slides:write",
                "cart:read", "cart:write"}
               \cup Crud({"products", "categories", "roles", "permissions", "banners",
                          "coupons", "features", "services", "staff", "appointments"},
                         {"read", "write", "delete"}),
     SUPER_ADMIN |-> {}]

------------------------------------------------------------------------------
(* A new tenant *)

DefaultPermissionsWithoutStatistics ==   \* variant: one name left out of the list
    {"users:read", "users:manage", "orders:read", "orders:manage"}
    \cup Crud({"products", "categories", "roles", "permissions", "services", "staff",
               "appointments", "banners", "coupons"}, {"read", "write", "delete"})

DefaultPermissions ==
    {"users:read", "users:manage", "orders:read", "orders:manage", "stats:read"}
    \cup Crud({"products", "categories", "roles", "permissions", "services", "staff",
               "appointments", "banners", "coupons"}, {"read", "write", "delete"})

\* The names of a role that are among the default permissions.
DefaultRoles ==
    [ADMIN |-> DefaultPermissions,
     STAFF |-> {"users:read", "products:read", "products:write", "orders:read",
                "orders:manage", "categories:read", "services:read", "services:write",
                "staff:read", "appointments:read", "appointments:write"}
               \cap DefaultPermissions,
     USER |-> {"products:read", "orders:read", "appointments:read", "appointments:write"}
              \cap DefaultPermissions]

\* The order the roles are created in.
RoleOrder == <<"ADMIN", "STAFF", "USER">>

------------------------------------------------------------------------------
(* The documentation: docs/API_PERMISSIONS.md *)

\* "Roles with access", and the permission matrix, for the permissions that
\* some route asks for.
DocumentedAccess ==
    [USER |-> {"orders:read", "orders:write"},
     MANAGER |-> {"users:read", "stats:read", "products:write", "orders:read",
                  "orders:write"},
     ADMIN |-> {"users:read", "users:manage", "stats:read", "products:write",
                "products:delete", "orders:read", "orders:write", "slides:write"}]
==============================================================================
