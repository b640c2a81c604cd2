----------------------------- MODULE MCRoundTrip -----------------------------
EXTENDS RoundTrip

Object(kind, name, args) == [kind |-> kind, schema |-> "public", name |-> name, args |-> args]
Def(main) == [main |-> main, rest |-> 1, limits |-> 1]

\* A small shop: two tables, the later one by name referenced by the earlier.
ShopCatalog == <<Object("enum", "status", ""), Object("sequence", "id_seq", ""),
  Object("table", "orders", ""), Object("table", "users", ""), Object("index", "by_user", ""),
  Object("view", "open", ""), Object("role", "app", ""), Object("comment", "orders", "")>>
ShopNeeds  == <<{}, {}, {1, 4}, {2}, {3}, {3}, {}, {3}>>
ShopParts  == <<{}, {}, {}, {}, {3}, {}, {}, {3}>>
ShopVersions == [o \in 1..8 |-> IF o \in {1, 3, 6} THEN {Def(1), Def(2)} ELSE {Def(1)}]

\* What the theorems suppose holds of the shop, unless a table with its parts is dropped.
ASSUME ShopIsTidy == Catalog = ShopCatalog /\ Removable \cap Tables = {} => TidyCatalog /\ DownsAreAccepted

\* Two tables that reference each other, and one that references the first.
CycleCatalog == <<Object("table", "a", ""), Object("table", "b", ""), Object("table", "c", "")>>
CycleNeeds == <<{2}, {1}, {1}>>
NoParts3   == <<{}, {}, {}>>
OneVersion3 == [o \in 1..3 |-> {Def(1)}]

\* A table with its index, its trigger and the trigger's function.
TriggerCatalog == <<Object("table", "orders", ""), Object("function", "audit", ""),
                    Object("trigger", "on_insert", "orders")>>
TriggerNeeds == <<{}, {}, {1, 2}>>
TriggerParts == <<{}, {}, {1}>>

\* Two functions of one name with different arguments.
OverloadCatalog == <<Object("function", "total", "int"), Object("function", "total", "text")>>
NoParts2 == <<{}, {}>>
OneVersion2 == [o \in 1..2 |-> {Def(1)}]

\* A function and the right that PUBLIC has by default to execute it.
FunctionCatalog == <<Object("function", "total", ""), Object("grant", "total", "public")>>
FunctionNeeds   == <<{}, {1}>>

\* A view of one column or of two, and its table.
ViewCatalog  == <<Object("table", "orders", ""), Object("view", "open", "")>>
ViewNeeds    == <<{}, {1}>>
ViewVersions == <<{Def(2)}, {Def(1), [Def(2) EXCEPT !.rest = 2]}>>

\* A role with a connection limit.
RoleCatalog  == <<Object("role", "app", "")>>
NoParts1     == <<{}>>
RoleVersions == <<{[Def(1) EXCEPT !.limits = 2]}>>
===============================================================================
