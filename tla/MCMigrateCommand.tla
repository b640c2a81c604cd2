--------------------------- MODULE MCMigrateCommand ---------------------------
EXTENDS MigrateCommand

Object(kind, schemaName, name) ==
  [kind |-> kind, schema |-> schemaName, name |-> name, args |-> ""]
Def(main) == [main |-> main, rest |-> 1, limits |-> 1]

\* Two tables, the later one referencing the earlier, and a view; the comment that a new
\* database has on schema public, and the role that the container is started with.
ShopCatalog  == <<Object("table", "public", "users"), Object("table", "public", "orders"),
                  Object("view", "public", "open"), Object("comment", "", "public"),
                  Object("role", "", "shrugged")>>
ShopNeeds    == <<{}, {1}, {2}, {}, {}>>
ShopParts    == <<{}, {}, {}, {}, {}>>
ShopVersions == <<{Def(1)}, {Def(1)}, {Def(1), Def(2)}, {Def(1)}, {Def(1)}>>
JustCreated  == <<Absent, Absent, Absent, Def(1), Def(1)>>

\* What the user keeps in the database of DATABASE_URL.
UserData == <<Def(1), Def(1), Absent, Absent, Def(1)>>

\* What the theorems suppose holds of the shop.
ASSUME ShopIsTidy ==
  Catalog = ShopCatalog => TidyCatalog /\ (FirstDirs = {TRUE} /\ ~KeepsDowns => TidyServer)

\* A schema next to public, and a table in it.
OutsideCatalog  == <<Object("namespace", "", "app"), Object("table", "app", "users")>>
OutsideNeeds    == <<{}, {1}>>
NoParts2        == <<{}, {}>>
OutsideVersions == <<{Def(1)}, {Def(1)}>>
NoSchema2       == <<Absent, Absent>>
===============================================================================
