---------------------------- MODULE SchemaRegistry ----------------------------
(***************************************************************************)
(* The schema registries (src/src/native/apxdb_schema.c) and the           *)
(* collections that take their layout from them.  There are two kinds of   *)
(* schema: an apxdb_schema_t says how a collection's documents are         *)
(* validated, an apxdb_collection_schema_t how its rows are laid out.      *)
(*                                                                         *)
(* A layout is a heap block; it is named after the collection schema it    *)
(* was built from, and a collection's pointer to a block that was freed is *)
(* Freed.  The registries hold the pointers the client passed in.          *)
(***************************************************************************)
EXTENDS RowLayout

CONSTANTS
  Names,              \* collection names
  Schemas,            \* the apxdb_schema_t the client has
  NameOf,             \* NameOf[s]: collection_name of s
  NoSchema,           \* the collection is not registered
  CollectionSchemas,  \* the apxdb_collection_schema_t the client has
  SchemaId,           \* SchemaId[s]: collection_id
  SchemaName,         \* SchemaName[s]: name
  FieldsOf,           \* FieldsOf[s]: fields, none when field_count is 0
  NoLayout, Freed     \* a collection's layout pointer: NULL, dangling

ASSUME RegistryAssumption ==
  /\ NameOf \in [Schemas -> Names]
  /\ SchemaName \in [CollectionSchemas -> Names]
  /\ SchemaId \in [CollectionSchemas -> Nat]
  /\ FieldsOf \in [CollectionSchemas -> FieldSchemas]
  /\ NoSchema \notin Schemas
  /\ NoLayout # Freed
  /\ {NoLayout, Freed} \cap CollectionSchemas = {}

VARIABLES
  g_schema_registry,             \* apxdb_schema_t in order of registration
  g_collection_schema_registry,  \* apxdb_collection_schema_t, likewise
  g_collection_layout_registry,  \* the layouts, likewise
  schemaOf,                      \* schemaOf[n]: schema of the collection n
  layoutOf                       \* layoutOf[n]: its layout pointer

registries == <<g_schema_registry, g_collection_schema_registry, g_collection_layout_registry>>
registryVars == <<g_schema_registry, g_collection_schema_registry,
                  g_collection_layout_registry, schemaOf, layoutOf>>

NoCollections == [n \in Names |-> NoSchema]
NoPointers == [n \in Names |-> NoLayout]

RegistryInit ==
  /\ g_schema_registry = <<>>
  /\ g_collection_schema_registry = <<>>
  /\ g_collection_layout_registry = <<>>
  /\ schemaOf = NoCollections
  /\ layoutOf = NoPointers

-----------------------------------------------------------------------------
(***************************************************************************)
(* Lookups.  All of them take the first entry that fits.                   *)
(***************************************************************************)
\* apxdb_find_collection_layout_by_name
LayoutByName(n) ==
  LET places == {i \in DOMAIN g_collection_layout_registry :
                   SchemaName[g_collection_layout_registry[i]] = n}
  IN IF places = {} THEN NoLayout
     ELSE g_collection_layout_registry[CHOOSE i \in places : \A j \in places : i <= j]

\* is_valid_collection_schema, as far as the fields go.
IsValid(s) == FieldsOf[s] # <<>>

\* A schema of the same id or name is there: it is returned if it is s itself,
\* and s is refused if not.
Clashes(s) ==
  \E i \in DOMAIN g_collection_schema_registry :
    \/ SchemaId[g_collection_schema_registry[i]] = SchemaId[s]
    \/ SchemaName[g_collection_schema_registry[i]] = SchemaName[s]

\* apxdb_register_layout_for_schema: a layout of this id is taken as it is.
WithLayout(layouts, s) ==
  IF \E i \in DOMAIN layouts : SchemaId[layouts[i]] = SchemaId[s] THEN layouts
  ELSE Append(layouts, s)

-----------------------------------------------------------------------------
(***************************************************************************)
(* Calls.                                                                  *)
(***************************************************************************)
\* apxdb_schema_register: the first schema of a name stays.
SchemaRegister(s) ==
  /\ \A i \in DOMAIN g_schema_registry : NameOf[g_schema_registry[i]] # NameOf[s]
  /\ g_schema_registry' = Append(g_schema_registry, s)
  /\ UNCHANGED <<g_collection_schema_registry, g_collection_layout_registry, schemaOf, layoutOf>>

\* apxdb_schema_unregister_all
SchemaUnregisterAll ==
  /\ g_schema_registry' = <<>>
  /\ UNCHANGED <<g_collection_schema_registry, g_collection_layout_registry, schemaOf, layoutOf>>

\* Slip in Kept: the schema stays when its layout could not be built.
KeptAnyway(s, built) == Append(g_collection_schema_registry, s)

\* The schema is entered first, and taken back when there is no layout for it.
Kept(s, built) ==
  IF built THEN Append(g_collection_schema_registry, s) ELSE g_collection_schema_registry

\* apxdb_register_schema; built: the layout could be allocated.
RegisterSchema(s, built) ==
  /\ IsValid(s)
  /\ ~Clashes(s)
  /\ g_collection_schema_registry' = Kept(s, built)
  /\ g_collection_layout_registry' =
       IF built THEN WithLayout(g_collection_layout_registry, s) ELSE g_collection_layout_registry
  /\ UNCHANGED <<g_schema_registry, schemaOf, layoutOf>>

\* apxdb_register_collection: the layout is looked up once, here.
RegisterCollection(s) ==
  /\ schemaOf[NameOf[s]] = NoSchema
  /\ schemaOf' = [schemaOf EXCEPT ![NameOf[s]] = s]
  /\ layoutOf' = [layoutOf EXCEPT ![NameOf[s]] = LayoutByName(NameOf[s])]
  /\ UNCHANGED registries

\* apxdb_collection_unregister_all
UnregisterCollections ==
  /\ schemaOf' = NoCollections
  /\ layoutOf' = NoPointers
  /\ UNCHANGED registries

\* The pointers after every layout was freed.
Dangling(pointers) == [n \in Names |-> IF pointers[n] = NoLayout THEN NoLayout ELSE Freed]

\* apxdb_unregister_all_schemas, with apxdb_unregister_all_layouts.
UnregisterAllSchemas ==
  /\ g_collection_schema_registry' = <<>>
  /\ g_collection_layout_registry' = <<>>
  /\ layoutOf' = Dangling(layoutOf)
  /\ UNCHANGED <<g_schema_registry, schemaOf>>

\* Slip in PointersLeft: the layouts are freed first.
PointersLeftAll == layoutOf

\* The layout pointers that are there when close frees the layouts.
PointersLeft == NoPointers

\* transition_to_closed and cleanup_partial_open: collections, schemas, then
\* collection schemas and layouts.
CloseRegistries ==
  /\ schemaOf' = NoCollections
  /\ layoutOf' = Dangling(PointersLeft)
  /\ g_schema_registry' = <<>>
  /\ g_collection_schema_registry' = <<>>
  /\ g_collection_layout_registry' = <<>>

RegistryNext ==
  \/ \E s \in Schemas : SchemaRegister(s) \/ RegisterCollection(s)
  \/ \E s \in CollectionSchemas, built \in BOOLEAN : RegisterSchema(s, built)
  \/ SchemaUnregisterAll
  \/ UnregisterCollections
  \/ UnregisterAllSchemas
  \/ CloseRegistries

RegistrySpec == RegistryInit /\ [][RegistryNext]_registryVars

-----------------------------------------------------------------------------
\* Every registry has its type.
RegistryTypeOK ==
  /\ g_schema_registry \in Seq(Schemas)
  /\ g_collection_schema_registry \in Seq(CollectionSchemas)
  /\ g_collection_layout_registry \in Seq(CollectionSchemas)
  /\ schemaOf \in [Names -> Schemas \cup {NoSchema}]
  /\ layoutOf \in [Names -> CollectionSchemas \cup {NoLayout, Freed}]

\* No two entries of the registry agree in what the lookups go by.
NoTwins(registry, by) ==
  \A i, j \in DOMAIN registry : by[registry[i]] = by[registry[j]] => i = j

\* There is a layout for every collection schema, built from it and at the same
\* place, and ids and names are unique: looking a schema or its layout up by
\* name or by id finds the same, whatever was refused, given back or emptied.
RegistriesAgree ==
  /\ g_collection_layout_registry = g_collection_schema_registry
  /\ NoTwins(g_collection_schema_registry, SchemaId)
  /\ NoTwins(g_collection_schema_registry, SchemaName)
  /\ NoTwins(g_schema_registry, NameOf)

\* A collection's layout pointer dangles only after the client itself freed the
\* layouts under it; close frees the collections first and never leaves one.
LayoutsOutliveCollections ==
  [][\A n \in Names :
       layoutOf'[n] = Freed => layoutOf[n] = Freed \/ UnregisterAllSchemas]_registryVars

\* A layout pointer that is not dangling is to a block of the registry, and it
\* is the layout of the collection's own name.
PointersHeld ==
  \A n \in Names :
    layoutOf[n] \notin {NoLayout, Freed} =>
      /\ SchemaName[layoutOf[n]] = n
      /\ \E i \in DOMAIN g_collection_layout_registry :
           g_collection_layout_registry[i] = layoutOf[n]

\* The rows of every layout fit: no field shares a byte with another or with
\* the bitmap.
LayoutsFit ==
  \A i \in DOMAIN g_collection_layout_registry :
    LET fields == FieldsOf[g_collection_layout_registry[i]] IN RowFits(fields, BuildLayout(fields))
=============================================================================
