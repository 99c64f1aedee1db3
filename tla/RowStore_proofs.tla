---------------------------- MODULE RowStore_proofs ----------------------------
(***************************************************************************)
(* Proofs about the documents of a collection as rows, for all schemas,    *)
(* texts, paths, queries and orders of calls, from the layout up:          *)
(*                                                                         *)
(*   RowLayout       every row layout fits;                                *)
(*   SchemaRegistry  the registries agree, and a collection's layout       *)
(*                   dangles only after the client freed the layouts;      *)
(*   RowFormat       in a row that was written, the layout gives what the  *)
(*                   entries of the header give, and every field gives     *)
(*                   back what its writer left;                            *)
(*   RowStore        the documents and the file hold what a writer left,   *)
(*                   and give it back; the columns of the GPU are fresh,   *)
(*                   and the GPU changes no answer.                        *)
(*                                                                         *)
(* The loops over the fields are recursive functions, so those parts go by *)
(* induction over the fields.                                              *)
(***************************************************************************)
EXTENDS RowStore, Iteration_proofs, FiniteSetTheorems, SequenceTheorems

-----------------------------------------------------------------------------
(* Offsets *)

\* g is the running sum of s from b on, up to n.
Sums(b, s, n, g) == g = [i \in 0..n |-> IF i = 0 THEN b ELSE g[i - 1] + s[i]]

\* There is such a sum for every n.
LEMMA SumsExist ==
  ASSUME NEW b, NEW s, NEW n \in Nat
  PROVE  \E g : Sums(b, s, n, g)
  <1> DEFINE S == {k \in Nat : \E g : Sums(b, s, k, g)}
  <1>1. 0 \in S
    <2>1. Sums(b, s, 0, [i \in 0..0 |-> b])
      BY DEF Sums
    <2> QED
      BY <2>1
  <1>2. ASSUME NEW k \in Nat, k \in S PROVE k + 1 \in S
    <2>1. PICK g : Sums(b, s, k, g)
      BY <1>2
    <2> DEFINE h == [i \in 0..(k + 1) |-> IF i = k + 1 THEN g[k] + s[k + 1] ELSE g[i]]
    <2>2. ASSUME NEW i \in 0..(k + 1) PROVE h[i] = IF i = 0 THEN b ELSE h[i - 1] + s[i]
      <3>1. CASE i = k + 1
        BY <3>1
      <3>2. CASE i # k + 1
        <4>1. i \in 0..k /\ h[i] = g[i]
          BY <3>2
        <4>2. g[i] = IF i = 0 THEN b ELSE g[i - 1] + s[i]
          BY <2>1, <4>1 DEF Sums
        <4>3. i # 0 => i - 1 \in 0..(k + 1) /\ i - 1 # k + 1 /\ h[i - 1] = g[i - 1]
          BY <4>1
        <4> QED
          BY <4>1, <4>2, <4>3
      <3> QED
        BY <3>1, <3>2
    <2>3. Sums(b, s, k + 1, h)
      <3> HIDE DEF h
      <3>1. h = [i \in 0..(k + 1) |-> h[i]]
        BY DEF h
      <3> QED
        BY <2>2, <3>1 DEF Sums
    <2> QED
      BY <2>3
  <1>3. Nat \subseteq S
    <2> HIDE DEF S
    <2> QED
    BY <1>1, <1>2, Induction
  <1> QED
    BY <1>3

\* So Offsets is what its definition says: the second loop of
\* apxdb_build_collection_layout adds up the storage of the fields.
LEMMA OffsetsDef ==
  ASSUME NEW fields \in FieldSchemas, NEW i \in 0..Len(fields)
  PROVE  Offsets(fields)[i] = IF i = 0 THEN BitmapSize(fields) 
                              ELSE Offsets(fields)[i - 1] + StorageSize(fields[i])
  <1> DEFINE n == Len(fields)
             s == [k \in 1..n |-> StorageSize(fields[k])]
             b == BitmapSize(fields)
  <1>1. n \in Nat
    BY DEF FieldSchemas
  <1>2. PICK g : Sums(b, s, n, g)
    BY <1>1, SumsExist
  <1>3. \A k \in 0..n : g[k] = IF k = 0 THEN BitmapSize(fields)
                                    ELSE g[k - 1] + StorageSize(fields[k])
    <2> SUFFICES ASSUME NEW k \in 0..n
                 PROVE  g[k] = IF k = 0 THEN BitmapSize(fields)
                               ELSE g[k - 1] + StorageSize(fields[k])
      OBVIOUS
    <2>1. g[k] = IF k = 0 THEN b ELSE g[k - 1] + s[k]
      <3> HIDE DEF b, s, n
      <3> QED
        BY <1>2 DEF Sums
    <2>2. k # 0 => s[k] = StorageSize(fields[k])
      BY <1>1
    <2> QED
      BY <2>1, <2>2
  <1>4. g = [k \in 0..n |-> IF k = 0 THEN BitmapSize(fields)
                            ELSE g[k - 1] + StorageSize(fields[k])]
    <2>1. g = [k \in 0..n |-> g[k]]
      <3> HIDE DEF b, s, n
      <3> QED
        BY <1>2 DEF Sums
    <2> QED
      BY <1>3, <2>1
  <1>5. Offsets(fields) = CHOOSE h : h = [k \in 0..Len(fields) |->
                            IF k = 0 THEN BitmapSize(fields) ELSE h[k - 1] + StorageSize(fields[k])]
    BY DEF Offsets
  <1> QED
    BY <1>1, <1>4, <1>5

\* The storage of a field and the bitmap are natural numbers, and the bitmap has
\* a bit for every nullable field.
LEMMA SizesAreNat ==
  ASSUME NEW fields \in FieldSchemas
  PROVE  /\ Len(fields) \in Nat
         /\ DOMAIN fields = 1..Len(fields)
         /\ \A i \in DOMAIN fields : StorageSize(fields[i]) \in Nat
         /\ BitmapSize(fields) \in Nat
         /\ Cardinality({i \in DOMAIN fields : fields[i].nullable}) <= 8 * BitmapSize(fields)
  <1>1. Len(fields) \in Nat /\ DOMAIN fields = 1..Len(fields)
    BY DEF FieldSchemas
  <1>2. ASSUME NEW i \in DOMAIN fields PROVE StorageSize(fields[i]) \in Nat
    <2>1. fields[i] \in [size: Nat, variable: BOOLEAN, nullable: BOOLEAN]
      BY <1>1, ElementOfSeq DEF FieldSchemas
    <2>2. fields[i].size \in Nat
      BY <2>1
    <2> QED
      BY <2>2 DEF StorageSize, SlotSize
  <1> DEFINE N == {i \in DOMAIN fields : fields[i].nullable}
  <1>3. IsFiniteSet(N)
    <2>1. N \in SUBSET (1..Len(fields)) /\ IsFiniteSet(1..Len(fields))
      BY <1>1, FS_Interval
    <2> QED
      BY <2>1, FS_Subset
  <1>4. Cardinality(N) \in Nat
    BY <1>3, FS_CardinalityType
  <1>5. BitmapSize(fields) = (Cardinality(N) + 7) \div 8
    BY DEF BitmapSize
  <1> HIDE DEF N
  <1>6. BitmapSize(fields) \in Nat /\ Cardinality(N) <= 8 * BitmapSize(fields)
    BY <1>4, <1>5
  <1> QED
    BY <1>1, <1>2, <1>6 DEF N

\* Offsets never fall from field to field.
LEMMA OffsetsRise ==
  ASSUME NEW fields \in FieldSchemas
  PROVE  \A j \in 0..Len(fields) : 
           /\ Offsets(fields)[j] \in Nat
           /\ \A i \in 0..j : Offsets(fields)[i] <= Offsets(fields)[j]
  <1> DEFINE n == Len(fields)
             o == Offsets(fields)
             S == {k \in Nat : k <= n => /\ \A i \in 0..k : o[i] \in Nat
                                         /\ \A i \in 0..k : o[i] <= o[k]}
  <1>1. n \in Nat /\ o[0] = BitmapSize(fields) /\ BitmapSize(fields) \in Nat
    <2>1. n \in Nat /\ BitmapSize(fields) \in Nat
      BY SizesAreNat
    <2>2. 0 \in 0..n
      BY <2>1
    <2> QED
      BY <2>1, <2>2, OffsetsDef
  <1>2. 0 \in S
    BY <1>1
  <1>3. ASSUME NEW k \in Nat, k \in S PROVE k + 1 \in S
    <2> SUFFICES ASSUME k + 1 <= n
                 PROVE  /\ \A i \in 0..(k + 1) : o[i] \in Nat
                        /\ \A i \in 0..(k + 1) : o[i] <= o[k + 1]
      OBVIOUS
    <2>1. k + 1 \in 0..n /\ k + 1 \in DOMAIN fields
      BY <1>1, SizesAreNat
    <2>2. o[k + 1] = o[k] + StorageSize(fields[k + 1]) /\ StorageSize(fields[k + 1]) \in Nat
      <3>1. o[k + 1] = IF k + 1 = 0 THEN BitmapSize(fields)
                       ELSE o[(k + 1) - 1] + StorageSize(fields[k + 1])
        BY <2>1, OffsetsDef
      <3>2. k + 1 # 0 /\ (k + 1) - 1 = k
        OBVIOUS
      <3> HIDE DEF o
      <3>3. o[k + 1] = o[k] + StorageSize(fields[k + 1])
        BY <3>1, <3>2
      <3> QED
        BY <3>3, <2>1, SizesAreNat
    <2>3. \A i \in 0..k : o[i] \in Nat /\ o[i] <= o[k]
      BY <1>1, <1>3
    <2> HIDE DEF o
    <2>4. o[k] \in Nat /\ o[k + 1] \in Nat /\ o[k] <= o[k + 1]
      BY <2>2, <2>3
    <2>5. \A i \in 0..(k + 1) : i = k + 1 \/ i \in 0..k
      OBVIOUS
    <2> QED
      BY <2>3, <2>4, <2>5
  <1>4. Nat \subseteq S
    <2> HIDE DEF S
    <2> QED
      BY <1>2, <1>3, Induction
  <1> QED
    BY <1>1, <1>4

\* In the row of any sequence of fields no field shares a byte with another or
\* with the bitmap, none reaches past the fixed part, and every nullable field
\* has a bit.
THEOREM EveryRowFits ==
  ASSUME NEW fields \in FieldSchemas
  PROVE  RowFits(fields, BuildLayout(fields))
  <1> DEFINE l == BuildLayout(fields)
             o == Offsets(fields)
             n == Len(fields)
  <1>1. n \in Nat /\ DOMAIN fields = 1..n
    BY SizesAreNat
  <1>2. l.bitmap = BitmapSize(fields) /\ l.rowFixed = o[n]
    BY DEF BuildLayout
  <1>3. \A i \in 1..n : l.offset[i] = o[i - 1] /\ l.size[i] = StorageSize(fields[i])
    BY <1>1 DEF BuildLayout
  <1>4. \A i \in 0..n : o[i] \in Nat /\ \A j \in 0..i : o[j] <= o[i]
    BY OffsetsRise
  <1>5. o[0] = BitmapSize(fields) /\ \A i \in 1..n : o[i] = o[i - 1] + StorageSize(fields[i])
    <2>1. o[0] = BitmapSize(fields)
      BY <1>1, OffsetsDef
    <2>2. ASSUME NEW i \in 1..n PROVE o[i] = o[i - 1] + StorageSize(fields[i])
      <3>1. i \in 0..n /\ i # 0
        BY <1>1
      <3> QED
        BY <3>1, OffsetsDef
    <2> QED
      BY <2>1, <2>2
  <1> HIDE DEF l, o, n
  <1>6. ASSUME NEW i \in 1..n
        PROVE  /\ l.bitmap <= l.offset[i]
               /\ l.offset[i] + l.size[i] <= l.rowFixed
               /\ \A j \in 1..n : i < j => l.offset[i] + l.size[i] <= l.offset[j]
    <2>1. i - 1 \in 0..n /\ 0 \in 0..(i - 1) /\ i \in 0..n /\ n \in 0..n
      BY <1>1
    <2>2. l.bitmap <= l.offset[i]
      BY <1>2, <1>3, <1>4, <1>5, <2>1
    <2>3. l.offset[i] + l.size[i] = o[i]
      BY <1>3, <1>5
    <2>4. o[i] <= l.rowFixed
      BY <1>2, <1>4, <2>1
    <2>5. ASSUME NEW j \in 1..n, i < j PROVE o[i] <= l.offset[j]
      <3>1. j - 1 \in 0..n /\ i \in 0..(j - 1)
        BY <1>1, <2>5
      <3> QED
        BY <1>3, <1>4, <3>1
    <2> QED
      BY <2>2, <2>3, <2>4, <2>5
  <1> QED
    BY <1>1, <1>2, <1>6, SizesAreNat DEF RowFits, l, n


-----------------------------------------------------------------------------
(* Lookups *)

\* A collection schema's name, id and fields have their types.
LEMMA SchemasTyped ==
  ASSUME NEW s \in CollectionSchemas
  PROVE  /\ SchemaName[s] \in Names
         /\ SchemaId[s] \in Nat
         /\ FieldsOf[s] \in FieldSchemas
  BY RegistryAssumption

\* A lookup gives NULL or the layout of a schema of that name in the registry.
LEMMA LayoutByNameFinds ==
  ASSUME g_collection_layout_registry \in Seq(CollectionSchemas), NEW n \in Names
  PROVE  \/ LayoutByName(n) = NoLayout
         \/ \E i \in DOMAIN g_collection_layout_registry :
              /\ LayoutByName(n) = g_collection_layout_registry[i]
              /\ LayoutByName(n) \in CollectionSchemas
              /\ SchemaName[LayoutByName(n)] = n
  <1> DEFINE places == {i \in DOMAIN g_collection_layout_registry :
                          SchemaName[g_collection_layout_registry[i]] = n}
  <1>1. CASE places = {}
    BY <1>1 DEF LayoutByName
  <1>2. CASE places # {}
    <2>1. places \subseteq Nat
      BY LenProperties
    <2> DEFINE first == CHOOSE i \in places : \A j \in places : i <= j
    <2>2. \E i \in places : \A j \in places : i <= j
      <3> HIDE DEF places
      <3> QED
        BY <1>2, <2>1, LeastOf
    <2>3. first \in places
      <3> HIDE DEF places
      <3> QED
        BY <2>2
    <2>4. LayoutByName(n) = g_collection_layout_registry[first]
      BY <1>2 DEF LayoutByName
    <2>5. /\ first \in DOMAIN g_collection_layout_registry
          /\ SchemaName[g_collection_layout_registry[first]] = n
      BY <2>3
    <2>6. g_collection_layout_registry[first] \in CollectionSchemas
      BY <2>5, ElementOfSeq, LenProperties
    <2> HIDE DEF first
    <2> QED
      BY <2>4, <2>5, <2>6
  <1> QED
    BY <1>1, <1>2

-----------------------------------------------------------------------------
(* Types *)

\* One step keeps the types of the registries and of the layout pointers.
LEMMA RegistryTypeStep ==
  ASSUME RegistryTypeOK, [RegistryNext]_registryVars
  PROVE  RegistryTypeOK'
  <1> USE DEF RegistryTypeOK
  <1>1. ASSUME NEW s \in Schemas, SchemaRegister(s) PROVE RegistryTypeOK'
    BY <1>1, AppendProperties DEF SchemaRegister
  <1>2. ASSUME NEW s \in Schemas, RegisterCollection(s) PROVE RegistryTypeOK'
    <2>1. NameOf[s] \in Names
      BY RegistryAssumption
    <2>2. LayoutByName(NameOf[s]) \in CollectionSchemas \cup {NoLayout}
      BY <2>1, LayoutByNameFinds
    <2> QED
      BY <1>2, <2>1, <2>2 DEF RegisterCollection, registries
  <1>3. ASSUME NEW s \in CollectionSchemas, NEW built \in BOOLEAN, RegisterSchema(s, built)
        PROVE  RegistryTypeOK'
    <2>1. g_collection_schema_registry' \in Seq(CollectionSchemas)
      BY <1>3, AppendProperties DEF RegisterSchema, Kept
    <2>2. g_collection_layout_registry' \in Seq(CollectionSchemas)
      BY <1>3, AppendProperties DEF RegisterSchema, WithLayout
    <2> QED
      BY <1>3, <2>1, <2>2 DEF RegisterSchema
  <1>4. CASE SchemaUnregisterAll
    BY <1>4, EmptySeq DEF SchemaUnregisterAll
  <1>5. CASE UnregisterCollections
    BY <1>5 DEF UnregisterCollections, NoCollections, NoPointers, registries
  <1>6. CASE UnregisterAllSchemas
    BY <1>6, EmptySeq DEF UnregisterAllSchemas, Dangling
  <1>7. CASE CloseRegistries
    BY <1>7, EmptySeq DEF CloseRegistries, Dangling, PointersLeft, NoCollections, NoPointers
  <1>8. CASE UNCHANGED registryVars
    BY <1>8 DEF registryVars
  <1> QED
    BY <1>1, <1>2, <1>3, <1>4, <1>5, <1>6, <1>7, <1>8 DEF RegistryNext

\* Every registry has its type in every reachable state.
THEOREM RegistryTypeCorrect == RegistrySpec => []RegistryTypeOK
  <1>1. RegistryInit => RegistryTypeOK
    BY EmptySeq DEF RegistryInit, RegistryTypeOK, NoCollections, NoPointers
  <1>2. RegistryTypeOK /\ [RegistryNext]_registryVars => RegistryTypeOK'
    BY RegistryTypeStep
  <1> QED
    BY <1>1, <1>2, PTL DEF RegistrySpec

-----------------------------------------------------------------------------
(* Agreement *)

\* An entry that agrees with none before it makes no twins.
LEMMA AppendNoTwins ==
  ASSUME NEW S, NEW registry \in Seq(S), NEW x \in S, NEW by,
         NoTwins(registry, by),
         \A i \in DOMAIN registry : by[registry[i]] # by[x]
  PROVE  NoTwins(Append(registry, x), by)
  <1> DEFINE longer == Append(registry, x)
  <1>1. /\ Len(registry) \in Nat
        /\ DOMAIN registry = 1..Len(registry)
        /\ DOMAIN longer = 1..(Len(registry) + 1)
        /\ longer[Len(registry) + 1] = x
        /\ \A i \in 1..Len(registry) : longer[i] = registry[i]
    BY AppendProperties, LenProperties
  <1> HIDE DEF longer
  <1>2. ASSUME NEW i \in DOMAIN longer, NEW j \in DOMAIN longer, by[longer[i]] = by[longer[j]]
        PROVE  i = j
    <2>1. CASE i \in 1..Len(registry) /\ j \in 1..Len(registry)
      BY <1>1, <1>2, <2>1 DEF NoTwins
    <2>2. CASE i \in 1..Len(registry) /\ j = Len(registry) + 1
      BY <1>1, <1>2, <2>2
    <2>3. CASE i = Len(registry) + 1 /\ j \in 1..Len(registry)
      BY <1>1, <1>2, <2>3
    <2>4. CASE i = Len(registry) + 1 /\ j = Len(registry) + 1
      BY <2>4
    <2> QED
      BY <1>1, <2>1, <2>2, <2>3, <2>4
  <1> QED
    BY <1>2 DEF NoTwins, longer

\* One step keeps the registries in agreement: a schema that is entered clashes
\* with none, so its layout is built anew, and they are emptied together.
LEMMA AgreementStep ==
  ASSUME RegistryTypeOK, RegistriesAgree, [RegistryNext]_registryVars
  PROVE  RegistriesAgree'
  <1> USE DEF RegistriesAgree
  <1>1. ASSUME NEW s \in Schemas, SchemaRegister(s) PROVE RegistriesAgree'
    <2>1. NoTwins(g_schema_registry', NameOf)
      BY <1>1, AppendNoTwins DEF SchemaRegister, RegistryTypeOK
    <2> QED
      BY <1>1, <2>1 DEF SchemaRegister
  <1>2. ASSUME NEW s \in Schemas, RegisterCollection(s) PROVE RegistriesAgree'
    BY <1>2 DEF RegisterCollection, registries
  <1>3. ASSUME NEW s \in CollectionSchemas, NEW built \in BOOLEAN, RegisterSchema(s, built)
        PROVE  RegistriesAgree'
    <2>1. \A i \in DOMAIN g_collection_schema_registry :
            /\ SchemaId[g_collection_schema_registry[i]] # SchemaId[s]
            /\ SchemaName[g_collection_schema_registry[i]] # SchemaName[s]
      BY <1>3 DEF RegisterSchema, Clashes
    <2>2. CASE built
      <3>1. WithLayout(g_collection_layout_registry, s) = Append(g_collection_schema_registry, s)
        BY <2>1 DEF WithLayout
      <3>2. /\ NoTwins(Append(g_collection_schema_registry, s), SchemaId)
            /\ NoTwins(Append(g_collection_schema_registry, s), SchemaName)
        BY <2>1, AppendNoTwins DEF RegistryTypeOK
      <3> QED
        BY <1>3, <2>2, <3>1, <3>2 DEF RegisterSchema, Kept
    <2>3. CASE ~built
      BY <1>3, <2>3 DEF RegisterSchema, Kept
    <2> QED
      BY <2>2, <2>3
  <1>4. CASE SchemaUnregisterAll
    BY <1>4 DEF SchemaUnregisterAll, NoTwins
  <1>5. CASE UnregisterCollections
    BY <1>5 DEF UnregisterCollections, registries
  <1>6. CASE UnregisterAllSchemas
    BY <1>6 DEF UnregisterAllSchemas, NoTwins
  <1>7. CASE CloseRegistries
    BY <1>7 DEF CloseRegistries, NoTwins
  <1>8. CASE UNCHANGED registryVars
    BY <1>8 DEF registryVars
  <1> QED
    BY <1>1, <1>2, <1>3, <1>4, <1>5, <1>6, <1>7, <1>8 DEF RegistryNext

\* There is a layout for every collection schema and no other, and no two
\* schemas share a name or an id, after any sequence of registrations, refused
\* or failed ones included.
THEOREM RegistriesAlwaysAgree == RegistrySpec => []RegistriesAgree
  <1>1. RegistryInit => RegistriesAgree
    BY DEF RegistryInit, RegistriesAgree, NoTwins
  <1>2. RegistryTypeOK /\ RegistriesAgree /\ [RegistryNext]_registryVars => RegistriesAgree'
    BY AgreementStep
  <1> QED
    BY <1>1, <1>2, RegistryTypeCorrect, PTL DEF RegistrySpec

\* In no layout that is ever registered do two fields overlap.
THEOREM LayoutsAlwaysFit == RegistrySpec => []LayoutsFit
  <1>1. RegistryTypeOK => LayoutsFit
    <2> SUFFICES ASSUME RegistryTypeOK, NEW i \in DOMAIN g_collection_layout_registry
                 PROVE  LET fields == FieldsOf[g_collection_layout_registry[i]]
                        IN  RowFits(fields, BuildLayout(fields))
      BY DEF LayoutsFit
    <2>1. g_collection_layout_registry[i] \in CollectionSchemas
      BY ElementOfSeq, LenProperties DEF RegistryTypeOK
    <2> QED
      BY <2>1, SchemasTyped, EveryRowFits
  <1> QED
    BY <1>1, RegistryTypeCorrect, PTL

-----------------------------------------------------------------------------
(* Layout pointers *)

\* One step keeps the pointers to blocks of the registry.
LEMMA PointersStep ==
  ASSUME RegistryTypeOK, PointersHeld, [RegistryNext]_registryVars
  PROVE  PointersHeld'
  <1> USE DEF PointersHeld
  <1>1. ASSUME NEW s \in Schemas, SchemaRegister(s) PROVE PointersHeld'
    BY <1>1 DEF SchemaRegister
  <1>2. ASSUME NEW s \in Schemas, RegisterCollection(s) PROVE PointersHeld'
    <2>1. NameOf[s] \in Names
      BY RegistryAssumption
    <2>2. \/ LayoutByName(NameOf[s]) = NoLayout
          \/ /\ SchemaName[LayoutByName(NameOf[s])] = NameOf[s]
             /\ \E i \in DOMAIN g_collection_layout_registry :
                  g_collection_layout_registry[i] = LayoutByName(NameOf[s])
      BY <2>1, LayoutByNameFinds DEF RegistryTypeOK
    <2>3. /\ g_collection_layout_registry' = g_collection_layout_registry
          /\ \A n \in Names : layoutOf'[n] = IF n = NameOf[s] THEN LayoutByName(n) ELSE layoutOf[n]
      BY <1>2 DEF RegisterCollection, registries, RegistryTypeOK
    <2> QED
      BY <2>2, <2>3
  <1>3. ASSUME NEW s \in CollectionSchemas, NEW built \in BOOLEAN, RegisterSchema(s, built)
        PROVE  PointersHeld'
    <2>1. \A i \in DOMAIN g_collection_layout_registry :
            /\ i \in DOMAIN g_collection_layout_registry'
            /\ g_collection_layout_registry'[i] = g_collection_layout_registry[i]
      BY <1>3, AppendProperties, LenProperties DEF RegisterSchema, WithLayout, RegistryTypeOK
    <2>2. layoutOf' = layoutOf
      BY <1>3 DEF RegisterSchema
    <2> QED
      BY <2>1, <2>2
  <1>4. CASE SchemaUnregisterAll
    BY <1>4 DEF SchemaUnregisterAll
  <1>5. CASE UnregisterCollections
    BY <1>5 DEF UnregisterCollections, NoPointers
  <1>6. CASE UnregisterAllSchemas
    BY <1>6 DEF UnregisterAllSchemas, Dangling
  <1>7. CASE CloseRegistries
    BY <1>7 DEF CloseRegistries, Dangling, PointersLeft, NoPointers
  <1>8. CASE UNCHANGED registryVars
    BY <1>8 DEF registryVars
  <1> QED
    BY <1>1, <1>2, <1>3, <1>4, <1>5, <1>6, <1>7, <1>8 DEF RegistryNext

\* A layout pointer that does not dangle leads to a registered layout of the
\* collection's own name.
THEOREM PointersAlwaysHeld == RegistrySpec => []PointersHeld
  <1>1. RegistryInit => PointersHeld
    BY DEF RegistryInit, PointersHeld, NoPointers
  <1>2. RegistryTypeOK /\ PointersHeld /\ [RegistryNext]_registryVars => PointersHeld'
    BY PointersStep
  <1> QED
    BY <1>1, <1>2, RegistryTypeCorrect, PTL DEF RegistrySpec

\* Only apxdb_unregister_all_schemas makes a layout pointer dangle: close takes
\* the collections away before it frees the layouts.
THEOREM LayoutsAlwaysOutlive == RegistrySpec => LayoutsOutliveCollections
  <1> DEFINE Outlives == \A n \in Names :
               layoutOf'[n] = Freed => layoutOf[n] = Freed \/ UnregisterAllSchemas
  <1>1. ASSUME RegistryTypeOK, [RegistryNext]_registryVars PROVE Outlives
    <2> SUFFICES ASSUME NEW n \in Names, layoutOf'[n] = Freed, layoutOf[n] # Freed
                 PROVE  UnregisterAllSchemas
      OBVIOUS
    <2>1. ASSUME NEW s \in Schemas, RegisterCollection(s) PROVE FALSE
      <3>1. NameOf[s] \in Names
        BY RegistryAssumption
      <3>2. LayoutByName(NameOf[s]) # Freed
        BY <1>1, <3>1, LayoutByNameFinds, RegistryAssumption DEF RegistryTypeOK
      <3> QED
        BY <1>1, <2>1, <3>1, <3>2 DEF RegisterCollection, RegistryTypeOK
    <2>2. ASSUME NEW s \in Schemas, SchemaRegister(s) PROVE FALSE
      BY <2>2 DEF SchemaRegister
    <2>3. ASSUME NEW s \in CollectionSchemas, NEW built \in BOOLEAN, RegisterSchema(s, built)
          PROVE  FALSE
      BY <2>3 DEF RegisterSchema
    <2>4. SchemaUnregisterAll => FALSE
      BY DEF SchemaUnregisterAll
    <2>5. UnregisterCollections => FALSE
      BY RegistryAssumption DEF UnregisterCollections, NoPointers
    <2>6. CloseRegistries => FALSE
      BY RegistryAssumption DEF CloseRegistries, Dangling, PointersLeft, NoPointers
    <2>7. UNCHANGED registryVars => FALSE
      BY DEF registryVars
    <2> QED
      BY <1>1, <2>1, <2>2, <2>3, <2>4, <2>5, <2>6, <2>7 DEF RegistryNext
  <1>2. RegistryTypeOK /\ [RegistryNext]_registryVars => [Outlives]_registryVars
    BY <1>1
  <1> QED
    BY <1>2, RegistryTypeCorrect, PTL DEF RegistrySpec, LayoutsOutliveCollections

-----------------------------------------------------------------------------
(* Cells *)

\* A sequence, of whatever it may be.
AnySeq(c) == Len(c) \in Nat /\ c = [k \in 1..Len(c) |-> c[k]]

LEMMA AnySeqIn ==
  ASSUME NEW c, AnySeq(c), NEW S, \A k \in 1..Len(c) : c[k] \in S
  PROVE  c \in Seq(S)
  <1>1. Len(c) \in Nat /\ c \in [1..Len(c) -> S]
    BY DEF AnySeq
  <1> QED
    BY <1>1, SeqDef

LEMMA SeqIsAny ==
  ASSUME NEW S, NEW c \in Seq(S)
  PROVE  AnySeq(c)
  BY LenProperties DEF AnySeq

\* A function over 1..n is a sequence of length n.
LEMMA FunctionIsSeq ==
  ASSUME NEW n \in Nat, NEW c, c = [k \in 1..n |-> c[k]]
  PROVE  AnySeq(c) /\ Len(c) = n
  <1> DEFINE S == {c[k] : k \in 1..n}
  <1>1. c \in [1..n -> S]
    OBVIOUS
  <1>2. c \in Seq(S)
    <2> HIDE DEF S
    <2> QED
      BY <1>1, SeqDef
  <1> HIDE DEF S
  <1>3. Len(c) \in Nat /\ DOMAIN c = 1..Len(c) /\ DOMAIN c = 1..n
    BY <1>1, <1>2, LenProperties
  <1>4. Len(c) = n
    BY <1>3
  <1> QED
    BY <1>2, <1>4, SeqIsAny

LEMMA ConcatAny ==
  ASSUME NEW s, NEW t, AnySeq(s), AnySeq(t)
  PROVE  /\ AnySeq(s \o t)
         /\ Len(s \o t) = Len(s) + Len(t)
         /\ \A k \in 1..Len(s) : (s \o t)[k] = s[k]
         /\ \A k \in 1..Len(t) : (s \o t)[Len(s) + k] = t[k]
  <1> DEFINE S == {s[k] : k \in 1..Len(s)} \cup {t[k] : k \in 1..Len(t)}
  <1>1. s \in Seq(S) /\ t \in Seq(S)
    <2>1. (\A k \in 1..Len(s) : s[k] \in S) /\ (\A k \in 1..Len(t) : t[k] \in S)
      OBVIOUS
    <2> HIDE DEF S
    <2> QED
      BY <2>1, AnySeqIn
  <1> HIDE DEF S
  <1>2. /\ s \o t \in Seq(S)
        /\ Len(s \o t) = Len(s) + Len(t)
        /\ \A i \in 1..Len(s) + Len(t) : (s \o t)[i] = IF i <= Len(s) THEN s[i] ELSE t[i - Len(s)]
    BY <1>1, ConcatProperties
  <1>3. Len(s) \in Nat /\ Len(t) \in Nat
    BY DEF AnySeq
  <1>4. \A k \in 1..Len(s) : k \in 1..Len(s) + Len(t) /\ k <= Len(s)
    BY <1>3
  <1>5. \A k \in 1..Len(t) : /\ Len(s) + k \in 1..Len(s) + Len(t)
                             /\ ~(Len(s) + k <= Len(s))
                             /\ (Len(s) + k) - Len(s) = k
    BY <1>3
  <1> QED
    BY <1>2, <1>4, <1>5, SeqIsAny

LEMMA AppendAny ==
  ASSUME NEW s, NEW e, AnySeq(s)
  PROVE  /\ AnySeq(Append(s, e))
         /\ Len(Append(s, e)) = Len(s) + 1
         /\ \A k \in 1..Len(s) : Append(s, e)[k] = s[k]
         /\ Append(s, e)[Len(s) + 1] = e
  <1> DEFINE S == {s[k] : k \in 1..Len(s)} \cup {e}
  <1>1. s \in Seq(S) /\ e \in S
    <2>1. (\A k \in 1..Len(s) : s[k] \in S) /\ e \in S
      OBVIOUS
    <2> HIDE DEF S
    <2> QED
      BY <2>1, AnySeqIn
  <1> HIDE DEF S
  <1>2. /\ Append(s, e) \in Seq(S)
        /\ Len(Append(s, e)) = Len(s) + 1
        /\ \A i \in 1..Len(s) : Append(s, e)[i] = s[i]
        /\ Append(s, e)[Len(s) + 1] = e
    BY <1>1, AppendProperties
  <1> QED
    BY <1>2, SeqIsAny

\* Four sequences, one behind the other.
LEMMA ConcatFour ==
  ASSUME NEW a, NEW b, NEW c, NEW d, AnySeq(a), AnySeq(b), AnySeq(c), AnySeq(d)
  PROVE  /\ AnySeq(a \o b \o c \o d)
         /\ Len(a \o b \o c \o d) = Len(a) + Len(b) + Len(c) + Len(d)
         /\ \A k \in 1..Len(a) : (a \o b \o c \o d)[k] = a[k]
         /\ \A k \in 1..Len(b) : (a \o b \o c \o d)[Len(a) + k] = b[k]
         /\ \A k \in 1..Len(c) : (a \o b \o c \o d)[Len(a) + Len(b) + k] = c[k]
         /\ \A k \in 1..Len(d) : (a \o b \o c \o d)[Len(a) + Len(b) + Len(c) + k] = d[k]
  <1>0. Len(a) \in Nat /\ Len(b) \in Nat /\ Len(c) \in Nat /\ Len(d) \in Nat
    BY DEF AnySeq
  <1>1. /\ AnySeq(a \o b)
        /\ Len(a \o b) = Len(a) + Len(b)
        /\ \A k \in 1..Len(a) : (a \o b)[k] = a[k]
        /\ \A k \in 1..Len(b) : (a \o b)[Len(a) + k] = b[k]
    BY ConcatAny
  <1>2. ASSUME NEW x, AnySeq(x), Len(x) = Len(a) + Len(b)
        PROVE  /\ AnySeq(x \o c)
               /\ Len(x \o c) = Len(x) + Len(c)
               /\ \A k \in 1..Len(x) : (x \o c)[k] = x[k]
               /\ \A k \in 1..Len(c) : (x \o c)[Len(x) + k] = c[k]
    BY <1>2, ConcatAny
  <1>3. ASSUME NEW y, AnySeq(y)
        PROVE  /\ AnySeq(y \o d)
               /\ Len(y \o d) = Len(y) + Len(d)
               /\ \A k \in 1..Len(y) : (y \o d)[k] = y[k]
               /\ \A k \in 1..Len(d) : (y \o d)[Len(y) + k] = d[k]
    BY <1>3, ConcatAny
  <1>4. /\ AnySeq((a \o b) \o c)
        /\ Len((a \o b) \o c) = Len(a \o b) + Len(c)
        /\ \A k \in 1..Len(a \o b) : ((a \o b) \o c)[k] = (a \o b)[k]
        /\ \A k \in 1..Len(c) : ((a \o b) \o c)[Len(a \o b) + k] = c[k]
    BY <1>1, <1>2
  <1>5. /\ AnySeq(((a \o b) \o c) \o d)
        /\ Len(((a \o b) \o c) \o d) = Len((a \o b) \o c) + Len(d)
        /\ \A k \in 1..Len((a \o b) \o c) : (((a \o b) \o c) \o d)[k] = ((a \o b) \o c)[k]
        /\ \A k \in 1..Len(d) : (((a \o b) \o c) \o d)[Len((a \o b) \o c) + k] = d[k]
    BY <1>3, <1>4
  <1> DEFINE ab == a \o b
             abc == ab \o c
             abcd == abc \o d
  <1>6. /\ AnySeq(abcd) /\ Len(ab) = Len(a) + Len(b) /\ Len(abc) = Len(ab) + Len(c) /\ Len(abcd) = Len(abc) + Len(d)
        /\ \A k \in 1..Len(a) : ab[k] = a[k]
        /\ \A k \in 1..Len(b) : ab[Len(a) + k] = b[k]
        /\ \A k \in 1..Len(ab) : abc[k] = ab[k]
        /\ \A k \in 1..Len(c) : abc[Len(ab) + k] = c[k]
        /\ \A k \in 1..Len(abc) : abcd[k] = abc[k]
        /\ \A k \in 1..Len(d) : abcd[Len(abc) + k] = d[k]
    BY <1>1, <1>4, <1>5
  <1> HIDE DEF ab, abc, abcd
  <1>7. /\ AnySeq(abcd)
        /\ Len(abcd) = Len(a) + Len(b) + Len(c) + Len(d)
        /\ \A k \in 1..Len(a) : abcd[k] = a[k]
        /\ \A k \in 1..Len(b) : abcd[Len(a) + k] = b[k]
        /\ \A k \in 1..Len(c) : abcd[Len(a) + Len(b) + k] = c[k]
        /\ \A k \in 1..Len(d) : abcd[Len(a) + Len(b) + Len(c) + k] = d[k]
    <2>1. ASSUME NEW k \in 1..Len(a) PROVE abcd[k] = a[k]
      <3>1. k \in 1..Len(ab) /\ k \in 1..Len(abc)
        BY <1>0, <1>6
      <3> QED
        BY <3>1, <1>6
    <2>2. ASSUME NEW k \in 1..Len(b) PROVE abcd[Len(a) + k] = b[k]
      <3>1. Len(a) + k \in 1..Len(ab) /\ Len(a) + k \in 1..Len(abc)
        BY <1>0, <1>6
      <3> QED
        BY <3>1, <1>6
    <2>3. ASSUME NEW k \in 1..Len(c) PROVE abcd[Len(a) + Len(b) + k] = c[k]
      <3>1. Len(ab) + k \in 1..Len(abc) /\ Len(ab) + k = Len(a) + Len(b) + k
        BY <1>0, <1>6
      <3> QED
        BY <3>1, <1>6
    <2> QED
      BY <1>0, <1>6, <2>1, <2>2, <2>3
  <1> QED
    BY <1>7 DEF ab, abc, abcd

\* The bytes of a value are a sequence, and so is cleared memory.
LEMMA BytesAreSeq ==
  ASSUME NEW kind, NEW n, NEW w \in Nat
  PROVE  /\ AnySeq(Bytes(kind, n, w))
         /\ Len(Bytes(kind, n, w)) = w
         /\ \A k \in 1..w : Bytes(kind, n, w)[k] = <<kind, n, k>>
  BY FunctionIsSeq DEF Bytes

LEMMA U32Cells ==
  ASSUME NEW n
  PROVE  AnySeq(U32(n)) /\ Len(U32(n)) = 4 /\ \A k \in 1..4 : U32(n)[k] = <<"u32", n, k>>
  <1>1. 4 \in Nat
    OBVIOUS
  <1> QED
    BY <1>1, BytesAreSeq DEF U32

LEMMA FilledIsSeq ==
  ASSUME NEW cell, NEW w \in Int
  PROVE  /\ AnySeq(Filled(cell, w))
         /\ Len(Filled(cell, w)) = IF w < 0 THEN 0 ELSE w
         /\ \A k \in 1..w : Filled(cell, w)[k] = cell
  <1>1. PICK m \in Nat : m = (IF w < 0 THEN 0 ELSE w) /\ 1..w = 1..m
    <2>1. CASE w < 0
      <3>1. 1..w = 1..0
        BY <2>1
      <3> QED
        BY <2>1, <3>1
    <2>2. CASE ~(w < 0)
      BY <2>2
    <2> QED
      BY <2>1, <2>2
  <1> DEFINE c == Filled(cell, w)
  <1>2. c = [k \in 1..m |-> c[k]]
    BY <1>1 DEF Filled
  <1>3. \A k \in 1..w : c[k] = cell
    BY DEF Filled
  <1> HIDE DEF c
  <1>4. AnySeq(c) /\ Len(c) = m
    BY <1>2, FunctionIsSeq
  <1> QED
    BY <1>1, <1>3, <1>4 DEF c

\* All the bytes of a value, at their place.
LieAt(cells, at, kind, n, w) == \A k \in 1..w : cells[at + k] = <<kind, n, k>>

\* A value is read back where all its bytes lie.
LEMMA LoadBytes ==
  ASSUME NEW cells, NEW at \in Nat, NEW kind, NEW n, NEW w \in Nat \ {0},
         LieAt(cells, at, kind, n, w)
  PROVE  Load(cells, at, kind, w) = n
  <1> DEFINE S == {<<kind, n, k>> : k \in 1..w}
             read == SubSeq(cells, at + 1, at + w)
  <1>1. \A i \in (at + 1)..(at + w) : cells[i] \in S
    <2>1. \A i \in (at + 1)..(at + w) : i - at \in 1..w /\ at + (i - at) = i
      OBVIOUS
    <2> QED
      BY <2>1 DEF LieAt
  <1> HIDE DEF S
  <1>2. /\ read \in Seq(S)
        /\ Len(read) = w
        /\ \A i \in 1..w : read[i] = cells[at + i]
    <2>1. /\ read \in Seq(S)
          /\ Len(read) = IF at + 1 <= at + w THEN (at + w) - (at + 1) + 1 ELSE 0
          /\ \A i \in 1..((at + w) - (at + 1) + 1) : read[i] = cells[(at + 1) + i - 1]
      BY <1>1, SubSeqProperties
    <2>2. (at + w) - (at + 1) + 1 = w /\ at + 1 <= at + w
      OBVIOUS
    <2>3. \A i \in 1..w : (at + 1) + i - 1 = at + i
      OBVIOUS
    <2> HIDE DEF read
    <2> QED
      BY <2>1, <2>2, <2>3
  <1> HIDE DEF read
  <1>3. \A i \in 1..w : read[i] = <<kind, n, i>>
    BY <1>2 DEF LieAt
  <1>4. read = Bytes(kind, n, w)
    BY <1>2, <1>3, LenProperties DEF Bytes
  <1>5. read[1] = <<kind, n, 1>> /\ read[1][1] = kind /\ read[1][2] = n
    BY <1>3
  <1>6. Filled(Zero, w)[1] = <<"zero">>
    BY DEF Filled, Zero
  <1>7. <<kind, n, 1>> # <<"zero">>
    <2>1. Len(<<kind, n, 1>>) = 3 /\ Len(<<"zero">>) = 1
      OBVIOUS
    <2> QED
      BY <2>1
  <1>8. read # Filled(Zero, w)
    BY <1>5, <1>6, <1>7
  <1> QED
    BY <1>2, <1>4, <1>5, <1>8 DEF Load, Slice, read

\* Cells that lie in others, behind the first at.
CellsLie(cells, at, c) == \A k \in 1..Len(c) : cells[at + k] = c[k]

\* They are cut out where they lie.
LEMMA SliceIs ==
  ASSUME NEW blob, NEW at \in Nat, NEW c, AnySeq(c), CellsLie(blob, at, c)
  PROVE  Slice(blob, at, Len(c)) = c
  <1> DEFINE n == Len(c)
             S == {c[k] : k \in 1..n}
             read == SubSeq(blob, at + 1, at + n)
  <1>1. n \in Nat /\ c = [k \in 1..n |-> c[k]] /\ \A k \in 1..n : blob[at + k] = c[k] /\ c[k] \in S
    BY DEF AnySeq, CellsLie
  <1> HIDE DEF S, n
  <1>2. \A i \in (at + 1)..(at + n) : blob[i] \in S
    <2>1. \A i \in (at + 1)..(at + n) : i - at \in 1..n /\ at + (i - at) = i
      BY <1>1
    <2> QED
      BY <1>1, <2>1
  <1>3. /\ read \in Seq(S)
        /\ Len(read) = IF at + 1 <= at + n THEN (at + n) - (at + 1) + 1 ELSE 0
        /\ \A i \in 1..((at + n) - (at + 1) + 1) : read[i] = blob[(at + 1) + i - 1]
    BY <1>1, <1>2, SubSeqProperties
  <1>4. Len(read) = n /\ (at + n) - (at + 1) + 1 = n /\ \A i \in 1..n : (at + 1) + i - 1 = at + i
    <2> HIDE DEF read
    <2>1. Len(read) = IF at + 1 <= at + n THEN (at + n) - (at + 1) + 1 ELSE 0
      BY <1>3
    <2>2. (at + n) - (at + 1) + 1 = n /\ \A i \in 1..n : (at + 1) + i - 1 = at + i
      BY <1>1
    <2>3. ~(at + 1 <= at + n) => n = 0
      BY <1>1
    <2> QED
      BY <2>1, <2>2, <2>3
  <1>5. AnySeq(read)
    BY <1>3, SeqIsAny
  <1> HIDE DEF read
  <1>6. \A i \in 1..n : read[i] = c[i]
    BY <1>1, <1>3, <1>4
  <1>7. read = [k \in 1..n |-> read[k]]
    BY <1>4, <1>5 DEF AnySeq
  <1>8. read = c
    BY <1>1, <1>6, <1>7
  <1> QED
    BY <1>8 DEF Slice, read, n

LEMMA U32Read ==
  ASSUME NEW cells, NEW at \in Nat, NEW n, LieAt(cells, at, "u32", n, 4)
  PROVE  LoadU32(cells, at) = n
  <1>1. 4 \in Nat \ {0}
    OBVIOUS
  <1> QED
    BY <1>1, LoadBytes DEF LoadU32

LEMMA U8Read ==
  ASSUME NEW cells, NEW at \in Nat, NEW n, LieAt(cells, at, "u8", n, 1)
  PROVE  Load(cells, at, "u8", 1) = n
  <1>1. 1 \in Nat \ {0}
    OBVIOUS
  <1> QED
    BY <1>1, LoadBytes

-----------------------------------------------------------------------------
(* The header *)

\* An entry is twelve bytes: place, size and whether the value is null.
LEMMA EntryCells ==
  ASSUME NEW offset, NEW size, NEW null
  PROVE  /\ AnySeq(Entry(offset, size, null))
         /\ Len(Entry(offset, size, null)) = 12
         /\ \A k \in 1..4 : Entry(offset, size, null)[k] = <<"u32", offset, k>>
         /\ \A k \in 1..4 : Entry(offset, size, null)[4 + k] = <<"u32", size, k>>
         /\ Entry(offset, size, null)[9] = <<"u8", null, 1>>
  <1> DEFINE a == U32(offset)
             b == U32(size)
             c == Bytes("u8", null, 1)
             d == Filled(Zero, 3)
  <1>1. /\ AnySeq(a) /\ Len(a) = 4 /\ \A k \in 1..4 : a[k] = <<"u32", offset, k>>
        /\ AnySeq(b) /\ Len(b) = 4 /\ \A k \in 1..4 : b[k] = <<"u32", size, k>>
    BY U32Cells
  <1>2. AnySeq(c) /\ Len(c) = 1 /\ c[1] = <<"u8", null, 1>>
    <2>1. 1 \in Nat /\ 1 \in 1..1
      OBVIOUS
    <2> QED
      BY <2>1, BytesAreSeq
  <1>3. AnySeq(d) /\ Len(d) = 3
    BY FilledIsSeq
  <1> DEFINE e == a \o b \o c \o d
  <1>4. Entry(offset, size, null) = e
    BY DEF Entry
  <1> HIDE DEF a, b, c, d
  <1> AnySeq(a) /\ AnySeq(b) /\ AnySeq(c) /\ AnySeq(d)
    BY <1>1, <1>2, <1>3
  <1>5. /\ AnySeq(e)
        /\ Len(e) = Len(a) + Len(b) + Len(c) + Len(d)
        /\ \A k \in 1..Len(a) : e[k] = a[k]
        /\ \A k \in 1..Len(b) : e[Len(a) + k] = b[k]
        /\ \A k \in 1..Len(c) : e[Len(a) + Len(b) + k] = c[k]
    BY ConcatFour
  <1> HIDE DEF e
  <1>6. /\ AnySeq(e) /\ Len(e) = 12
        /\ \A k \in 1..4 : e[k] = a[k]
        /\ \A k \in 1..4 : e[4 + k] = b[k]
        /\ \A k \in 1..1 : e[8 + k] = c[k]
    BY <1>1, <1>2, <1>3, <1>5
  <1>7. e[9] = c[1]
    BY <1>6
  <1> QED
    BY <1>1, <1>2, <1>4, <1>6, <1>7

\* Entry i lies at its place among the entries.
LEMMA JoinedCells ==
  ASSUME NEW entries, Len(entries) \in Nat
  PROVE  /\ AnySeq(Joined(entries))
         /\ Len(Joined(entries)) = 12 * Len(entries)
         /\ \A i \in 1..Len(entries), k \in 1..12 :
              Joined(entries)[12 * (i - 1) + k] = entries[i][k]
  <1> DEFINE J == Joined(entries)
             n == Len(entries)
  <1>1. n \in Nat /\ 12 * n \in Nat
    OBVIOUS
  <1>2. J = [k \in 1..(12 * n) |-> entries[((k - 1) \div 12) + 1][((k - 1) % 12) + 1]]
    BY DEF Joined, EntrySize
  <1> HIDE DEF J, n
  <1>3. AnySeq(J) /\ Len(J) = 12 * n
    <2>1. J = [k \in 1..(12 * n) |-> J[k]]
      BY <1>2
    <2> QED
      BY <1>1, <2>1, FunctionIsSeq
  <1>4. ASSUME NEW i \in 1..n, NEW k \in 1..12 PROVE J[12 * (i - 1) + k] = entries[i][k]
    <2> DEFINE m == 12 * (i - 1) + k
    <2>1. m \in 1..(12 * n)
      BY <1>1
    <2>2. (m - 1) \div 12 = i - 1 /\ (m - 1) % 12 = k - 1
      BY <1>1
    <2>3. J[m] = entries[((m - 1) \div 12) + 1][((m - 1) % 12) + 1]
      BY <1>2, <2>1
    <2> HIDE DEF m
    <2>4. (i - 1) + 1 = i /\ (k - 1) + 1 = k
      BY <1>1
    <2>5. J[m] = entries[i][k]
      BY <2>2, <2>3, <2>4
    <2> QED
      BY <2>5 DEF m
  <1> QED
    BY <1>3, <1>4 DEF J, n

\* The header: the number of fields, and the entries behind it.
HeaderLies(h, n, entries) ==
  /\ AnySeq(h)
  /\ Len(h) = 12 + 12 * Len(entries)
  /\ \A k \in 1..4 : h[8 + k] = <<"u32", n, k>>
  /\ \A i \in 1..Len(entries), k \in 1..12 : h[12 + 12 * (i - 1) + k] = entries[i][k]

LEMMA HeaderCells ==
  ASSUME NEW schema, NEW entries, Len(entries) \in Nat
  PROVE  HeaderLies(Header(schema, entries), Len(schema), entries)
  <1> SUFFICES
         /\ AnySeq(Header(schema, entries))
         /\ Len(Header(schema, entries)) = 12 + 12 * Len(entries)
         /\ \A k \in 1..4 : Header(schema, entries)[8 + k] = <<"u32", Len(schema), k>>
         /\ \A i \in 1..Len(entries), k \in 1..12 :
              Header(schema, entries)[12 + 12 * (i - 1) + k] = entries[i][k]
    BY DEF HeaderLies
  <1> DEFINE a == Bytes("magic", 0, 4)
             b == U32(1)
             c == U32(Len(schema))
             J == Joined(entries)
             n == Len(entries)
  <1>1. AnySeq(a) /\ Len(a) = 4
    <2>1. 4 \in Nat
      OBVIOUS
    <2> QED
      BY <2>1, BytesAreSeq
  <1>2. AnySeq(b) /\ Len(b) = 4
    BY U32Cells
  <1>3. AnySeq(c) /\ Len(c) = 4 /\ \A k \in 1..4 : c[k] = <<"u32", Len(schema), k>>
    BY U32Cells
  <1>4. /\ AnySeq(J) /\ Len(J) = 12 * n
        /\ \A i \in 1..n, k \in 1..12 : J[12 * (i - 1) + k] = entries[i][k]
    BY JoinedCells
  <1> DEFINE h == a \o b \o c \o J
  <1>5. Header(schema, entries) = h /\ n \in Nat
    BY DEF Header
  <1> HIDE DEF a, b, c, J, n
  <1> AnySeq(a) /\ AnySeq(b) /\ AnySeq(c) /\ AnySeq(J)
    BY <1>1, <1>2, <1>3, <1>4
  <1>6. /\ AnySeq(h)
        /\ Len(h) = Len(a) + Len(b) + Len(c) + Len(J)
        /\ \A k \in 1..Len(c) : h[Len(a) + Len(b) + k] = c[k]
        /\ \A k \in 1..Len(J) : h[Len(a) + Len(b) + Len(c) + k] = J[k]
    BY ConcatFour
  <1> HIDE DEF h
  <1>7. /\ AnySeq(h) /\ Len(h) = 12 + 12 * n
        /\ \A k \in 1..4 : h[8 + k] = c[k]
        /\ \A k \in 1..(12 * n) : h[12 + k] = J[k]
    BY <1>1, <1>2, <1>3, <1>4, <1>5, <1>6
  <1>8. ASSUME NEW i \in 1..n, NEW k \in 1..12 PROVE h[12 + 12 * (i - 1) + k] = entries[i][k]
    <2>1. /\ 12 * (i - 1) + k \in 1..(12 * n)
          /\ 12 + 12 * (i - 1) + k = 12 + (12 * (i - 1) + k)
      BY <1>5
    <2>2. h[12 + (12 * (i - 1) + k)] = J[12 * (i - 1) + k]
      BY <1>7, <2>1
    <2> QED
      BY <1>4, <2>1, <2>2
  <1> QED
    BY <1>3, <1>5, <1>7, <1>8 DEF n

-----------------------------------------------------------------------------
(* The cells of a blob *)

\* A row as it is written: header, fixed part, payloads, and what is left.
Whole4(schema, acc, room) ==
  Header(schema, acc.entries) \o acc.row \o acc.payload \o Filled(Zero, room - Len(acc.payload))

\* The number of fields and each entry are read where the header has them, and
\* the fixed part and the payloads lie behind it.
LEMMA BlobCells ==
  ASSUME NEW schema, NEW acc, NEW room \in Nat,
         Len(schema) \in Nat, Len(acc.entries) = Len(schema),
         AnySeq(acc.row), AnySeq(acc.payload)
  PROVE  LET blob == Whole4(schema, acc, room) IN
         /\ Len(blob) \in Nat
         /\ Len(blob) >= HeaderSize(schema) + Len(acc.row)
         /\ LoadU32(blob, 8) = Len(schema)
         /\ \A i \in 1..Len(schema), k \in 1..12 : blob[12 + 12 * (i - 1) + k] = acc.entries[i][k]
         /\ \A k \in 1..Len(acc.row) : blob[HeaderSize(schema) + k] = acc.row[k]
         /\ \A k \in 1..Len(acc.payload) : blob[HeaderSize(schema) + Len(acc.row) + k] = acc.payload[k]
  <1> DEFINE h == Header(schema, acc.entries)
             r == acc.row
             p == acc.payload
             z == Filled(Zero, room - Len(p))
             n == Len(schema)
             blob == h \o r \o p \o z
  <1>1. n \in Nat /\ HeaderSize(schema) = 12 + 12 * n
    BY DEF HeaderSize, EntrySize
  <1>2. Len(r) \in Nat /\ Len(p) \in Nat
    BY DEF AnySeq
  <1>3. /\ AnySeq(h)
        /\ Len(h) = 12 + 12 * n
        /\ \A k \in 1..4 : h[8 + k] = <<"u32", n, k>>
        /\ \A i \in 1..n, k \in 1..12 : h[12 + 12 * (i - 1) + k] = acc.entries[i][k]
    <2> DEFINE es == acc.entries
    <2> Len(es) \in Nat
      OBVIOUS
    <2> HIDE DEF es
    <2>1. HeaderLies(Header(schema, es), Len(schema), es)
      BY HeaderCells
    <2>2. Len(es) = n
      BY DEF es
    <2> QED
      BY <2>1, <2>2 DEF HeaderLies, es
  <1>4. AnySeq(z)
    BY <1>2, FilledIsSeq
  <1> Whole4(schema, acc, room) = blob
    BY DEF Whole4
  <1> HIDE DEF h, r, p, z, n
  <1> AnySeq(h) /\ AnySeq(r) /\ AnySeq(p) /\ AnySeq(z)
    BY <1>3, <1>4 DEF r, p
  <1>5. /\ AnySeq(blob)
        /\ Len(blob) = Len(h) + Len(r) + Len(p) + Len(z)
        /\ \A k \in 1..Len(h) : blob[k] = h[k]
        /\ \A k \in 1..Len(r) : blob[Len(h) + k] = r[k]
        /\ \A k \in 1..Len(p) : blob[Len(h) + Len(r) + k] = p[k]
        /\ \A k \in 1..Len(z) : blob[Len(h) + Len(r) + Len(p) + k] = z[k]
    BY ConcatFour
  <1> HIDE DEF blob
  <1>6. Len(z) \in Nat
    BY <1>4 DEF AnySeq
  <1>7. Len(blob) \in Nat /\ Len(blob) >= HeaderSize(schema) + Len(r)
    <2>1. Len(r) \in Nat /\ Len(p) \in Nat
      BY <1>2 DEF r, p
    <2>2. Len(blob) = Len(h) + Len(r) + Len(p) + Len(z)
      BY <1>5
    <2>3. Len(h) = 12 + 12 * n
      BY <1>3
    <2> QED
      BY <1>1, <1>6, <2>1, <2>2, <2>3
  <1>8. ASSUME NEW i \in 1..n, NEW k \in 1..12 PROVE blob[12 + 12 * (i - 1) + k] = acc.entries[i][k]
    <2>1. 12 + 12 * (i - 1) + k \in 1..Len(h)
      BY <1>1, <1>3
    <2> QED
      BY <1>3, <1>5, <2>1
  <1>9. \A k \in 1..Len(r) : blob[HeaderSize(schema) + k] = r[k]
    BY <1>1, <1>3, <1>5
  <1>10. LoadU32(blob, 8) = n
    <2>1. \A k \in 1..4 : 8 + k \in 1..Len(h)
      BY <1>1, <1>3
    <2>2. LieAt(blob, 8, "u32", n, 4)
      BY <1>3, <1>5, <2>1 DEF LieAt
    <2> QED
      BY <2>2, U32Read
  <1>11. \A k \in 1..Len(p) : blob[HeaderSize(schema) + Len(r) + k] = p[k]
    BY <1>1, <1>3, <1>5
  <1> QED
    BY <1>7, <1>8, <1>9, <1>10, <1>11 DEF blob, n, r, p

\* Entry i of the header.
EntryAt(blob, i, offset, size, null) ==
  \A k \in 1..12 : blob[12 + 12 * (i - 1) + k] = Entry(offset, size, null)[k]

\* Place, size and null flag of entry i.
LEMMA EntryLoads ==
  ASSUME NEW blob, NEW i \in Nat \ {0}, NEW offset, NEW size, NEW null,
         EntryAt(blob, i, offset, size, null)
  PROVE  LET at == 12 + EntrySize * (i - 1) IN
         /\ LoadU32(blob, at) = offset
         /\ LoadU32(blob, at + 4) = size
         /\ Load(blob, at + 8, "u8", 1) = null
  <1> DEFINE at == 12 + 12 * (i - 1)
             e == Entry(offset, size, null)
  <1>1. /\ \A k \in 1..4 : e[k] = <<"u32", offset, k>>
        /\ \A k \in 1..4 : e[4 + k] = <<"u32", size, k>>
        /\ e[9] = <<"u8", null, 1>>
    BY EntryCells
  <1>2. \A k \in 1..12 : blob[at + k] = e[k]
    BY DEF EntryAt
  <1>3. at \in Nat /\ at + 4 \in Nat /\ at + 8 \in Nat
    OBVIOUS
  <1>4. EntrySize = 12
    BY DEF EntrySize
  <1> HIDE DEF at, e
  <1>5. LoadU32(blob, at) = offset
    <2>1. LieAt(blob, at, "u32", offset, 4)
      BY <1>1, <1>2 DEF LieAt
    <2> QED
      BY <1>3, <2>1, U32Read
  <1>6. LoadU32(blob, at + 4) = size
    <2>1. \A k \in 1..4 : 4 + k \in 1..12 /\ (at + 4) + k = at + (4 + k)
      BY <1>3
    <2>2. LieAt(blob, at + 4, "u32", size, 4)
      BY <1>1, <1>2, <2>1 DEF LieAt
    <2> QED
      BY <1>3, <2>2, U32Read
  <1>7. Load(blob, at + 8, "u8", 1) = null
    <2>1. \A k \in 1..1 : k = 1 /\ 9 \in 1..12 /\ (at + 8) + k = at + 9
      BY <1>3
    <2>2. LieAt(blob, at + 8, "u8", null, 1)
      BY <1>1, <1>2, <2>1 DEF LieAt
    <2> QED
      BY <1>3, <2>2, U8Read
  <1> QED
    BY <1>4, <1>5, <1>6, <1>7 DEF at

-----------------------------------------------------------------------------
(* The fixed part of a row *)

\* Cells laid over a row leave the others as they are.
LEMMA OverlayCells ==
  ASSUME NEW row, NEW at \in Nat, NEW cells,
         AnySeq(row), AnySeq(cells), at + Len(cells) <= Len(row)
  PROVE  LET o == Overlay(row, at, cells) IN
         /\ AnySeq(o) /\ Len(o) = Len(row)
         /\ \A k \in 1..Len(cells) : o[at + k] = cells[k]
         /\ \A k \in 1..Len(row) : k <= at \/ k > at + Len(cells) => o[k] = row[k]
  <1> DEFINE o == Overlay(row, at, cells)
  <1>1. /\ Len(row) \in Nat /\ DOMAIN row = 1..Len(row)
        /\ Len(cells) \in Nat /\ DOMAIN cells = 1..Len(cells)
    BY DEF AnySeq
  <1>2. o = [k \in 1..Len(row) |-> IF k - at \in 1..Len(cells) THEN cells[k - at] ELSE row[k]]
    BY <1>1 DEF Overlay
  <1> HIDE DEF o
  <1>3. AnySeq(o) /\ Len(o) = Len(row)
    <2>1. o = [k \in 1..Len(row) |-> o[k]]
      BY <1>2
    <2> QED
      BY <1>1, <2>1, FunctionIsSeq
  <1>4. ASSUME NEW k \in 1..Len(cells) PROVE o[at + k] = cells[k]
    <2>1. at + k \in 1..Len(row) /\ (at + k) - at = k
      BY <1>1
    <2> QED
      BY <1>2, <2>1
  <1>5. ASSUME NEW k \in 1..Len(row), k <= at \/ k > at + Len(cells) PROVE o[k] = row[k]
    <2>1. k - at \notin 1..Len(cells)
      BY <1>1, <1>5
    <2> QED
      BY <1>2, <2>1
  <1> QED
    BY <1>3, <1>4, <1>5 DEF o

\* A bit that is set leaves every bit that was, and every other byte.
LEMMA WithBitCells ==
  ASSUME NEW row, NEW b \in Nat, AnySeq(row), b \div 8 + 1 <= Len(row)
  PROVE  LET o == WithBit(row, b) IN
         /\ AnySeq(o) /\ Len(o) = Len(row)
         /\ b % 8 \in BitsOf(o[b \div 8 + 1])
         /\ \A k \in 1..Len(row) : BitsOf(row[k]) \subseteq BitsOf(o[k])
         /\ \A k \in 1..Len(row) : k # b \div 8 + 1 => o[k] = row[k]
  <1> DEFINE o == WithBit(row, b)
             c == b \div 8 + 1
             set == BitsOf(row[c]) \cup {b % 8}
  <1>1. Len(row) \in Nat /\ DOMAIN row = 1..Len(row) /\ c \in 1..Len(row)
    BY DEF AnySeq
  <1>2. o = [row EXCEPT ![c] = <<"bits", set, 1>>]
    BY DEF WithBit
  <1> HIDE DEF o, c, set
  <1>3. /\ o = [k \in 1..Len(row) |-> o[k]]
        /\ o[c] = <<"bits", set, 1>>
        /\ \A k \in 1..Len(row) : k # c => o[k] = row[k]
    BY <1>1, <1>2 DEF AnySeq
  <1>4. AnySeq(o) /\ Len(o) = Len(row)
    BY <1>1, <1>3, FunctionIsSeq
  <1>5. BitsOf(o[c]) = set
    <2>1. <<"bits", set, 1>>[1] = "bits" /\ <<"bits", set, 1>>[2] = set
      OBVIOUS
    <2> QED
      BY <1>3, <2>1 DEF BitsOf
  <1>6. \A k \in 1..Len(row) : BitsOf(row[k]) \subseteq BitsOf(o[k])
    <2> TAKE k \in 1..Len(row)
    <2>1. CASE k = c
      BY <1>5, <2>1 DEF set
    <2>2. CASE k # c
      BY <1>3, <2>2
    <2> QED
      BY <2>1, <2>2
  <1>7. b % 8 \in BitsOf(o[c])
    BY <1>5 DEF set
  <1> QED
    BY <1>3, <1>4, <1>6, <1>7 DEF o, c

\* The two numbers of a slot.
LEMMA SlotCells ==
  ASSUME NEW at, NEW cells, NEW header
  PROVE  LET s == Slot(at, cells, header) IN
         /\ AnySeq(s) /\ Len(s) = 8
         /\ LieAt(s, 0, "u32", at - header, 4)
         /\ LieAt(s, 4, "u32", Len(cells), 4)
  <1> DEFINE a == U32(at - header)
             b == U32(Len(cells))
             s == a \o b
  <1>1. AnySeq(a) /\ Len(a) = 4 /\ \A k \in 1..4 : a[k] = <<"u32", at - header, k>>
    BY U32Cells
  <1>2. AnySeq(b) /\ Len(b) = 4 /\ \A k \in 1..4 : b[k] = <<"u32", Len(cells), k>>
    BY U32Cells
  <1>3. Slot(at, cells, header) = s
    BY DEF Slot
  <1> HIDE DEF a, b
  <1> AnySeq(a) /\ AnySeq(b)
    BY <1>1, <1>2
  <1>4. /\ AnySeq(s)
        /\ Len(s) = Len(a) + Len(b)
        /\ \A k \in 1..Len(a) : s[k] = a[k]
        /\ \A k \in 1..Len(b) : s[Len(a) + k] = b[k]
    BY ConcatAny
  <1> HIDE DEF s
  <1>5. LieAt(s, 0, "u32", at - header, 4)
    <2>1. \A k \in 1..4 : 0 + k = k /\ k \in 1..Len(a)
      BY <1>1
    <2> QED
      BY <1>1, <1>4, <2>1 DEF LieAt
  <1>6. LieAt(s, 4, "u32", Len(cells), 4)
    BY <1>1, <1>2, <1>4 DEF LieAt
  <1> QED
    BY <1>1, <1>2, <1>3, <1>4, <1>5, <1>6

-----------------------------------------------------------------------------
(* The loops over the fields *)

\* The size of a row is what its definition says after each field.
SizesUpTo(l, schema, v, n, g) ==
  g = [i \in 0..n |->
        IF i = 0 THEN RowBase(l, schema)
        ELSE SizeWith(g[i - 1], l.variable[i], schema[i], ObjectGet(v, schema[i].name))]

LEMMA SizesExist ==
  ASSUME NEW l, NEW schema, NEW v, NEW n \in Nat
  PROVE  \E g : SizesUpTo(l, schema, v, n, g)
  <1> DEFINE S == {k \in Nat : \E g : SizesUpTo(l, schema, v, k, g)}
             F(x, i) == SizeWith(x, l.variable[i], schema[i], ObjectGet(v, schema[i].name))
  <1>1. 0 \in S
    <2>1. SizesUpTo(l, schema, v, 0, [i \in 0..0 |-> RowBase(l, schema)])
      BY DEF SizesUpTo
    <2> QED
      BY <2>1
  <1>2. ASSUME NEW k \in Nat, k \in S PROVE k + 1 \in S
    <2>1. PICK g : SizesUpTo(l, schema, v, k, g)
      BY <1>2
    <2> DEFINE h == [i \in 0..(k + 1) |-> IF i = k + 1 THEN F(g[k], k + 1) ELSE g[i]]
    <2>2. ASSUME NEW i \in 0..(k + 1)
          PROVE  h[i] = IF i = 0 THEN RowBase(l, schema) ELSE F(h[i - 1], i)
      <3> HIDE DEF F
      <3>1. CASE i = k + 1
        <4>1. i - 1 \in 0..(k + 1) /\ i - 1 # k + 1 /\ i - 1 = k /\ i # 0
          BY <3>1
        <4>2. h[i - 1] = g[k]
          BY <4>1
        <4>3. h[i] = F(g[k], k + 1)
          BY <3>1
        <4> QED
          BY <3>1, <4>1, <4>2, <4>3
      <3>2. CASE i # k + 1
        <4>1. i \in 0..k /\ h[i] = g[i]
          BY <3>2
        <4>2. g[i] = IF i = 0 THEN RowBase(l, schema) ELSE F(g[i - 1], i)
          BY <2>1, <4>1 DEF SizesUpTo, F
        <4>3. i # 0 => i - 1 \in 0..(k + 1) /\ i - 1 # k + 1 /\ h[i - 1] = g[i - 1]
          BY <4>1
        <4> QED
          BY <4>1, <4>2, <4>3
      <3> QED
        BY <3>1, <3>2
    <2>3. SizesUpTo(l, schema, v, k + 1, h)
      <3> HIDE DEF h
      <3>1. h = [i \in 0..(k + 1) |-> h[i]]
        BY DEF h
      <3> QED
        BY <2>2, <3>1 DEF SizesUpTo
    <2> QED
      BY <2>3
  <1>3. Nat \subseteq S
    <2> HIDE DEF S
    <2> QED
      BY <1>1, <1>2, Induction
  <1> QED
    BY <1>3

\* A size that can be computed has room for what every row takes.
LEMMA RowSizeEnough ==
  ASSUME NEW l, NEW schema, NEW v, Len(schema) \in Nat, RowBase(l, schema) \in Nat,
         \A i \in 1..Len(schema) : FieldSize(schema[i], ObjectGet(v, schema[i].name)) \in Nat \cup {Bad}
  PROVE  \/ RowSize(l, schema, v) = Bad
         \/ RowSize(l, schema, v) \in Nat /\ RowSize(l, schema, v) >= RowBase(l, schema)
  <1> DEFINE n == Len(schema)
             base == RowBase(l, schema)
             F(x, i) == SizeWith(x, l.variable[i], schema[i], ObjectGet(v, schema[i].name))
             g == CHOOSE h : SizesUpTo(l, schema, v, n, h)
             Enough(x) == x = Bad \/ (x \in Nat /\ x >= base)
  <1>1. SizesUpTo(l, schema, v, n, g)
    <2>1. \E h : SizesUpTo(l, schema, v, n, h)
      BY SizesExist
    <2> QED
      BY <2>1
  <1>2. RowSize(l, schema, v) = g[n]
    BY DEF RowSize, SizesUpTo
  <1> HIDE DEF g
  <1>3. g[0] = base /\ \A i \in 1..n : g[i] = F(g[i - 1], i)
    <2>1. g = [i \in 0..n |-> IF i = 0 THEN base ELSE F(g[i - 1], i)]
      BY <1>1 DEF SizesUpTo
    <2>2. 0 \in 0..n /\ \A i \in 1..n : i \in 0..n /\ i # 0
      OBVIOUS
    <2> HIDE DEF base, F, n
    <2>3. \A i \in 0..n : g[i] = IF i = 0 THEN base ELSE F(g[i - 1], i)
      BY <2>1
    <2> QED
      BY <2>2, <2>3
  <1> DEFINE S == {k \in Nat : k <= n => Enough(g[k])}
  <1>4. 0 \in S
    BY <1>3
  <1>5. ASSUME NEW k \in Nat, k \in S PROVE k + 1 \in S
    <2> SUFFICES ASSUME k + 1 <= n PROVE Enough(g[k + 1])
      OBVIOUS
    <2>1. k + 1 \in 1..n /\ (k + 1) - 1 = k /\ Enough(g[k])
      BY <1>5
    <2>2. g[k + 1] = F(g[k], k + 1)
      BY <1>3, <2>1
    <2> DEFINE x == g[k]
               value == ObjectGet(v, schema[k + 1].name)
               s == FieldSize(schema[k + 1], value)
    <2>3. s \in Nat \cup {Bad}
      BY <2>1
    <2>4. \/ F(x, k + 1) = x
          \/ F(x, k + 1) = Bad
          \/ x # Bad /\ s # Bad /\ F(x, k + 1) = x + s
      BY DEF SizeWith
    <2>5. Enough(x)
      BY <2>1
    <2>6. base \in Nat
      OBVIOUS
    <2> DEFINE y == F(x, k + 1)
    <2>7. Enough(y)
      <3>1. y = x \/ y = Bad \/ (x # Bad /\ s # Bad /\ y = x + s)
        BY <2>4
      <3> HIDE DEF x, s, y, base
      <3>2. CASE x # Bad /\ s # Bad /\ y = x + s
        BY <2>3, <2>5, <2>6, <3>2
      <3> QED
        BY <2>5, <3>1, <3>2
    <2> QED
      BY <2>2, <2>7
  <1>6. Nat \subseteq S
    <2> HIDE DEF S
    <2> QED
      BY <1>4, <1>5, Induction
  <1>7. Enough(g[n])
    <2>1. n \in S
      <3> HIDE DEF S
      <3> QED
        BY <1>6
    <2> QED
      BY <2>1
  <1> QED
    BY <1>2, <1>7

\* The row after each field is what its definition says.
RowsUpTo(l, schema, v, room, n, g) ==
  g = [i \in 0..n |-> IF i = 0 THEN Cleared(l) ELSE RowField(g[i - 1], l, schema, v, room, i)]

LEMMA RowsExist ==
  ASSUME NEW l, NEW schema, NEW v, NEW room, NEW n \in Nat
  PROVE  \E g : RowsUpTo(l, schema, v, room, n, g)
  <1> DEFINE S == {k \in Nat : \E g : RowsUpTo(l, schema, v, room, k, g)}
             F(x, i) == RowField(x, l, schema, v, room, i)
  <1>1. 0 \in S
    <2>1. RowsUpTo(l, schema, v, room, 0, [i \in 0..0 |-> Cleared(l)])
      BY DEF RowsUpTo
    <2> QED
      BY <2>1
  <1>2. ASSUME NEW k \in Nat, k \in S PROVE k + 1 \in S
    <2>1. PICK g : RowsUpTo(l, schema, v, room, k, g)
      BY <1>2
    <2> DEFINE h == [i \in 0..(k + 1) |-> IF i = k + 1 THEN F(g[k], k + 1) ELSE g[i]]
    <2>2. ASSUME NEW i \in 0..(k + 1)
          PROVE  h[i] = IF i = 0 THEN Cleared(l) ELSE F(h[i - 1], i)
      <3> HIDE DEF F
      <3>1. CASE i = k + 1
        <4>1. i - 1 \in 0..(k + 1) /\ i - 1 # k + 1 /\ i - 1 = k /\ i # 0
          BY <3>1
        <4>2. h[i - 1] = g[k]
          BY <4>1
        <4>3. h[i] = F(g[k], k + 1)
          BY <3>1
        <4> QED
          BY <3>1, <4>1, <4>2, <4>3
      <3>2. CASE i # k + 1
        <4>1. i \in 0..k /\ h[i] = g[i]
          BY <3>2
        <4>2. g[i] = IF i = 0 THEN Cleared(l) ELSE F(g[i - 1], i)
          BY <2>1, <4>1 DEF RowsUpTo, F
        <4>3. i # 0 => i - 1 \in 0..(k + 1) /\ i - 1 # k + 1 /\ h[i - 1] = g[i - 1]
          BY <4>1
        <4> QED
          BY <4>1, <4>2, <4>3
      <3> QED
        BY <3>1, <3>2
    <2>3. RowsUpTo(l, schema, v, room, k + 1, h)
      <3> HIDE DEF h
      <3>1. h = [i \in 0..(k + 1) |-> h[i]]
        BY DEF h
      <3> QED
        BY <2>2, <3>1 DEF RowsUpTo
    <2> QED
      BY <2>3
  <1>3. Nat \subseteq S
    <2> HIDE DEF S
    <2> QED
      BY <1>1, <1>2, Induction
  <1> QED
    BY <1>3

LEMMA RowAfterDef ==
  ASSUME NEW l, NEW schema, NEW v, NEW room, Len(schema) \in Nat
  PROVE  LET after == RowAfter(l, schema, v, room) IN
         /\ after[0] = Cleared(l)
         /\ \A i \in 1..Len(schema) : after[i] = RowField(after[i - 1], l, schema, v, room, i)
  <1> DEFINE n == Len(schema)
             g == CHOOSE h : RowsUpTo(l, schema, v, room, n, h)
             F(x, i) == RowField(x, l, schema, v, room, i)
             b == Cleared(l)
  <1>1. RowsUpTo(l, schema, v, room, n, g)
    <2>1. \E h : RowsUpTo(l, schema, v, room, n, h)
      BY RowsExist
    <2> QED
      BY <2>1
  <1>2. RowAfter(l, schema, v, room) = g
    BY DEF RowAfter, RowsUpTo
  <1>3. 0 \in 0..n /\ \A i \in 1..n : i \in 0..n /\ i # 0
    OBVIOUS
  <1> HIDE DEF g
  <1>4. g = [i \in 0..n |-> IF i = 0 THEN b ELSE F(g[i - 1], i)]
    BY <1>1 DEF RowsUpTo
  <1> HIDE DEF F, b, n
  <1>5. g[0] = b /\ \A i \in 1..n : g[i] = F(g[i - 1], i)
    <2>1. \A i \in 0..n : g[i] = IF i = 0 THEN b ELSE F(g[i - 1], i)
      BY <1>4
    <2> QED
      BY <1>3, <2>1
  <1> QED
    BY <1>2, <1>5 DEF F, b, n

-----------------------------------------------------------------------------
(* What the loop over the fields leaves *)

\* A layout that has a place and a bit for each field of the schema.
LayoutSuits(l, schema) ==
  /\ Len(schema) \in Nat /\ DOMAIN schema = 1..Len(schema)
  /\ l.count = Len(schema)
  /\ l.bitmap \in Nat /\ l.rowFixed \in Nat /\ l.bitmap <= l.rowFixed
  /\ \A i \in 1..Len(schema) :
       /\ l.offset[i] \in Nat /\ l.size[i] \in Nat
       /\ l.bitmap <= l.offset[i]
       /\ l.offset[i] + l.size[i] <= l.rowFixed
       /\ l.variable[i] => l.size[i] = 8
       /\ \A j \in 1..Len(schema) : i < j => l.offset[i] + l.size[i] <= l.offset[j]
       /\ NullBit(schema, i) \in Nat
       /\ schema[i].nullable => NullBit(schema, i) \div 8 < l.bitmap

LEMMA BuiltSuits ==
  ASSUME NEW fields \in FieldSchemas, NEW schema,
         Len(schema) \in Nat, DOMAIN schema = 1..Len(schema),
         Len(fields) = Len(schema), BitsFit(BuildLayout(fields), schema)
  PROVE  LayoutSuits(BuildLayout(fields), schema)
  <1> DEFINE l == BuildLayout(fields)
             n == Len(schema)
             o == Offsets(fields)
  <1>1. n \in Nat /\ DOMAIN fields = 1..n /\ DOMAIN schema = 1..n
    BY SizesAreNat
  <1>2. /\ l.count = n /\ l.bitmap = BitmapSize(fields) /\ l.rowFixed = o[n]
        /\ \A i \in 1..n : /\ l.offset[i] = o[i - 1]
                           /\ l.size[i] = StorageSize(fields[i])
                           /\ l.variable[i] = fields[i].variable
    BY <1>1 DEF BuildLayout
  <1>3. BitmapSize(fields) \in Nat /\ \A i \in 1..n : StorageSize(fields[i]) \in Nat
    BY <1>1, SizesAreNat
  <1>4. \A j \in 0..n : o[j] \in Nat /\ \A i \in 0..j : o[i] <= o[j]
    BY OffsetsRise
  <1>5. o[0] = BitmapSize(fields)
    BY <1>1, OffsetsDef
  <1>6. RowFits(fields, l)
    BY EveryRowFits
  <1>7. BitsFit(l, schema)
    OBVIOUS
  <1> HIDE DEF l, n, o
  <1>8. l.bitmap \in Nat /\ l.rowFixed \in Nat /\ l.bitmap <= l.rowFixed
    <2>1. 0 \in 0..n /\ n \in 0..n
      BY <1>1
    <2> QED
      BY <1>2, <1>3, <1>4, <1>5, <2>1
  <1>9. ASSUME NEW i \in 1..n
        PROVE  /\ l.offset[i] \in Nat /\ l.size[i] \in Nat
               /\ l.bitmap <= l.offset[i]
               /\ l.offset[i] + l.size[i] <= l.rowFixed
               /\ l.variable[i] => l.size[i] = 8
               /\ \A j \in 1..n : i < j => l.offset[i] + l.size[i] <= l.offset[j]
               /\ NullBit(schema, i) \in Nat
               /\ schema[i].nullable => NullBit(schema, i) \div 8 < l.bitmap
    <2>1. i - 1 \in 0..n
      BY <1>1
    <2>2. l.offset[i] \in Nat /\ l.size[i] \in Nat
      BY <1>2, <1>3, <1>4, <2>1
    <2>3. l.variable[i] => l.size[i] = 8
      BY <1>2 DEF StorageSize, SlotSize
    <2>4. /\ l.bitmap <= l.offset[i]
          /\ l.offset[i] + l.size[i] <= l.rowFixed
          /\ \A j \in 1..n : i < j => l.offset[i] + l.size[i] <= l.offset[j]
      BY <1>1, <1>6 DEF RowFits
    <2>5. NullBit(schema, i) \in Nat
      <3> DEFINE S == {j \in 1..(i - 1) : schema[j].nullable}
      <3>1. i - 1 \in Int
        BY <1>1
      <3>2. IsFiniteSet(1..(i - 1))
        BY <3>1, FS_Interval
      <3>3. S \in SUBSET (1..(i - 1))
        OBVIOUS
      <3>4. IsFiniteSet(S)
        BY <3>2, <3>3, FS_Subset
      <3> QED
        BY <3>4, FS_CardinalityType DEF NullBit
    <2>6. schema[i].nullable => NullBit(schema, i) \div 8 < l.bitmap
      BY <1>1, <1>7 DEF BitsFit, HasBit
    <2> QED
      BY <2>2, <2>3, <2>4, <2>5, <2>6
  <1>10. LayoutSuits(l, schema)
    BY <1>1, <1>2, <1>8, <1>9 DEF LayoutSuits, n
  <1> QED
    BY <1>10 DEF l

\* Where a field is found by the header's entry, and by the row.
HeldAt(entry, row, l, schema, null, i) ==
  IF null
  THEN /\ entry = Entry(0, 0, 1)
       /\ NullBit(schema, i) % 8 \in BitsOf(row[NullBit(schema, i) \div 8 + 1])
  ELSE IF l.variable[i]
  THEN \E at \in Nat, size \in Nat :
         /\ at >= HeaderSize(schema)
         /\ entry = Entry(at, size, 0)
         /\ LieAt(row, l.offset[i], "u32", at - HeaderSize(schema), 4)
         /\ LieAt(row, l.offset[i] + 4, "u32", size, 4)
  ELSE entry = Entry(HeaderSize(schema) + l.offset[i], l.size[i], 0)

\* What is written for field j leaves the fields before it where they are.
LeavesBefore(old, new, l, j) ==
  /\ \A k \in 1..l.bitmap : BitsOf(old[k]) \subseteq BitsOf(new[k])
  /\ \A k \in (l.bitmap + 1)..l.offset[j] : new[k] = old[k]

LEMMA HeldStays ==
  ASSUME NEW l, NEW schema, LayoutSuits(l, schema), NEW j \in 1..Len(schema), NEW i \in 1..(j - 1),
         NEW old, NEW new, LeavesBefore(old, new, l, j),
         NEW entry, NEW null, null => schema[i].nullable,
         HeldAt(entry, old, l, schema, null, i)
  PROVE  HeldAt(entry, new, l, schema, null, i)
  <1> DEFINE b == NullBit(schema, i)
             o == l.offset[i]
  <1>1. /\ i \in 1..Len(schema) /\ i < j /\ j \in 1..Len(schema)
        /\ l.bitmap \in Nat /\ o \in Nat /\ l.offset[j] \in Nat /\ l.size[i] \in Nat
        /\ l.bitmap <= o /\ o + l.size[i] <= l.offset[j]
        /\ l.variable[i] => l.size[i] = 8
        /\ b \in Nat
        /\ schema[i].nullable => b \div 8 < l.bitmap
    <2>1. i \in 1..Len(schema) /\ i < j
      BY DEF LayoutSuits
    <2> QED
      BY <2>1 DEF LayoutSuits
  <1>2. CASE null
    <2>1. b \div 8 + 1 \in 1..l.bitmap
      BY <1>1, <1>2
    <2> QED
      BY <1>2, <2>1 DEF HeldAt, LeavesBefore
  <1>3. CASE ~null /\ l.variable[i]
    <2>1. PICK at \in Nat, size \in Nat :
            /\ at >= HeaderSize(schema)
            /\ entry = Entry(at, size, 0)
            /\ LieAt(old, o, "u32", at - HeaderSize(schema), 4)
            /\ LieAt(old, o + 4, "u32", size, 4)
      BY <1>3 DEF HeldAt
    <2>2. \A k \in 1..4 : /\ o + k \in (l.bitmap + 1)..l.offset[j]
                          /\ (o + 4) + k \in (l.bitmap + 1)..l.offset[j]
      <3> DEFINE m == l.bitmap
                 p == l.offset[j]
      <3>1. m \in Nat /\ o \in Nat /\ p \in Nat /\ m <= o /\ o + 8 <= p
        BY <1>1, <1>3
      <3> HIDE DEF m, o, p
      <3>2. \A k \in 1..4 : o + k \in (m + 1)..p /\ (o + 4) + k \in (m + 1)..p
        BY <3>1
      <3> QED
        BY <3>2 DEF m, p
    <2> HIDE DEF o
    <2>3. \A k \in 1..4 : new[o + k] = old[o + k] /\ new[(o + 4) + k] = old[(o + 4) + k]
      BY <2>2 DEF LeavesBefore
    <2>4. /\ LieAt(new, o, "u32", at - HeaderSize(schema), 4)
          /\ LieAt(new, o + 4, "u32", size, 4)
      BY <2>1, <2>3 DEF LieAt
    <2> QED
      BY <1>3, <2>1, <2>4 DEF HeldAt, o
  <1>4. CASE ~null /\ ~l.variable[i]
    BY <1>4 DEF HeldAt
  <1> QED
    BY <1>2, <1>3, <1>4

\* Field i of document v is null.
NullAt(schema, v, i) == ObjectGet(v, schema[i].name).type = "null"

\* Every writer leaves bytes and keeps within its room, and what is null may be.
WritersKeep(l, schema, v, room) ==
  \A i \in 1..Len(schema) :
    /\ NullAt(schema, v, i) => schema[i].nullable
    /\ \A r \in 0..room \cup {l.size[k] : k \in 1..Len(schema)} :
         LET w == WriteField(schema[i], ObjectGet(v, schema[i].name), r) IN
         w.ok => AnySeq(w.cells) /\ Len(w.cells) <= r

\* The state of the loop before field j + 1.
RowSoFar(acc, l, schema, v, room, j) ==
  /\ AnySeq(acc.entries) /\ Len(acc.entries) = j
  /\ AnySeq(acc.row) /\ Len(acc.row) = l.rowFixed
  /\ AnySeq(acc.payload) /\ Len(acc.payload) <= room
  /\ \A i \in 1..j : HeldAt(acc.entries[i], acc.row, l, schema, NullAt(schema, v, i), i)

\* What the writer of field i left is c.
Left(l, schema, v, room, i, c) ==
  /\ AnySeq(c)
  /\ \E r \in 0..room \cup {l.size[k] : k \in 1..Len(schema)} :
       LET w == WriteField(schema[i], ObjectGet(v, schema[i].name), r) IN w.ok /\ w.cells = c

\* Its cells are at the place that the entry has.
KeptAt(entry, row, payload, l, schema, v, room, i) ==
  \E c :
    /\ Left(l, schema, v, room, i, c)
    /\ l.variable[i] =>
         \E at \in Nat :
           /\ at + Len(c) <= Len(payload)
           /\ entry = Entry(HeaderSize(schema) + l.rowFixed + at, Len(c), 0)
           /\ \A k \in 1..Len(c) : payload[at + k] = c[k]
    /\ ~l.variable[i] =>
         /\ Len(c) = l.size[i]
         /\ entry = Entry(HeaderSize(schema) + l.offset[i], Len(c), 0)
         /\ \A k \in 1..Len(c) : row[l.offset[i] + k] = c[k]

KeptSoFar(acc, l, schema, v, room, j) ==
  \A i \in 1..j : ~NullAt(schema, v, i) =>
    KeptAt(acc.entries[i], acc.row, acc.payload, l, schema, v, room, i)

RowInvariant(acc, l, schema, v, room, j) ==
  acc.ok => RowSoFar(acc, l, schema, v, room, j) /\ KeptSoFar(acc, l, schema, v, room, j)

\* Payloads that come behind the ones there are.
Extends(old, new) == Len(old) <= Len(new) /\ \A k \in 1..Len(old) : new[k] = old[k]

LEMMA KeptStays ==
  ASSUME NEW l, NEW schema, LayoutSuits(l, schema), NEW j \in 1..Len(schema), NEW i \in 1..(j - 1),
         NEW row, NEW row2, LeavesBefore(row, row2, l, j),
         NEW payload, NEW payload2, AnySeq(payload), AnySeq(payload2), Extends(payload, payload2),
         NEW entry, NEW v, NEW room, KeptAt(entry, row, payload, l, schema, v, room, i)
  PROVE  KeptAt(entry, row2, payload2, l, schema, v, room, i)
  <1> DEFINE o == l.offset[i]
             m == l.bitmap
             p == l.offset[j]
             z == l.size[i]
             len == Len(payload)
  <1>1. m \in Nat /\ o \in Nat /\ p \in Nat /\ z \in Nat /\ m <= o /\ o + z <= p
    <2>1. i \in 1..Len(schema) /\ i < j
      BY DEF LayoutSuits
    <2> QED
      BY <2>1 DEF LayoutSuits
  <1>2. PICK c :
          /\ Left(l, schema, v, room, i, c)
          /\ l.variable[i] =>
               \E at \in Nat :
                 /\ at + Len(c) <= Len(payload)
                 /\ entry = Entry(HeaderSize(schema) + l.rowFixed + at, Len(c), 0)
                 /\ \A k \in 1..Len(c) : payload[at + k] = c[k]
          /\ ~l.variable[i] =>
               /\ Len(c) = l.size[i]
               /\ entry = Entry(HeaderSize(schema) + l.offset[i], Len(c), 0)
               /\ \A k \in 1..Len(c) : row[l.offset[i] + k] = c[k]
    BY DEF KeptAt
  <1>3. Len(c) \in Nat
    BY <1>2 DEF Left, AnySeq
  <1>4. len \in Nat /\ Len(payload2) \in Nat /\ len <= Len(payload2)
    BY DEF AnySeq, Extends
  <1>5. CASE l.variable[i]
    <2>1. PICK at \in Nat :
            /\ at + Len(c) <= len
            /\ entry = Entry(HeaderSize(schema) + l.rowFixed + at, Len(c), 0)
            /\ \A k \in 1..Len(c) : payload[at + k] = c[k]
      BY <1>2, <1>5
    <2> HIDE DEF len
    <2>2. at + Len(c) <= Len(payload2) /\ \A k \in 1..Len(c) : at + k \in 1..len
      BY <1>3, <1>4, <2>1
    <2>3. \A k \in 1..Len(c) : payload2[at + k] = c[k]
      BY <2>1, <2>2 DEF Extends, len
    <2> QED
      BY <1>2, <1>5, <2>1, <2>2, <2>3 DEF KeptAt
  <1>6. CASE ~l.variable[i]
    <2>1. Len(c) = z /\ \A k \in 1..Len(c) : row[o + k] = c[k]
      BY <1>2, <1>6
    <2> HIDE DEF o, m, p, z
    <2>2. \A k \in 1..Len(c) : o + k \in (m + 1)..p
      BY <1>1, <2>1
    <2>3. \A k \in 1..Len(c) : row2[o + k] = c[k]
      BY <2>1, <2>2 DEF LeavesBefore, m, p
    <2> QED
      BY <1>2, <1>6, <2>3 DEF KeptAt, o
  <1> QED
    BY <1>5, <1>6

\* One more entry, and a row that leaves the fields before it alone, will do.
LEMMA FieldAdded ==
  ASSUME NEW l, NEW schema, NEW v, NEW room, LayoutSuits(l, schema), WritersKeep(l, schema, v, room),
         NEW j \in 1..Len(schema), NEW entries, NEW payload, NEW row,
         RowSoFar(Partial(entries, payload, row), l, schema, v, room, j - 1),
         NEW entry, NEW payload2, NEW row2,
         AnySeq(row2), Len(row2) = Len(row), LeavesBefore(row, row2, l, j),
         AnySeq(payload2), Len(payload2) <= room,
         HeldAt(entry, row2, l, schema, NullAt(schema, v, j), j)
  PROVE  RowSoFar(Partial(Append(entries, entry), payload2, row2), l, schema, v, room, j)
  <1> DEFINE es == Append(entries, entry)
  <1>1. /\ AnySeq(entries) /\ Len(entries) = j - 1 /\ Len(row) = l.rowFixed
        /\ \A i \in 1..(j - 1) : HeldAt(entries[i], row, l, schema, NullAt(schema, v, i), i)
    BY DEF RowSoFar, Partial
  <1>2. /\ AnySeq(es)
        /\ Len(es) = Len(entries) + 1
        /\ \A k \in 1..Len(entries) : es[k] = entries[k]
        /\ es[Len(entries) + 1] = entry
    BY <1>1, AppendAny
  <1> HIDE DEF es
  <1>3. j \in Nat /\ j >= 1
    BY DEF LayoutSuits
  <1>4. Len(es) = j /\ es[j] = entry /\ \A i \in 1..(j - 1) : es[i] = entries[i]
    BY <1>1, <1>2, <1>3
  <1>5. ASSUME NEW i \in 1..j PROVE HeldAt(es[i], row2, l, schema, NullAt(schema, v, i), i)
    <2>1. CASE i = j
      BY <1>4, <2>1
    <2>2. CASE i # j
      <3>1. i \in 1..(j - 1) /\ i \in 1..Len(schema)
        BY <1>3, <2>2 DEF LayoutSuits
      <3>2. HeldAt(entries[i], row, l, schema, NullAt(schema, v, i), i)
        BY <1>1, <3>1
      <3>3. NullAt(schema, v, i) => schema[i].nullable
        BY <3>1 DEF WritersKeep
      <3>4. HeldAt(entries[i], row2, l, schema, NullAt(schema, v, i), i)
        BY <3>1, <3>2, <3>3, HeldStays
      <3> QED
        BY <1>4, <3>1, <3>4
    <2> QED
      BY <2>1, <2>2
  <1> QED
    BY <1>1, <1>2, <1>4, <1>5 DEF RowSoFar, Partial, es

\* So it is with what they hold.
LEMMA KeptAdded ==
  ASSUME NEW l, NEW schema, NEW v, NEW room, LayoutSuits(l, schema),
         NEW j \in 1..Len(schema), NEW entries, NEW payload, NEW row,
         AnySeq(entries), Len(entries) = j - 1, AnySeq(payload),
         KeptSoFar(Partial(entries, payload, row), l, schema, v, room, j - 1),
         NEW entry, NEW payload2, NEW row2,
         LeavesBefore(row, row2, l, j), AnySeq(payload2), Extends(payload, payload2),
         ~NullAt(schema, v, j) => KeptAt(entry, row2, payload2, l, schema, v, room, j)
  PROVE  KeptSoFar(Partial(Append(entries, entry), payload2, row2), l, schema, v, room, j)
  <1> DEFINE es == Append(entries, entry)
  <1>1. \A i \in 1..(j - 1) : ~NullAt(schema, v, i) =>
          KeptAt(entries[i], row, payload, l, schema, v, room, i)
    BY DEF KeptSoFar, Partial
  <1>2. /\ \A k \in 1..Len(entries) : es[k] = entries[k]
        /\ es[Len(entries) + 1] = entry
    BY AppendAny
  <1> HIDE DEF es
  <1>3. j \in Nat /\ j >= 1
    BY DEF LayoutSuits
  <1>4. es[j] = entry /\ \A i \in 1..(j - 1) : es[i] = entries[i]
    BY <1>2, <1>3
  <1>5. ASSUME NEW i \in 1..j, ~NullAt(schema, v, i)
        PROVE  KeptAt(es[i], row2, payload2, l, schema, v, room, i)
    <2>1. CASE i = j
      BY <1>4, <1>5, <2>1
    <2>2. CASE i # j
      <3>1. i \in 1..(j - 1)
        BY <1>3, <2>2
      <3>2. KeptAt(entries[i], row, payload, l, schema, v, room, i)
        BY <1>1, <1>5, <3>1
      <3>3. KeptAt(entries[i], row2, payload2, l, schema, v, room, i)
        BY <3>1, <3>2, KeptStays
      <3> QED
        BY <1>4, <3>1, <3>3
    <2> QED
      BY <2>1, <2>2
  <1> QED
    BY <1>5 DEF KeptSoFar, Partial, es

\* A field that is null.
LEMMA NullAdded ==
  ASSUME NEW l, NEW schema, NEW v, NEW room, LayoutSuits(l, schema), WritersKeep(l, schema, v, room),
         NEW j \in 1..Len(schema), NEW entries, NEW payload, NEW row,
         RowSoFar(Partial(entries, payload, row), l, schema, v, room, j - 1),
         KeptSoFar(Partial(entries, payload, row), l, schema, v, room, j - 1),
         NullAt(schema, v, j)
  PROVE  RowInvariant(WithNull(Partial(entries, payload, row), schema, j), l, schema, v, room, j)
  <1> DEFINE b == NullBit(schema, j)
             row2 == WithBit(row, b)
             e == Entry(0, 0, 1)
  <1>1. AnySeq(row) /\ Len(row) = l.rowFixed /\ AnySeq(payload) /\ Len(payload) <= room
    BY DEF RowSoFar, Partial
  <1>2. schema[j].nullable
    BY DEF WritersKeep
  <1>3. /\ l.bitmap \in Nat /\ l.rowFixed \in Nat /\ l.bitmap <= l.rowFixed
        /\ l.offset[j] \in Nat /\ l.size[j] \in Nat /\ l.offset[j] + l.size[j] <= l.rowFixed
        /\ b \in Nat /\ b \div 8 < l.bitmap
    BY <1>2 DEF LayoutSuits
  <1>4. WithNull(Partial(entries, payload, row), schema, j) = Partial(Append(entries, e), payload, row2)
    BY <1>2 DEF WithNull, Partial
  <1> HIDE DEF b, e
  <1>5. b \div 8 + 1 <= Len(row)
    BY <1>1, <1>3
  <1>6. /\ AnySeq(row2) /\ Len(row2) = Len(row)
        /\ b % 8 \in BitsOf(row2[b \div 8 + 1])
        /\ \A k \in 1..Len(row) : BitsOf(row[k]) \subseteq BitsOf(row2[k])
        /\ \A k \in 1..Len(row) : k # b \div 8 + 1 => row2[k] = row[k]
    BY <1>1, <1>3, <1>5, WithBitCells
  <1> HIDE DEF row2
  <1>7. LeavesBefore(row, row2, l, j)
    <2>1. \A k \in 1..l.bitmap : k \in 1..Len(row)
      BY <1>1, <1>3
    <2>2. \A k \in (l.bitmap + 1)..l.offset[j] : k \in 1..Len(row) /\ k # b \div 8 + 1
      BY <1>1, <1>3
    <2> QED
      BY <1>6, <2>1, <2>2 DEF LeavesBefore
  <1>8. HeldAt(e, row2, l, schema, NullAt(schema, v, j), j)
    BY <1>6 DEF HeldAt, b, e
  <1>9. RowSoFar(Partial(Append(entries, e), payload, row2), l, schema, v, room, j)
    BY <1>1, <1>6, <1>7, <1>8, FieldAdded
  <1>10. AnySeq(entries) /\ Len(entries) = j - 1
    BY DEF RowSoFar, Partial
  <1>11. Extends(payload, payload)
    BY <1>1 DEF Extends, AnySeq
  <1>12. KeptSoFar(Partial(Append(entries, e), payload, row2), l, schema, v, room, j)
    BY <1>1, <1>7, <1>10, <1>11, KeptAdded
  <1> QED
    BY <1>4, <1>9, <1>12 DEF RowInvariant

\* Cells laid over the place of field j leave the fields before it alone.
LEMMA OverlayLeaves ==
  ASSUME NEW l, NEW schema, LayoutSuits(l, schema), NEW j \in 1..Len(schema),
         NEW row, AnySeq(row), Len(row) = l.rowFixed,
         NEW cells, AnySeq(cells), Len(cells) = l.size[j]
  PROVE  LET row2 == Overlay(row, l.offset[j], cells) IN
         /\ AnySeq(row2) /\ Len(row2) = Len(row)
         /\ \A k \in 1..Len(cells) : row2[l.offset[j] + k] = cells[k]
         /\ LeavesBefore(row, row2, l, j)
  <1> DEFINE o == l.offset[j]
             row2 == Overlay(row, o, cells)
  <1>1. /\ l.bitmap \in Nat /\ l.bitmap <= o /\ o \in Nat /\ l.size[j] \in Nat
        /\ o + l.size[j] <= l.rowFixed /\ l.rowFixed \in Nat
    BY DEF LayoutSuits
  <1> HIDE DEF o
  <1>2. o + Len(cells) <= Len(row)
    BY <1>1
  <1>3. /\ AnySeq(row2) /\ Len(row2) = Len(row)
        /\ \A k \in 1..Len(cells) : row2[o + k] = cells[k]
        /\ \A k \in 1..Len(row) : k <= o \/ k > o + Len(cells) => row2[k] = row[k]
    BY <1>1, <1>2, OverlayCells
  <1> HIDE DEF row2
  <1>4. LeavesBefore(row, row2, l, j)
    <2>1. \A k \in 1..l.bitmap : k \in 1..Len(row) /\ k <= o
      BY <1>1
    <2>2. \A k \in (l.bitmap + 1)..o : k \in 1..Len(row) /\ k <= o
      BY <1>1
    <2>3. /\ \A k \in 1..l.bitmap : row2[k] = row[k]
          /\ \A k \in (l.bitmap + 1)..o : row2[k] = row[k]
      BY <1>3, <2>1, <2>2
    <2> QED
      BY <2>3 DEF LeavesBefore, o
  <1> QED
    BY <1>3, <1>4 DEF row2, o

\* A field in its own place of the row.
LEMMA FixedAdded ==
  ASSUME NEW l, NEW schema, NEW v, NEW room, LayoutSuits(l, schema), WritersKeep(l, schema, v, room),
         NEW j \in 1..Len(schema), NEW acc, RowSoFar(acc, l, schema, v, room, j - 1),
         KeptSoFar(acc, l, schema, v, room, j - 1),
         ~NullAt(schema, v, j), ~l.variable[j],
         NEW cells, Left(l, schema, v, room, j, cells), Len(cells) = l.size[j]
  PROVE  /\ RowSoFar(WithFixed(acc, l, schema, j, cells), l, schema, v, room, j)
         /\ KeptSoFar(WithFixed(acc, l, schema, j, cells), l, schema, v, room, j)
  <1> DEFINE row2 == Overlay(acc.row, l.offset[j], cells)
             e == Entry(HeaderSize(schema) + l.offset[j], Len(cells), 0)
  <1>1. /\ AnySeq(acc.row) /\ Len(acc.row) = l.rowFixed
        /\ AnySeq(acc.payload) /\ Len(acc.payload) <= room
        /\ RowSoFar(Partial(acc.entries, acc.payload, acc.row), l, schema, v, room, j - 1)
        /\ AnySeq(acc.entries) /\ Len(acc.entries) = j - 1
    BY DEF RowSoFar, Partial
  <1> AnySeq(cells)
    BY DEF Left
  <1>2. /\ AnySeq(row2) /\ Len(row2) = Len(acc.row)
        /\ LeavesBefore(acc.row, row2, l, j)
        /\ \A k \in 1..Len(cells) : row2[l.offset[j] + k] = cells[k]
    BY <1>1, OverlayLeaves
  <1>3. HeldAt(e, row2, l, schema, NullAt(schema, v, j), j)
    BY DEF HeldAt
  <1>4. WithFixed(acc, l, schema, j, cells) = Partial(Append(acc.entries, e), acc.payload, row2)
    BY DEF WithFixed
  <1>6. KeptAt(e, row2, acc.payload, l, schema, v, room, j)
    <2> HIDE DEF row2
    <2> QED
      BY <1>2 DEF KeptAt
  <1>7. KeptSoFar(Partial(acc.entries, acc.payload, acc.row), l, schema, v, room, j - 1)
    BY DEF KeptSoFar, Partial
  <1>8. Extends(acc.payload, acc.payload)
    BY <1>1 DEF Extends, AnySeq
  <1> HIDE DEF row2, e
  <1>5. RowSoFar(Partial(Append(acc.entries, e), acc.payload, row2), l, schema, v, room, j)
    BY <1>1, <1>2, <1>3, FieldAdded
  <1>9. KeptSoFar(Partial(Append(acc.entries, e), acc.payload, row2), l, schema, v, room, j)
    BY <1>1, <1>2, <1>6, <1>7, <1>8, KeptAdded
  <1> QED
    BY <1>4, <1>5, <1>9

\* A field behind the row, with a slot in it.
LEMMA VariableAdded ==
  ASSUME NEW l, NEW schema, NEW v, NEW room \in Nat, LayoutSuits(l, schema), WritersKeep(l, schema, v, room),
         NEW j \in 1..Len(schema), NEW acc, RowSoFar(acc, l, schema, v, room, j - 1),
         KeptSoFar(acc, l, schema, v, room, j - 1),
         ~NullAt(schema, v, j), l.variable[j],
         NEW cells, Left(l, schema, v, room, j, cells), Len(cells) <= room - Len(acc.payload)
  PROVE  /\ RowSoFar(WithVariable(acc, l, schema, j, cells), l, schema, v, room, j)
         /\ KeptSoFar(WithVariable(acc, l, schema, j, cells), l, schema, v, room, j)
  <1> DEFINE h == HeaderSize(schema)
             at == h + l.rowFixed + Len(acc.payload)
             s == Slot(at, cells, h)
             row2 == Overlay(acc.row, l.offset[j], s)
             e == Entry(at, Len(cells), 0)
             p == acc.payload \o cells
             o == l.offset[j]
  <1>1. /\ AnySeq(acc.row) /\ Len(acc.row) = l.rowFixed
        /\ AnySeq(acc.payload) /\ Len(acc.payload) <= room
        /\ RowSoFar(Partial(acc.entries, acc.payload, acc.row), l, schema, v, room, j - 1)
        /\ AnySeq(acc.entries) /\ Len(acc.entries) = j - 1
    BY DEF RowSoFar, Partial
  <1> AnySeq(cells)
    BY DEF Left
  <1>2. h \in Nat /\ l.rowFixed \in Nat /\ l.size[j] = 8 /\ o \in Nat
    BY DEF LayoutSuits, HeaderSize, EntrySize
  <1>3. Len(acc.payload) \in Nat /\ Len(cells) \in Nat
    BY <1>1 DEF AnySeq
  <1>4. at \in Nat /\ at >= h
    <2> DEFINE f == l.rowFixed
               q == Len(acc.payload)
    <2>1. h \in Nat /\ f \in Nat /\ q \in Nat
      BY <1>2, <1>3
    <2> HIDE DEF h, f, q
    <2>2. h + f + q \in Nat /\ h + f + q >= h
      BY <2>1
    <2> QED
      BY <2>2 DEF f, q
  <1>5. WithVariable(acc, l, schema, j, cells) = Partial(Append(acc.entries, e), p, row2)
    BY DEF WithVariable
  <1>6. /\ AnySeq(s) /\ Len(s) = 8
        /\ LieAt(s, 0, "u32", at - h, 4)
        /\ LieAt(s, 4, "u32", Len(cells), 4)
    <2> HIDE DEF at, h
    <2> QED
      BY SlotCells
  <1> HIDE DEF s, at, h, e, p
  <1>7. /\ AnySeq(row2) /\ Len(row2) = Len(acc.row)
        /\ LeavesBefore(acc.row, row2, l, j)
        /\ \A k \in 1..Len(s) : row2[o + k] = s[k]
    <2> DEFINE row == acc.row
    <2>1. AnySeq(row) /\ Len(row) = l.rowFixed /\ AnySeq(s) /\ Len(s) = l.size[j]
      BY <1>1, <1>2, <1>6
    <2> HIDE DEF row
    <2>2. LET r == Overlay(row, l.offset[j], s) IN
          /\ AnySeq(r) /\ Len(r) = Len(row)
          /\ \A k \in 1..Len(s) : r[l.offset[j] + k] = s[k]
          /\ LeavesBefore(row, r, l, j)
      BY <2>1, OverlayLeaves
    <2> QED
      BY <2>2 DEF row
  <1>8. /\ AnySeq(p) /\ Len(p) = Len(acc.payload) + Len(cells)
        /\ \A k \in 1..Len(acc.payload) : p[k] = acc.payload[k]
        /\ \A k \in 1..Len(cells) : p[Len(acc.payload) + k] = cells[k]
    <2>1. AnySeq(acc.payload)
      BY <1>1
    <2> QED
      BY <2>1, ConcatAny DEF p
  <1>9. Len(p) <= room
    BY <1>3, <1>8
  <1> HIDE DEF row2, o
  <1>10. LieAt(row2, o, "u32", at - h, 4) /\ LieAt(row2, o + 4, "u32", Len(cells), 4)
    <2>1. \A k \in 1..4 : /\ k \in 1..Len(s) /\ 4 + k \in 1..Len(s)
                          /\ 0 + k = k /\ (o + 4) + k = o + (4 + k)
      BY <1>2, <1>6
    <2>2. \A k \in 1..4 : row2[o + k] = s[0 + k] /\ row2[(o + 4) + k] = s[4 + k]
      BY <1>7, <2>1
    <2> QED
      BY <1>6, <2>2 DEF LieAt
  <1>11. HeldAt(e, row2, l, schema, NullAt(schema, v, j), j)
    BY <1>3, <1>4, <1>10 DEF HeldAt, e, h, o
  <1>12. RowSoFar(Partial(Append(acc.entries, e), p, row2), l, schema, v, room, j)
    BY <1>1, <1>7, <1>8, <1>9, <1>11, FieldAdded
  <1>13. KeptAt(e, row2, p, l, schema, v, room, j)
    <2>1. Len(acc.payload) + Len(cells) <= Len(p)
      BY <1>3, <1>8
    <2>2. \E q \in Nat :
            /\ q + Len(cells) <= Len(p)
            /\ e = Entry(HeaderSize(schema) + l.rowFixed + q, Len(cells), 0)
            /\ \A k \in 1..Len(cells) : p[q + k] = cells[k]
      <3>1. e = Entry(HeaderSize(schema) + l.rowFixed + Len(acc.payload), Len(cells), 0)
        BY DEF e, at, h
      <3> QED
        BY <1>3, <1>8, <2>1, <3>1
    <2> QED
      BY <2>2 DEF KeptAt
  <1>14. KeptSoFar(Partial(acc.entries, acc.payload, acc.row), l, schema, v, room, j - 1)
    BY DEF KeptSoFar, Partial
  <1>15. Extends(acc.payload, p)
    BY <1>3, <1>8 DEF Extends
  <1>16. KeptSoFar(Partial(Append(acc.entries, e), p, row2), l, schema, v, room, j)
    BY <1>1, <1>7, <1>8, <1>13, <1>14, <1>15, KeptAdded
  <1> QED
    BY <1>5, <1>12, <1>16

\* One pass of the loop.
LEMMA RowFieldKeeps ==
  ASSUME NEW l, NEW schema, NEW v, NEW room \in Nat, LayoutSuits(l, schema), WritersKeep(l, schema, v, room),
         NEW j \in 1..Len(schema), NEW acc, acc.ok \in BOOLEAN,
         RowInvariant(acc, l, schema, v, room, j - 1)
  PROVE  LET next == RowField(acc, l, schema, v, room, j) IN
         next.ok \in BOOLEAN /\ RowInvariant(next, l, schema, v, room, j)
  <1> DEFINE value == ObjectGet(v, schema[j].name)
             left == IF l.variable[j] THEN room - Len(acc.payload) ELSE l.size[j]
             w == WriteField(schema[j], value, left)
             next == RowField(acc, l, schema, v, room, j)
  <1>1. CASE ~acc.ok
    <2>1. next = acc
      BY <1>1 DEF RowField
    <2> QED
      BY <1>1, <2>1 DEF RowInvariant
  <1>2. CASE acc.ok
    <2>1. RowSoFar(acc, l, schema, v, room, j - 1) /\ KeptSoFar(acc, l, schema, v, room, j - 1)
      BY <1>2 DEF RowInvariant
    <2>2. next = WithRowField(acc, l, schema, j, NullAt(schema, v, j), w)
      BY <1>2 DEF RowField, NullAt
    <2>3. /\ RowSoFar(Partial(acc.entries, acc.payload, acc.row), l, schema, v, room, j - 1)
          /\ KeptSoFar(Partial(acc.entries, acc.payload, acc.row), l, schema, v, room, j - 1)
          /\ AnySeq(acc.payload) /\ Len(acc.payload) <= room
      BY <2>1 DEF RowSoFar, KeptSoFar, Partial
    <2>4. Len(acc.payload) \in Nat
      BY <2>3 DEF AnySeq
    <2>5. left \in 0..room \cup {l.size[k] : k \in 1..Len(schema)}
      <3>1. room - Len(acc.payload) \in 0..room
        BY <2>3, <2>4
      <3> QED
        BY <3>1
    <2>6. w.ok => AnySeq(w.cells) /\ Len(w.cells) <= left
      <3> HIDE DEF left
      <3> QED
        BY <2>5 DEF WritersKeep
    <2>11. w.ok => Left(l, schema, v, room, j, w.cells)
      <3> HIDE DEF left
      <3> QED
        BY <2>5, <2>6 DEF Left
    <2> HIDE DEF w, next
    <2>7. CASE NullAt(schema, v, j)
      <3>1. next = WithNull(acc, schema, j)
        BY <2>2, <2>7 DEF WithRowField
      <3>2. WithNull(Partial(acc.entries, acc.payload, acc.row), schema, j) = WithNull(acc, schema, j)
        BY DEF WithNull, Partial
      <3>3. RowInvariant(WithNull(Partial(acc.entries, acc.payload, acc.row), schema, j), l, schema, v, room, j)
        BY <2>3, <2>7, NullAdded
      <3>4. WithNull(acc, schema, j).ok = TRUE
        BY DEF WithNull, Partial
      <3> QED
        BY <3>1, <3>2, <3>3, <3>4 DEF next
    <2>8. CASE ~NullAt(schema, v, j) /\ (~w.ok \/ (~l.variable[j] /\ Len(w.cells) # l.size[j]))
      <3>1. next = Refused
        BY <2>2, <2>8 DEF WithRowField
      <3>2. next.ok = FALSE
        BY <3>1 DEF Refused
      <3> QED
        BY <3>2 DEF RowInvariant, next
    <2>9. CASE ~NullAt(schema, v, j) /\ w.ok /\ l.variable[j]
      <3>1. next = WithVariable(acc, l, schema, j, w.cells)
        BY <2>2, <2>9 DEF WithRowField
      <3>2. Left(l, schema, v, room, j, w.cells) /\ Len(w.cells) <= room - Len(acc.payload)
        BY <2>6, <2>9, <2>11
      <3>3. /\ RowSoFar(WithVariable(acc, l, schema, j, w.cells), l, schema, v, room, j)
            /\ KeptSoFar(WithVariable(acc, l, schema, j, w.cells), l, schema, v, room, j)
        BY <2>1, <2>9, <3>2, VariableAdded
      <3>4. WithVariable(acc, l, schema, j, w.cells).ok = TRUE
        BY DEF WithVariable, Partial
      <3> QED
        BY <3>1, <3>3, <3>4 DEF RowInvariant, next
    <2>10. CASE ~NullAt(schema, v, j) /\ w.ok /\ ~l.variable[j] /\ Len(w.cells) = l.size[j]
      <3>1. next = WithFixed(acc, l, schema, j, w.cells)
        BY <2>2, <2>10 DEF WithRowField
      <3>2. Left(l, schema, v, room, j, w.cells)
        BY <2>10, <2>11
      <3>3. /\ RowSoFar(WithFixed(acc, l, schema, j, w.cells), l, schema, v, room, j)
            /\ KeptSoFar(WithFixed(acc, l, schema, j, w.cells), l, schema, v, room, j)
        BY <2>1, <2>10, <3>2, FixedAdded
      <3>4. WithFixed(acc, l, schema, j, w.cells).ok = TRUE
        BY DEF WithFixed, Partial
      <3> QED
        BY <3>1, <3>3, <3>4 DEF RowInvariant, next
    <2> QED
      BY <2>7, <2>8, <2>9, <2>10
  <1> QED
    BY <1>1, <1>2

\* A row that is written holds every field where its entry and the row say.
LEMMA RowHolds ==
  ASSUME NEW l, NEW schema, NEW v, NEW room \in Nat, LayoutSuits(l, schema), WritersKeep(l, schema, v, room)
  PROVE  LET all == RowAfter(l, schema, v, room)[Len(schema)] IN
         all.ok => /\ RowSoFar(all, l, schema, v, room, Len(schema))
                   /\ KeptSoFar(all, l, schema, v, room, Len(schema))
  <1> DEFINE n == Len(schema)
             after == RowAfter(l, schema, v, room)
             S == {k \in Nat : k <= n => after[k].ok \in BOOLEAN /\ RowInvariant(after[k], l, schema, v, room, k)}
  <1>1. n \in Nat
    BY DEF LayoutSuits
  <1>2. /\ after[0] = Cleared(l)
        /\ \A i \in 1..n : after[i] = RowField(after[i - 1], l, schema, v, room, i)
    BY <1>1, RowAfterDef
  <1>3. 0 \in S
    <2> DEFINE c == Cleared(l)
    <2>1. c.ok = TRUE /\ c.entries = <<>> /\ c.payload = <<>> /\ c.row = Filled(Zero, l.rowFixed)
      BY DEF Cleared, Partial
    <2>2. AnySeq(<<>>) /\ Len(<<>>) = 0
      BY DEF AnySeq
    <2>3. l.rowFixed \in Nat
      BY DEF LayoutSuits
    <2>4. AnySeq(Filled(Zero, l.rowFixed)) /\ Len(Filled(Zero, l.rowFixed)) = l.rowFixed
      <3>1. l.rowFixed \in Int /\ ~(l.rowFixed < 0)
        BY <2>3
      <3> QED
        BY <3>1, FilledIsSeq
    <2> HIDE DEF c
    <2>5. RowSoFar(c, l, schema, v, room, 0)
      BY <2>1, <2>2, <2>4 DEF RowSoFar
    <2>6. KeptSoFar(c, l, schema, v, room, 0)
      BY DEF KeptSoFar
    <2> QED
      BY <1>2, <2>1, <2>5, <2>6 DEF RowInvariant, c
  <1>4. ASSUME NEW k \in Nat, k \in S PROVE k + 1 \in S
    <2> SUFFICES ASSUME k + 1 <= n
                 PROVE  after[k + 1].ok \in BOOLEAN /\ RowInvariant(after[k + 1], l, schema, v, room, k + 1)
      OBVIOUS
    <2>1. k + 1 \in 1..n /\ (k + 1) - 1 = k /\ k <= n
      BY <1>1
    <2>2. after[k].ok \in BOOLEAN /\ RowInvariant(after[k], l, schema, v, room, (k + 1) - 1)
      BY <1>4, <2>1
    <2> DEFINE acc == after[k]
               j == k + 1
    <2>3. after[k + 1] = RowField(acc, l, schema, v, room, j)
      BY <1>2, <2>1
    <2> HIDE DEF acc, j, after
    <2>4. acc.ok \in BOOLEAN /\ RowInvariant(acc, l, schema, v, room, j - 1) /\ j \in 1..Len(schema)
      BY <2>1, <2>2 DEF acc, j
    <2>5. LET next == RowField(acc, l, schema, v, room, j) IN
          next.ok \in BOOLEAN /\ RowInvariant(next, l, schema, v, room, j)
      BY <2>4, RowFieldKeeps
    <2> QED
      BY <2>3, <2>5 DEF j
  <1>5. Nat \subseteq S
    <2> HIDE DEF S
    <2> QED
      BY <1>3, <1>4, Induction
  <1>6. RowInvariant(after[n], l, schema, v, room, n)
    <2>1. n \in S
      <3> HIDE DEF S
      <3> QED
        BY <1>1, <1>5
    <2> QED
      BY <1>1, <2>1
  <1> QED
    BY <1>6 DEF RowInvariant

-----------------------------------------------------------------------------
(* Reading a row *)

\* What the header's entry and the row say of one field is the same: both find
\* nothing, or the same cells, or the row leaves it to the entry.
LEMMA EntryAgrees ==
  ASSUME NEW l, NEW schema, NEW v, NEW room \in Nat, LayoutSuits(l, schema),
         NEW acc, RowSoFar(acc, l, schema, v, room, Len(schema)),
         NEW i \in 1..Len(schema), NullAt(schema, v, i) => schema[i].nullable
  PROVE  LET blob == Whole4(schema, acc, room) IN
         \/ RowNull(l, schema, blob, i)
         \/ RowCells(l, schema, blob, i) = NoPayload
         \/ RowCells(l, schema, blob, i) = EntryPayload(schema, blob, i)
  <1> DEFINE blob == Whole4(schema, acc, room)
             h == HeaderSize(schema)
             o == l.offset[i]
             n == Len(schema)
             b == NullBit(schema, i)
  <1>1. /\ n \in Nat /\ l.rowFixed \in Nat /\ l.bitmap \in Nat /\ l.bitmap <= l.rowFixed
        /\ o \in Nat /\ l.size[i] \in Nat /\ o + l.size[i] <= l.rowFixed
        /\ l.variable[i] => l.size[i] = 8
        /\ b \in Nat
        /\ schema[i].nullable => b \div 8 < l.bitmap
    BY DEF LayoutSuits
  <1>2. /\ Len(acc.entries) = n /\ AnySeq(acc.row) /\ Len(acc.row) = l.rowFixed /\ AnySeq(acc.payload)
        /\ HeldAt(acc.entries[i], acc.row, l, schema, NullAt(schema, v, i), i)
    BY DEF RowSoFar
  <1>3. h \in Nat
    BY <1>1 DEF HeaderSize, EntrySize
  <1>4. /\ Len(blob) \in Nat
        /\ Len(blob) >= h + l.rowFixed
        /\ LoadU32(blob, 8) = n
        /\ \A k \in 1..12 : blob[12 + 12 * (i - 1) + k] = acc.entries[i][k]
        /\ \A k \in 1..l.rowFixed : blob[h + k] = acc.row[k]
    <2>1. /\ Len(schema) \in Nat /\ Len(acc.entries) = Len(schema)
          /\ AnySeq(acc.row) /\ AnySeq(acc.payload)
      BY <1>1, <1>2
    <2>2. LET x == Whole4(schema, acc, room) IN
          /\ Len(x) \in Nat
          /\ Len(x) >= HeaderSize(schema) + Len(acc.row)
          /\ LoadU32(x, 8) = Len(schema)
          /\ \A f \in 1..Len(schema), k \in 1..12 : x[12 + 12 * (f - 1) + k] = acc.entries[f][k]
          /\ \A k \in 1..Len(acc.row) : x[HeaderSize(schema) + k] = acc.row[k]
      BY <2>1, BlobCells
    <2> HIDE DEF blob
    <2> QED
      BY <1>2, <2>2 DEF blob
  <1>5. RowHeld(l, schema, blob) /\ ~(i > LoadU32(blob, 8)) /\ i \in Nat \ {0}
    <2>1. RowHeld(l, schema, blob)
      BY <1>4 DEF RowHeld
    <2>2. i \in Nat \ {0} /\ ~(i > n)
      BY <1>1
    <2> QED
      BY <1>4, <2>1, <2>2
  <1> DEFINE at == 12 + EntrySize * (i - 1)
  <1> HIDE DEF blob, h, o, n, b, at
  <1>6. ASSUME NEW offset, NEW size, NEW null, acc.entries[i] = Entry(offset, size, null)
        PROVE  /\ LoadU32(blob, at) = offset
               /\ LoadU32(blob, at + 4) = size
               /\ Load(blob, at + 8, "u8", 1) = null
    <2> i \in Nat \ {0}
      BY <1>5
    <2>1. EntryAt(blob, i, offset, size, null)
      BY <1>4, <1>6 DEF EntryAt
    <2>2. LET a == 12 + EntrySize * (i - 1) IN
          /\ LoadU32(blob, a) = offset
          /\ LoadU32(blob, a + 4) = size
          /\ Load(blob, a + 8, "u8", 1) = null
      BY <2>1, EntryLoads
    <2> QED
      BY <2>2 DEF at
  <1>7. CASE NullAt(schema, v, i)
    <2>1. schema[i].nullable /\ b % 8 \in BitsOf(acc.row[b \div 8 + 1])
      BY <1>2, <1>7 DEF HeldAt, b
    <2>2. b \div 8 + 1 \in 1..l.rowFixed /\ b \div 8 < l.bitmap
      BY <1>1, <2>1
    <2>3. blob[h + (b \div 8 + 1)] = acc.row[b \div 8 + 1]
      BY <1>4, <2>2
    <2>4. h + (b \div 8 + 1) = h + b \div 8 + 1
      BY <1>1, <1>3, <2>2
    <2>5. RowNull(l, schema, blob, i)
      BY <1>5, <2>1, <2>2, <2>3, <2>4 DEF RowNull, HasBit, h, b
    <2> QED
      BY <2>5 DEF blob
  <1>8. CASE ~NullAt(schema, v, i) /\ l.variable[i]
    <2>1. PICK place \in Nat, size \in Nat :
            /\ place >= h
            /\ acc.entries[i] = Entry(place, size, 0)
            /\ LieAt(acc.row, o, "u32", place - h, 4)
            /\ LieAt(acc.row, o + 4, "u32", size, 4)
      BY <1>2, <1>8 DEF HeldAt, h, o
    <2>2. \A k \in 1..4 : /\ o + k \in 1..l.rowFixed /\ (o + 4) + k \in 1..l.rowFixed
                          /\ h + (o + k) = (h + o) + k /\ h + ((o + 4) + k) = (h + o + 4) + k
      <3> DEFINE rf == l.rowFixed
      <3>1. h \in Nat /\ o \in Nat /\ rf \in Nat /\ o + 8 <= rf
        BY <1>1, <1>3, <1>8
      <3> HIDE DEF rf
      <3>2. \A k \in 1..4 : /\ o + k \in 1..rf /\ (o + 4) + k \in 1..rf
                            /\ h + (o + k) = (h + o) + k /\ h + ((o + 4) + k) = (h + o + 4) + k
        BY <3>1
      <3> QED
        BY <3>2 DEF rf
    <2>3. \A k \in 1..4 : /\ blob[(h + o) + k] = acc.row[o + k]
                          /\ blob[(h + o + 4) + k] = acc.row[(o + 4) + k]
      <3> TAKE k \in 1..4
      <3>1. blob[h + (o + k)] = acc.row[o + k] /\ blob[h + ((o + 4) + k)] = acc.row[(o + 4) + k]
        BY <1>4, <2>2
      <3>2. h + (o + k) = (h + o) + k /\ h + ((o + 4) + k) = (h + o + 4) + k
        BY <2>2
      <3> QED
        BY <3>1, <3>2
    <2>4. LieAt(blob, h + o, "u32", place - h, 4) /\ LieAt(blob, h + o + 4, "u32", size, 4)
      BY <2>1, <2>3 DEF LieAt
    <2>5. h + o \in Nat /\ h + o + 4 \in Nat
      BY <1>1, <1>3
    <2>6. LoadU32(blob, h + o) = place - h /\ LoadU32(blob, h + o + 4) = size
      BY <2>4, <2>5, U32Read
    <2>7. h + (place - h) = place
      BY <1>3, <2>1
    <2>8. EntryPayload(schema, blob, i) = Payload(schema[i], Slice(blob, place, size))
      <3>1. LoadU32(blob, at) = place /\ LoadU32(blob, at + 4) = size /\ Load(blob, at + 8, "u8", 1) = 0
        BY <1>6, <2>1
      <3> QED
        BY <1>5, <3>1 DEF EntryPayload, at
    <2>9. \/ RowCells(l, schema, blob, i) = NoPayload
          \/ RowCells(l, schema, blob, i) = Payload(schema[i], Slice(blob, h + (place - h), size))
      BY <1>8, <2>6 DEF RowCells, h, o
    <2> QED
      BY <2>7, <2>8, <2>9 DEF blob
  <1>9. CASE ~NullAt(schema, v, i) /\ ~l.variable[i]
    <2>1. acc.entries[i] = Entry(h + o, l.size[i], 0)
      BY <1>2, <1>9 DEF HeldAt, h, o
    <2>2. EntryPayload(schema, blob, i) = Payload(schema[i], Slice(blob, h + o, l.size[i]))
      <3>1. LoadU32(blob, at) = h + o /\ LoadU32(blob, at + 4) = l.size[i] /\ Load(blob, at + 8, "u8", 1) = 0
        BY <1>6, <2>1
      <3> QED
        BY <1>5, <3>1 DEF EntryPayload, at
    <2>3. \/ RowCells(l, schema, blob, i) = NoPayload
          \/ RowCells(l, schema, blob, i) = Payload(schema[i], Slice(blob, h + o, l.size[i]))
      BY <1>9 DEF RowCells, h, o
    <2> QED
      BY <2>2, <2>3 DEF blob
  <1> QED
    BY <1>7, <1>8, <1>9

\* The entry of a field leads to what its writer left, and to nothing if the
\* field is null.
EntryGives(l, schema, v, room, blob, i) ==
  IF NullAt(schema, v, i) THEN EntryPayload(schema, blob, i) = NoPayload
  ELSE \E c : Left(l, schema, v, room, i, c) /\ EntryPayload(schema, blob, i) = Payload(schema[i], c)

LEMMA EntryGivesBack ==
  ASSUME NEW l, NEW schema, NEW v, NEW room \in Nat, LayoutSuits(l, schema),
         NEW acc, RowSoFar(acc, l, schema, v, room, Len(schema)),
         KeptSoFar(acc, l, schema, v, room, Len(schema)),
         NEW i \in 1..Len(schema)
  PROVE  EntryGives(l, schema, v, room, Whole4(schema, acc, room), i)
  <1> DEFINE blob == Whole4(schema, acc, room)
             h == HeaderSize(schema)
             o == l.offset[i]
             n == Len(schema)
             rf == l.rowFixed
             at == 12 + EntrySize * (i - 1)
  <1>1. n \in Nat /\ rf \in Nat /\ o \in Nat /\ o + l.size[i] <= rf /\ l.size[i] \in Nat
    BY DEF LayoutSuits
  <1>2. /\ Len(acc.entries) = n /\ AnySeq(acc.row) /\ Len(acc.row) = rf /\ AnySeq(acc.payload)
        /\ HeldAt(acc.entries[i], acc.row, l, schema, NullAt(schema, v, i), i)
    BY DEF RowSoFar
  <1>3. h \in Nat
    BY <1>1 DEF HeaderSize, EntrySize
  <1>4. /\ LoadU32(blob, 8) = n
        /\ \A k \in 1..12 : blob[12 + 12 * (i - 1) + k] = acc.entries[i][k]
        /\ \A k \in 1..rf : blob[h + k] = acc.row[k]
        /\ \A k \in 1..Len(acc.payload) : blob[h + rf + k] = acc.payload[k]
    <2>1. /\ Len(schema) \in Nat /\ Len(acc.entries) = Len(schema)
          /\ AnySeq(acc.row) /\ AnySeq(acc.payload)
      BY <1>1, <1>2
    <2>2. LET x == Whole4(schema, acc, room) IN
          /\ LoadU32(x, 8) = Len(schema)
          /\ \A f \in 1..Len(schema), k \in 1..12 : x[12 + 12 * (f - 1) + k] = acc.entries[f][k]
          /\ \A k \in 1..Len(acc.row) : x[HeaderSize(schema) + k] = acc.row[k]
          /\ \A k \in 1..Len(acc.payload) : x[HeaderSize(schema) + Len(acc.row) + k] = acc.payload[k]
      BY <2>1, BlobCells
    <2> HIDE DEF blob
    <2> QED
      BY <1>2, <2>2 DEF blob
  <1>5. ~(i > n) /\ i \in Nat \ {0}
    BY <1>1
  <1> HIDE DEF blob, h, o, n, at, rf
  <1>6. ASSUME NEW offset, NEW size, NEW null, acc.entries[i] = Entry(offset, size, null)
        PROVE  EntryPayload(schema, blob, i)
               = IF null # 0 THEN NoPayload ELSE Payload(schema[i], Slice(blob, offset, size))
    <2> i \in Nat \ {0}
      BY <1>5
    <2>1. EntryAt(blob, i, offset, size, null)
      BY <1>4, <1>6 DEF EntryAt
    <2>2. LET a == 12 + EntrySize * (i - 1) IN
          /\ LoadU32(blob, a) = offset
          /\ LoadU32(blob, a + 4) = size
          /\ Load(blob, a + 8, "u8", 1) = null
      BY <2>1, EntryLoads
    <2>3. /\ LoadU32(blob, at) = offset
          /\ LoadU32(blob, at + 4) = size
          /\ Load(blob, at + 8, "u8", 1) = null
      BY <2>2 DEF at
    <2>4. ~(i > LoadU32(blob, 8))
      BY <1>4, <1>5
    <2> QED
      BY <2>3, <2>4 DEF EntryPayload, at
  <1>7. CASE NullAt(schema, v, i)
    <2>1. acc.entries[i] = Entry(0, 0, 1)
      BY <1>2, <1>7 DEF HeldAt
    <2>2. EntryPayload(schema, blob, i) = NoPayload
      BY <1>6, <2>1
    <2>3. EntryGives(l, schema, v, room, blob, i)
      BY <1>7, <2>2 DEF EntryGives
    <2> QED
      BY <2>3 DEF blob
  <1>8. CASE ~NullAt(schema, v, i)
    <2>1. KeptAt(acc.entries[i], acc.row, acc.payload, l, schema, v, room, i)
      BY <1>8 DEF KeptSoFar
    <2>2. PICK c : /\ Left(l, schema, v, room, i, c)
                   /\ l.variable[i] =>
                        \E a \in Nat :
                          /\ a + Len(c) <= Len(acc.payload)
                          /\ acc.entries[i] = Entry(h + rf + a, Len(c), 0)
                          /\ \A k \in 1..Len(c) : acc.payload[a + k] = c[k]
                   /\ ~l.variable[i] =>
                        /\ Len(c) = l.size[i]
                        /\ acc.entries[i] = Entry(h + o, Len(c), 0)
                        /\ \A k \in 1..Len(c) : acc.row[o + k] = c[k]
      BY <2>1 DEF KeptAt, h, rf, o
    <2>3. AnySeq(c) /\ Len(c) \in Nat
      BY <2>2 DEF Left, AnySeq
    <2>4. ASSUME NEW place \in Nat, acc.entries[i] = Entry(place, Len(c), 0),
                 CellsLie(blob, place, c)
          PROVE  EntryPayload(schema, blob, i) = Payload(schema[i], c)
      <3>1. Slice(blob, place, Len(c)) = c
        BY <2>3, <2>4, SliceIs
      <3>2. EntryPayload(schema, blob, i) = Payload(schema[i], Slice(blob, place, Len(c)))
        BY <1>6, <2>4
      <3> QED
        BY <3>1, <3>2
    <2>5. ASSUME l.variable[i] PROVE EntryPayload(schema, blob, i) = Payload(schema[i], c)
      <3>1. PICK a \in Nat :
              /\ a + Len(c) <= Len(acc.payload)
              /\ acc.entries[i] = Entry(h + rf + a, Len(c), 0)
              /\ \A k \in 1..Len(c) : acc.payload[a + k] = c[k]
        BY <2>2, <2>5
      <3>2. Len(acc.payload) \in Nat /\ h + rf + a \in Nat
        BY <1>1, <1>2, <1>3 DEF AnySeq
      <3>3. ASSUME NEW k \in 1..Len(c) PROVE blob[(h + rf + a) + k] = c[k]
        <4>1. a + k \in 1..Len(acc.payload) /\ h + rf + (a + k) = (h + rf + a) + k
          BY <1>1, <1>3, <2>3, <3>1, <3>2
        <4>2. blob[h + rf + (a + k)] = acc.payload[a + k]
          BY <1>4, <4>1
        <4> QED
          BY <3>1, <4>1, <4>2
      <3>4. CellsLie(blob, h + rf + a, c)
        BY <3>3 DEF CellsLie
      <3> QED
        BY <2>4, <3>1, <3>2, <3>4
    <2>6. ASSUME ~l.variable[i] PROVE EntryPayload(schema, blob, i) = Payload(schema[i], c)
      <3>1. /\ Len(c) = l.size[i]
            /\ acc.entries[i] = Entry(h + o, Len(c), 0)
            /\ \A k \in 1..Len(c) : acc.row[o + k] = c[k]
        BY <2>2, <2>6
      <3>2. h + o \in Nat
        BY <1>1, <1>3
      <3>3. ASSUME NEW k \in 1..Len(c) PROVE blob[(h + o) + k] = c[k]
        <4>1. o + k \in 1..rf /\ h + (o + k) = (h + o) + k
          BY <1>1, <1>3, <2>3, <3>1
        <4>2. blob[h + (o + k)] = acc.row[o + k]
          BY <1>4, <4>1
        <4> QED
          BY <3>1, <4>1, <4>2
      <3>4. CellsLie(blob, h + o, c)
        BY <3>3 DEF CellsLie
      <3> QED
        BY <2>4, <3>1, <3>2, <3>4
    <2>7. EntryPayload(schema, blob, i) = Payload(schema[i], c)
      BY <2>5, <2>6
    <2>8. EntryGives(l, schema, v, room, blob, i)
      BY <1>8, <2>2, <2>7 DEF EntryGives
    <2> QED
      BY <2>8 DEF blob
  <1> QED
    BY <1>7, <1>8

\* The first of several places.
LEMMA FirstOf ==
  ASSUME NEW n \in Nat, NEW S, S \subseteq 1..n, S # {}
  PROVE  FirstIn(S) \in S
  <1>1. S \subseteq Nat
    OBVIOUS
  <1>2. \E i \in S : \A j \in S : i <= j
    BY <1>1, LeastOf
  <1> QED
    BY <1>2 DEF FirstIn

\* A path of one name leads where the name does.
LEMMA OneName ==
  ASSUME NEW schema, NEW blob, NEW path, Len(path) = 1
  PROVE  PathPayload(schema, blob, path) = NamedPayload(schema, blob, path[1])
  <1> DEFINE x == NamedPayload(schema, blob, path[1])
             F(p, k) == Further(p, path[k])
             IsWalk(g) == g = [k \in 1..Len(path) |-> IF k = 1 THEN x ELSE F(g[k - 1], k)]
             w == CHOOSE g : IsWalk(g)
  <1>1. PathPayload(schema, blob, path) = w[1]
    BY DEF PathPayload
  <1> HIDE DEF x, F
  <1>2. 1..Len(path) = {1}
    OBVIOUS
  <1>3. IsWalk([k \in {1} |-> x])
    <2> DEFINE g == [k \in {1} |-> x]
    <2>1. g = [k \in {1} |-> IF k = 1 THEN x ELSE F(g[k - 1], k)]
      OBVIOUS
    <2> QED
      BY <1>2, <2>1
  <1>4. IsWalk(w)
    BY <1>3
  <1>5. w[1] = x
    <2> HIDE DEF w
    <2>1. w = [k \in {1} |-> IF k = 1 THEN x ELSE F(w[k - 1], k)]
      BY <1>2, <1>4
    <2> QED
      BY <2>1
  <1> QED
    BY <1>1, <1>5 DEF x

\* Whether a field is read by the layout or by the header, it is the same field
\* and the same cells.
LEMMA RowReadsAsEntries ==
  ASSUME NEW l, NEW schema, NEW v, NEW room \in Nat, LayoutSuits(l, schema),
         NEW acc, RowSoFar(acc, l, schema, v, room, Len(schema)),
         \A i \in 1..Len(schema) : NullAt(schema, v, i) => schema[i].nullable,
         NEW path, Len(path) \in Nat \ {0}
  PROVE  LET blob == Whole4(schema, acc, room) IN
         FieldPayload({l}, schema, blob, path) = PathPayload(schema, blob, path)
  <1> DEFINE blob == Whole4(schema, acc, room)
             places == FieldIndex(schema, path[1])
             i == FirstIn(places)
             r == RowPayload(l, schema, blob, path)
  <1>1. \/ FieldPayload({l}, schema, blob, path) = PathPayload(schema, blob, path)
        \/ r.ok /\ FieldPayload({l}, schema, blob, path) = r
    <2>1. (CHOOSE x \in {l} : TRUE) = l
      OBVIOUS
    <2> QED
      BY <2>1 DEF FieldPayload
  <1>2. ASSUME r.ok PROVE r = PathPayload(schema, blob, path)
    <2>1. NoPayload.ok = FALSE
      BY DEF NoPayload
    <2>2. /\ ~(Len(path) > 1) /\ places # {}
          /\ ~RowNull(l, schema, blob, i)
          /\ r = RowCells(l, schema, blob, i)
      BY <1>2, <2>1 DEF RowPayload
    <2>3. Len(path) = 1
      BY <2>2
    <2>4. i \in 1..Len(schema)
      <3>1. Len(schema) \in Nat /\ places \subseteq 1..Len(schema)
        BY DEF LayoutSuits, FieldIndex
      <3> HIDE DEF places
      <3>2. i \in places
        BY <2>2, <3>1, FirstOf
      <3> QED
        BY <3>1, <3>2
    <2>5. r = EntryPayload(schema, blob, i)
      <3>1. NullAt(schema, v, i) => schema[i].nullable
        BY <2>4
      <3> HIDE DEF i
      <3>2. \/ RowNull(l, schema, blob, i)
            \/ RowCells(l, schema, blob, i) = NoPayload
            \/ RowCells(l, schema, blob, i) = EntryPayload(schema, blob, i)
        BY <2>4, <3>1, EntryAgrees
      <3> QED
        BY <1>2, <2>1, <2>2, <3>2 DEF i
    <2>6. NamedPayload(schema, blob, path[1]) = EntryPayload(schema, blob, i)
      BY <2>2 DEF NamedPayload
    <2>7. PathPayload(schema, blob, path) = NamedPayload(schema, blob, path[1])
      <3> HIDE DEF blob
      <3> QED
        BY <2>3, OneName
    <2> QED
      BY <2>5, <2>6, <2>7
  <1> QED
    BY <1>1, <1>2

-----------------------------------------------------------------------------
(* Rows of accepted documents *)

\* What the writers assume, in the words of the loop.
LEMMA AcceptedKept ==
  ASSUME NEW s \in Schemas, NEW text \in Accepted(s), NEW u \in CollectionSchemas,
         Built[u].count = Len(SchemaOf[s]),
         LayoutSuits(Built[u], SchemaOf[s]),
         RowSize(Built[u], SchemaOf[s], ParseText(text).value) # Bad
  PROVE  LET l == Built[u]
             schema == SchemaOf[s]
             v == ParseText(text).value
             room == RowRoom(l, schema, RowSize(l, schema, v))
         IN room \in Nat /\ WritersKeep(l, schema, v, room)
  <1> DEFINE l == Built[u]
             schema == SchemaOf[s]
             v == ParseText(text).value
             n == Len(schema)
             size == RowSize(l, schema, v)
             room == RowRoom(l, schema, size)
  <1>1. n \in Nat /\ DOMAIN schema = 1..n /\ l.rowFixed \in Nat
    BY DEF LayoutSuits
  <1>2. ASSUME NEW i \in 1..n
        PROVE  LET field == schema[i]
                   value == ObjectGet(v, field.name)
               IN /\ value.type = "null" => field.nullable
                  /\ FieldSize(field, value) \in Nat \cup {Bad}
                  /\ \A r \in Rooms(l, schema, v) :
                       LET w == WriteField(field, value, r) IN
                       w.ok => /\ Len(w.cells) \in 0..r
                               /\ w.cells = [k \in 1..Len(w.cells) |-> w.cells[k]]
    <2>1. i \in DOMAIN SchemaOf[s]
      BY <1>1
    <2> QED
      BY <2>1, WriterAssumption
  <1>3. HeaderSize(schema) \in Nat /\ RowBase(l, schema) \in Nat
        /\ RowBase(l, schema) = HeaderSize(schema) + l.rowFixed
    BY <1>1 DEF RowBase, HeaderSize, EntrySize
  <1>4. \A i \in 1..n : FieldSize(schema[i], ObjectGet(v, schema[i].name)) \in Nat \cup {Bad}
    BY <1>2
  <1> HIDE DEF l, schema, v
  <1>5. size = Bad \/ (size \in Nat /\ size >= RowBase(l, schema))
    BY <1>1, <1>3, <1>4, RowSizeEnough
  <1>6. size # Bad
    BY DEF l, schema, v
  <1> HIDE DEF size
  <1>7. room \in Nat
    BY <1>1, <1>3, <1>5, <1>6 DEF RowRoom
  <1>8. Rooms(l, schema, v) = 0..room \cup {l.size[k] : k \in 1..n}
    BY <1>1 DEF Rooms, size
  <1> HIDE DEF room, n
  <1>9. ASSUME NEW i \in 1..n
        PROVE  /\ NullAt(schema, v, i) => schema[i].nullable
               /\ \A r \in 0..room \cup {l.size[k] : k \in 1..n} :
                    LET w == WriteField(schema[i], ObjectGet(v, schema[i].name), r) IN
                    w.ok => AnySeq(w.cells) /\ Len(w.cells) <= r
    <2>1. NullAt(schema, v, i) => schema[i].nullable
      BY <1>2 DEF NullAt
    <2>2. ASSUME NEW r \in 0..room \cup {l.size[k] : k \in 1..n},
                 WriteField(schema[i], ObjectGet(v, schema[i].name), r).ok
          PROVE  LET w == WriteField(schema[i], ObjectGet(v, schema[i].name), r) IN
                 AnySeq(w.cells) /\ Len(w.cells) <= r
      <3> DEFINE w == WriteField(schema[i], ObjectGet(v, schema[i].name), r)
      <3>1. Len(w.cells) \in 0..r /\ w.cells = [k \in 1..Len(w.cells) |-> w.cells[k]]
        BY <1>2, <1>8, <2>2
      <3>2. r \in Int
        <4>1. \A k \in 1..n : l.size[k] \in Nat
          BY DEF LayoutSuits, l, schema, n
        <4> QED
          BY <1>7, <4>1
      <3> HIDE DEF w
      <3>3. Len(w.cells) \in Nat /\ Len(w.cells) <= r
        BY <3>1, <3>2
      <3>4. AnySeq(w.cells)
        BY <3>1, <3>3 DEF AnySeq
      <3> QED
        BY <3>3, <3>4 DEF w
    <2> QED
      BY <2>1, <2>2
  <1>10. WritersKeep(l, schema, v, room)
    BY <1>9 DEF WritersKeep, n
  <1> QED
    BY <1>7, <1>10 DEF l, schema, v, room, size

\* The row of an accepted document, as the loop over its fields left it.
RowKept(l, schema, v, all) ==
  LET room == RowRoom(l, schema, RowSize(l, schema, v)) IN
  /\ LayoutSuits(l, schema)
  /\ room \in Nat /\ WritersKeep(l, schema, v, room)
  /\ RowSoFar(all, l, schema, v, room, Len(schema))
  /\ KeptSoFar(all, l, schema, v, room, Len(schema))
  /\ SerializeRow(l, schema, v).cells = Whole4(schema, all, room)

LEMMA AcceptedRow ==
  ASSUME NEW s \in Schemas, NEW text \in Accepted(s), NEW u \in CollectionSchemas,
         BitsFit(Built[u], SchemaOf[s]),
         SerializeRow(Built[u], SchemaOf[s], ParseText(text).value).ok
  PROVE  \E all : RowKept(Built[u], SchemaOf[s], ParseText(text).value, all)
  <1> DEFINE l == Built[u]
             schema == SchemaOf[s]
             v == ParseText(text).value
             size == RowSize(l, schema, v)
             room == RowRoom(l, schema, size)
             all == RowAfter(l, schema, v, room)[Len(schema)]
             row == SerializeRow(l, schema, v)
  <1>1. Refused.ok = FALSE
    BY DEF Refused
  <1>2. l.count = Len(schema) /\ size # Bad /\ all.ok /\ row = RowEnd(schema, room, all)
    BY <1>1 DEF SerializeRow, RowOf, RowEnd
  <1>3. row.cells = Whole4(schema, all, room)
    <2> HIDE DEF all, room, row, schema, l, v, size
    <2>1. row = Written(Whole4(schema, all, room))
      BY <1>2 DEF RowEnd, Whole4
    <2> QED
      BY <2>1 DEF Written
  <1>4. Len(schema) \in Nat /\ DOMAIN schema = 1..Len(schema)
    BY RowStoreAssumption
  <1>5. LayoutSuits(l, schema)
    <2>1. FieldsOf[u] \in FieldSchemas /\ l = BuildLayout(FieldsOf[u])
      BY SchemasTyped DEF Built
    <2>2. Len(FieldsOf[u]) = Len(schema)
      <3>1. BuildLayout(FieldsOf[u]).count = Len(FieldsOf[u])
        BY DEF BuildLayout
      <3> HIDE DEF schema, l
      <3> QED
        BY <1>2, <2>1, <3>1
    <2>3. BitsFit(BuildLayout(FieldsOf[u]), schema)
      BY <2>1
    <2> HIDE DEF schema, l
    <2>4. LayoutSuits(BuildLayout(FieldsOf[u]), schema)
      BY <1>4, <2>1, <2>2, <2>3, BuiltSuits
    <2> QED
      BY <2>1, <2>4
  <1>6. room \in Nat /\ WritersKeep(l, schema, v, room)
    BY <1>2, <1>5, AcceptedKept
  <1> HIDE DEF l, schema, v, room
  <1>7. /\ RowSoFar(all, l, schema, v, room, Len(schema))
        /\ KeptSoFar(all, l, schema, v, room, Len(schema))
    BY <1>2, <1>5, <1>6, RowHolds
  <1> HIDE DEF all, size
  <1>8. RowKept(l, schema, v, all)
    <2>1. room = RowRoom(l, schema, RowSize(l, schema, v)) /\ row = SerializeRow(l, schema, v)
      BY DEF room, size
    <2> QED
      BY <1>3, <1>5, <1>6, <1>7, <2>1 DEF RowKept
  <1> QED
    BY <1>8 DEF l, schema, v

\* In a row of a document that was accepted, whatever schema it is of and
\* whatever layout it has, every path leads by the layout where it leads by the
\* entries of the header, as long as the bitmap has a bit for every nullable
\* field.
THEOREM RowsReadAsEntries ==
  ASSUME NEW s \in Schemas, NEW text \in Accepted(s), NEW u \in CollectionSchemas,
         BitsFit(Built[u], SchemaOf[s]), NEW path, Len(path) \in Nat \ {0}
  PROVE  LET row == SerializeRow(Built[u], SchemaOf[s], ParseText(text).value) IN
         row.ok => FieldPayload({Built[u]}, SchemaOf[s], row.cells, path)
                   = PathPayload(SchemaOf[s], row.cells, path)
  <1> DEFINE l == Built[u]
             schema == SchemaOf[s]
             v == ParseText(text).value
             room == RowRoom(l, schema, RowSize(l, schema, v))
             row == SerializeRow(l, schema, v)
  <1> SUFFICES ASSUME row.ok
               PROVE  FieldPayload({l}, schema, row.cells, path) = PathPayload(schema, row.cells, path)
    OBVIOUS
  <1>1. PICK all : RowKept(l, schema, v, all)
    BY AcceptedRow
  <1> HIDE DEF l, schema, v
  <1>2. /\ LayoutSuits(l, schema)
        /\ room \in Nat /\ WritersKeep(l, schema, v, room)
        /\ RowSoFar(all, l, schema, v, room, Len(schema))
        /\ row.cells = Whole4(schema, all, room)
    BY <1>1 DEF RowKept
  <1> HIDE DEF room, row
  <1>3. \A i \in 1..Len(schema) : NullAt(schema, v, i) => schema[i].nullable
    BY <1>2 DEF WritersKeep
  <1>4. FieldPayload({l}, schema, Whole4(schema, all, room), path)
        = PathPayload(schema, Whole4(schema, all, room), path)
    BY <1>2, <1>3, RowReadsAsEntries
  <1> QED
    BY <1>2, <1>4

\* What is read of field i in a row of layout l, when value v was put: nothing
\* of a null, and otherwise the bytes that the field's writer left of the value.
GivesBack(l, schema, v, blob, i) ==
  LET p == FieldPayload({l}, schema, blob, <<schema[i].name>>) IN
  IF NullAt(schema, v, i) THEN p = NoPayload
  ELSE \E room \in Rooms(l, schema, v) :
         LET w == WriteField(schema[i], ObjectGet(v, schema[i].name), room) IN
         w.ok /\ p = Payload(schema[i], w.cells)

\* Every field of a row that is written can be read back, and is what its writer
\* left: no field is lost, cut off, written over by another one or taken for a
\* null.  Of several fields of one name the first is read.
THEOREM RowsGiveBack ==
  ASSUME NEW s \in Schemas, NEW text \in Accepted(s), NEW u \in CollectionSchemas,
         BitsFit(Built[u], SchemaOf[s]),
         NEW i \in DOMAIN SchemaOf[s], i = FirstIn(FieldIndex(SchemaOf[s], SchemaOf[s][i].name))
  PROVE  LET row == SerializeRow(Built[u], SchemaOf[s], ParseText(text).value) IN
         row.ok => GivesBack(Built[u], SchemaOf[s], ParseText(text).value, row.cells, i)
  <1> DEFINE l == Built[u]
             schema == SchemaOf[s]
             v == ParseText(text).value
             room == RowRoom(l, schema, RowSize(l, schema, v))
             row == SerializeRow(l, schema, v)
             path == <<schema[i].name>>
  <1> SUFFICES ASSUME row.ok
               PROVE  GivesBack(l, schema, v, row.cells, i)
    OBVIOUS
  <1>1. Len(path) = 1 /\ Len(path) \in Nat \ {0} /\ path[1] = schema[i].name
    OBVIOUS
  <1> HIDE DEF path
  <1>2. FieldPayload({l}, schema, row.cells, path) = PathPayload(schema, row.cells, path)
    <2> DEFINE r == SerializeRow(Built[u], SchemaOf[s], ParseText(text).value)
    <2>1. ASSUME NEW p, Len(p) \in Nat \ {0}
          PROVE  r.ok => FieldPayload({Built[u]}, SchemaOf[s], r.cells, p) = PathPayload(SchemaOf[s], r.cells, p)
      BY <2>1, RowsReadAsEntries
    <2> HIDE DEF r
    <2>2. r.ok => FieldPayload({Built[u]}, SchemaOf[s], r.cells, path) = PathPayload(SchemaOf[s], r.cells, path)
      BY <1>1, <2>1
    <2> QED
      BY <2>2 DEF r
  <1>3. i \in DOMAIN schema /\ i = FirstIn(FieldIndex(schema, schema[i].name))
    OBVIOUS
  <1>4. PICK all : RowKept(l, schema, v, all)
    BY AcceptedRow
  <1> HIDE DEF l, schema, v
  <1>5. /\ LayoutSuits(l, schema)
        /\ room \in Nat
        /\ RowSoFar(all, l, schema, v, room, Len(schema))
        /\ KeptSoFar(all, l, schema, v, room, Len(schema))
        /\ row.cells = Whole4(schema, all, room)
    BY <1>4 DEF RowKept
  <1>6. DOMAIN schema = 1..Len(schema) /\ i \in 1..Len(schema)
    BY <1>3, <1>5 DEF LayoutSuits
  <1>7. Rooms(l, schema, v) = 0..room \cup {l.size[k] : k \in 1..Len(schema)}
    BY <1>6 DEF Rooms
  <1> HIDE DEF room, row
  <1>8. EntryGives(l, schema, v, room, row.cells, i)
    BY <1>5, <1>6, EntryGivesBack
  <1>9. FieldPayload({l}, schema, row.cells, <<schema[i].name>>) = EntryPayload(schema, row.cells, i)
    <2>1. PathPayload(schema, row.cells, path) = NamedPayload(schema, row.cells, path[1])
      BY <1>1, OneName
    <2>2. i \in FieldIndex(schema, schema[i].name)
      BY <1>3 DEF FieldIndex
    <2>3. NamedPayload(schema, row.cells, schema[i].name) = EntryPayload(schema, row.cells, i)
      BY <1>3, <2>2 DEF NamedPayload
    <2> QED
      BY <1>1, <1>2, <2>1, <2>3 DEF path
  <1>10. CASE NullAt(schema, v, i)
    BY <1>8, <1>9, <1>10 DEF EntryGives, GivesBack
  <1>11. CASE ~NullAt(schema, v, i)
    <2>1. PICK c : /\ Left(l, schema, v, room, i, c)
                   /\ EntryPayload(schema, row.cells, i) = Payload(schema[i], c)
      BY <1>8, <1>11 DEF EntryGives
    <2>2. \E r \in Rooms(l, schema, v) :
            LET w == WriteField(schema[i], ObjectGet(v, schema[i].name), r) IN w.ok /\ w.cells = c
      BY <1>7, <2>1 DEF Left
    <2> QED
      BY <1>9, <1>11, <2>1, <2>2 DEF GivesBack
  <1> QED
    BY <1>10, <1>11

-----------------------------------------------------------------------------
(* The registries under the documents *)

\* Every call is a call of the registries, or leaves them alone.
LEMMA RegistryStep ==
  ASSUME [Next]_vars
  PROVE  [RegistryNext]_registryVars
  <1>1. ASSUME NEW found \in BOOLEAN, Open(found) PROVE UNCHANGED registryVars
    BY <1>1 DEF Open
  <1>2. CASE Close
    BY <1>2 DEF Close, RegistryNext
  <1>3. CASE RegistryCall
    BY <1>3 DEF RegistryCall, RegistryNext
  <1>4. ASSUME NEW text, Put(text) PROVE UNCHANGED registryVars
    BY <1>4 DEF Put
  <1>5. ASSUME NEW k, Delete(k) PROVE UNCHANGED registryVars
    BY <1>5 DEF Delete
  <1>6. CASE Access
    BY <1>6 DEF Access
  <1>7. ASSUME NEW path, BuildColumn(path) PROVE UNCHANGED registryVars
    BY <1>7 DEF BuildColumn
  <1>8. CASE UNCHANGED vars
    BY <1>8 DEF vars
  <1> QED
    BY <1>1, <1>2, <1>3, <1>4, <1>5, <1>6, <1>7, <1>8 DEF Next

\* The documents are kept over the registries as they are specified by
\* themselves, so what holds of the registries holds here.
THEOREM RegistriesImplemented == Spec => RegistrySpec
  <1>1. Init => RegistryInit
    BY DEF Init
  <1> QED
    BY <1>1, RegistryStep, PTL DEF Spec, RegistrySpec

-----------------------------------------------------------------------------
(* The inductive invariant *)

\* A document of schema s: what one of the two writers left of a text that was
\* accepted.
DocOf(s, doc) ==
  \E text \in Accepted(s), u \in CollectionSchemas \cup {NoLayout} :
    LET blob == BlobUnder(u, SchemaOf[s], ParseText(text).value) IN
    /\ blob.ok
    /\ doc = [text |-> text, blob |-> blob.cells, under |-> u]

DocsOf(s, ds) == AnySeq(ds) /\ \A i \in 1..Len(ds) : DocOf(s, ds[i])

\* The documents are of the collection's schema.
DocsKept == schemaOf[Name] # NoSchema => DocsOf(schemaOf[Name], docs)

\* So are those of the file, of the schema its signature is of.
FileKept == file # NoFile => file.schema \in Schemas /\ DocsOf(file.schema, file.docs)

\* Nothing is in memory of a collection that was not loaded.
NothingUnloaded ==
  /\ schemaOf[Name] = NoSchema => ~loaded
  /\ ~loaded => docs = <<>> /\ columns = NoColumns

\* A cached column holds what the documents hold now.
ColumnFresh(path) ==
  /\ path \in Paths[schemaOf[Name]]
  /\ columns[path] = [i \in DOMAIN docs |-> ColumnValue(docs[i], path)]
Fresh == \A path \in DOMAIN columns : ColumnFresh(path)

Flags == open \in BOOLEAN /\ gpu \in BOOLEAN /\ loaded \in BOOLEAN /\ puts \in 0..MaxPuts

RowsKept == RegistryTypeOK /\ Flags /\ DocsKept /\ FileKept /\ NothingUnloaded /\ Fresh

LEMMA NothingIsAnySeq == AnySeq(<<>>) /\ Len(<<>>) = 0
  BY DEF AnySeq

LEMMA NoDocs ==
  ASSUME NEW s
  PROVE  DocsOf(s, <<>>)
  <1>1. AnySeq(<<>>) /\ 1..Len(<<>>) = {}
    BY NothingIsAnySeq
  <1> QED
    BY <1>1 DEF DocsOf

LEMMA NoFresh ==
  ASSUME columns = NoColumns
  PROVE  Fresh
  BY DEF Fresh, NoColumns

\* What a load gives are documents of the collection's schema.
LEMMA LoadedKept ==
  ASSUME RowsKept, Usable, NEW ds \in Loaded
  PROVE  schemaOf[Name] \in Schemas /\ DocsOf(schemaOf[Name], ds)
  <1>1. schemaOf[Name] \in Schemas /\ schemaOf[Name] # NoSchema
    BY RowStoreAssumption DEF RowsKept, RegistryTypeOK, Usable
  <1>2. CASE ds = docs
    BY <1>1, <1>2 DEF RowsKept, DocsKept
  <1>3. CASE file # NoFile /\ file.schema = schemaOf[Name] /\ ds = file.docs
    BY <1>1, <1>3 DEF RowsKept, FileKept
  <1>4. \/ ds = docs
        \/ file # NoFile /\ file.schema = schemaOf[Name] /\ ds = file.docs
    BY DEF Loaded
  <1> QED
    BY <1>1, <1>2, <1>3, <1>4

\* A put adds a document of the schema.
LEMMA PutKeeps ==
  ASSUME NEW s \in Schemas, NEW ds, DocsOf(s, ds), NEW doc, DocOf(s, doc)
  PROVE  DocsOf(s, Append(ds, doc))
  <1>1. /\ AnySeq(ds)
        /\ \A i \in 1..Len(ds) : DocOf(s, ds[i])
    BY DEF DocsOf
  <1>2. Len(ds) \in Nat
    BY <1>1 DEF AnySeq
  <1>3. /\ AnySeq(Append(ds, doc))
        /\ Len(Append(ds, doc)) = Len(ds) + 1
        /\ \A k \in 1..Len(ds) : Append(ds, doc)[k] = ds[k]
        /\ Append(ds, doc)[Len(ds) + 1] = doc
    BY <1>1, AppendAny
  <1>4. ASSUME NEW i \in 1..Len(Append(ds, doc)) PROVE DocOf(s, Append(ds, doc)[i])
    <2>1. i \in 1..Len(ds) \/ i = Len(ds) + 1
      BY <1>2, <1>3
    <2>2. CASE i \in 1..Len(ds)
      BY <1>1, <1>3, <2>2
    <2>3. CASE i = Len(ds) + 1
      BY <1>3, <2>3
    <2> QED
      BY <2>1, <2>2, <2>3
  <1> QED
    BY <1>3, <1>4 DEF DocsOf

\* A delete takes one away.
LEMMA DeleteKeeps ==
  ASSUME NEW s, NEW ds, DocsOf(s, ds), NEW k \in DOMAIN ds
  PROVE  DocsOf(s, [i \in 1..(Len(ds) - 1) |-> IF i < k THEN ds[i] ELSE ds[i + 1]])
  <1> DEFINE n == Len(ds)
             less == [i \in 1..(n - 1) |-> IF i < k THEN ds[i] ELSE ds[i + 1]]
  <1>1. n \in Nat /\ DOMAIN ds = 1..n /\ \A i \in 1..n : DocOf(s, ds[i])
    BY DEF DocsOf, AnySeq
  <1>2. k \in 1..n /\ n - 1 \in Nat
    BY <1>1
  <1>3. ASSUME NEW i \in 1..(n - 1) PROVE DocOf(s, less[i])
    <2>1. i \in 1..n /\ i + 1 \in 1..n
      BY <1>1
    <2>2. less[i] = IF i < k THEN ds[i] ELSE ds[i + 1]
      OBVIOUS
    <2> QED
      BY <1>1, <2>1, <2>2
  <1>4. less = [i \in 1..(n - 1) |-> less[i]]
    OBVIOUS
  <1> HIDE DEF less, n
  <1>5. AnySeq(less) /\ Len(less) = n - 1
    BY <1>2, <1>4, FunctionIsSeq
  <1>6. DocsOf(s, less)
    BY <1>3, <1>5 DEF DocsOf
  <1> QED
    BY <1>6 DEF less, n

\* A call of the registries keeps all but the types of what they hold, which
\* are theirs: a collection is registered where there was none, and one that
\* goes takes its documents along.
LEMMA RegistryCallKeeps ==
  ASSUME RowsKept, RegistryCall
  PROVE  Flags' /\ DocsKept' /\ FileKept' /\ NothingUnloaded' /\ Fresh'
  <1> USE DEF Flags, FileKept
  <1>1. Name \in Names /\ RegistryTypeOK
    BY RowStoreAssumption DEF RowsKept
  <1>2. ASSUME UNCHANGED rowVars, schemaOf'[Name] = schemaOf[Name]
        PROVE  Flags' /\ DocsKept' /\ FileKept' /\ NothingUnloaded' /\ Fresh'
    <2>1. UNCHANGED <<open, gpu, docs, loaded, columns, file, puts>>
      BY <1>2 DEF rowVars
    <2>2. Flags' /\ FileKept'
      BY <2>1 DEF RowsKept
    <2>3. DocsKept' /\ NothingUnloaded'
      BY <1>2, <2>1 DEF RowsKept, DocsKept, NothingUnloaded
    <2>4. Fresh'
      BY <1>2, <2>1 DEF RowsKept, Fresh, ColumnFresh, ColumnValue, Fields
    <2> QED
      BY <2>2, <2>3, <2>4
  <1>3. ASSUME NEW s \in Schemas, RegisterCollection(s), NameOf[s] = Name, UNCHANGED rowVars
        PROVE  Flags' /\ DocsKept' /\ FileKept' /\ NothingUnloaded' /\ Fresh'
    <2>1. UNCHANGED <<open, gpu, docs, loaded, columns, file, puts>>
      BY <1>3 DEF rowVars
    <2>2. ~loaded /\ docs = <<>> /\ columns = NoColumns
      BY <1>3 DEF RegisterCollection, RowsKept, NothingUnloaded
    <2>3. Flags' /\ FileKept'
      BY <2>1 DEF RowsKept
    <2>4. NothingUnloaded'
      BY <2>1, <2>2 DEF NothingUnloaded
    <2>5. DocsKept'
      BY <2>1, <2>2, NoDocs DEF DocsKept
    <2>6. Fresh'
      BY <2>1, <2>2 DEF Fresh, NoColumns
    <2> QED
      BY <2>3, <2>4, <2>5, <2>6
  <1>4. ASSUME NEW s \in Schemas, RegisterCollection(s), NameOf[s] # Name
        PROVE  schemaOf'[Name] = schemaOf[Name]
    BY <1>1, <1>4 DEF RegisterCollection, RegistryTypeOK
  <1>5. ASSUME NEW s \in Schemas, SchemaRegister(s) PROVE schemaOf'[Name] = schemaOf[Name]
    BY <1>5 DEF SchemaRegister
  <1>6. ASSUME NEW s \in CollectionSchemas, NEW built \in BOOLEAN, RegisterSchema(s, built)
        PROVE  schemaOf'[Name] = schemaOf[Name]
    BY <1>6 DEF RegisterSchema
  <1>7. SchemaUnregisterAll \/ UnregisterAllSchemas => schemaOf'[Name] = schemaOf[Name]
    BY DEF SchemaUnregisterAll, UnregisterAllSchemas
  <1>8. ASSUME UnregisterCollections, Blanked, UNCHANGED <<open, gpu, file, puts>>
        PROVE  Flags' /\ DocsKept' /\ FileKept' /\ NothingUnloaded' /\ Fresh'
    <2>1. schemaOf'[Name] = NoSchema
      BY <1>1, <1>8 DEF UnregisterCollections, NoCollections
    <2>2. docs' = <<>> /\ loaded' = FALSE /\ columns' = NoColumns
      BY <1>8 DEF Blanked
    <2>3. Flags' /\ FileKept'
      BY <1>8, <2>2 DEF RowsKept
    <2>4. DocsKept' /\ NothingUnloaded'
      BY <2>1, <2>2 DEF DocsKept, NothingUnloaded
    <2>5. Fresh'
      BY <2>2 DEF Fresh, NoColumns
    <2> QED
      BY <2>3, <2>4, <2>5
  <1> QED
    BY <1>2, <1>3, <1>4, <1>5, <1>6, <1>7, <1>8 DEF RegistryCall

\* Close writes what is in memory to the file, and nothing is in memory after.
LEMMA CloseKeeps ==
  ASSUME RowsKept, Close
  PROVE  Flags' /\ DocsKept' /\ FileKept' /\ NothingUnloaded' /\ Fresh'
  <1>1. Name \in Names /\ schemaOf[Name] \in Schemas \cup {NoSchema}
    BY RowStoreAssumption DEF RowsKept, RegistryTypeOK
  <1>2. schemaOf'[Name] = NoSchema
    BY <1>1 DEF Close, CloseRegistries, NoCollections
  <1>3. docs' = <<>> /\ loaded' = FALSE /\ columns' = NoColumns
    BY DEF Close, Blanked
  <1>4. Flags'
    BY <1>3 DEF Close, RowsKept, Flags
  <1>5. FileKept'
    <2>1. CASE schemaOf[Name] # NoSchema /\ loaded
      <3>1. file' = [schema |-> schemaOf[Name], docs |-> docs]
        BY <2>1 DEF Close
      <3>2. DocsOf(schemaOf[Name], docs)
        BY <2>1 DEF RowsKept, DocsKept
      <3> QED
        BY <1>1, <2>1, <3>1, <3>2 DEF FileKept
    <2>2. CASE ~(schemaOf[Name] # NoSchema /\ loaded)
      <3>1. file' = file
        BY <2>2 DEF Close
      <3> QED
        BY <3>1 DEF RowsKept, FileKept
    <2> QED
      BY <2>1, <2>2
  <1>6. DocsKept' /\ NothingUnloaded'
    BY <1>2, <1>3 DEF DocsKept, NothingUnloaded
  <1>7. Fresh'
    BY <1>3 DEF Fresh, NoColumns
  <1> QED
    BY <1>4, <1>5, <1>6, <1>7

\* A put adds what a writer left, and drops the columns.
LEMMA PutStep ==
  ASSUME RowsKept, NEW k \in DOMAIN Offered, NEW text \in Offered[k][schemaOf[Name]], Put(text)
  PROVE  Flags' /\ DocsKept' /\ FileKept' /\ NothingUnloaded' /\ Fresh'
  <1> DEFINE s == schemaOf[Name]
             v == ParseText(text)
             blob == BlobUnder(layoutOf[Name], Fields, v.value)
             doc == [text |-> text, blob |-> blob.cells, under |-> layoutOf[Name]]
  <1>1. /\ Usable /\ puts < MaxPuts
        /\ v.ok /\ Valid(Fields, v.value) /\ blob.ok
        /\ loaded' = TRUE /\ columns' = NoColumns /\ puts' = puts + 1
        /\ UNCHANGED <<registryVars, open, gpu, file>>
    BY DEF Put, ColumnsAfterPut
  <1>2. PICK ds \in Loaded : docs' = Append(ds, doc)
    BY DEF Put
  <1>3. s \in Schemas /\ DocsOf(s, ds)
    BY <1>1, LoadedKept
  <1>4. text \in Accepted(s)
    BY <1>1 DEF Accepted, Fields
  <1>5. layoutOf[Name] \in CollectionSchemas \cup {NoLayout}
    BY <1>1, RowStoreAssumption DEF RowsKept, RegistryTypeOK, Usable
  <1>6. DocOf(s, doc)
    BY <1>1, <1>4, <1>5 DEF DocOf, Fields
  <1> HIDE DEF doc, blob, v
  <1>7. DocsOf(s, docs')
    BY <1>2, <1>3, <1>6, PutKeeps
  <1>8. schemaOf' = schemaOf
    BY <1>1 DEF registryVars
  <1>9. DocsKept'
    BY <1>7, <1>8 DEF DocsKept
  <1>10. s # NoSchema
    BY <1>1 DEF Usable
  <1>11. NothingUnloaded'
    BY <1>1, <1>8, <1>10 DEF NothingUnloaded
  <1>12. Flags' /\ FileKept'
    BY <1>1, RowStoreAssumption DEF RowsKept, Flags, FileKept
  <1>13. Fresh'
    BY <1>1 DEF Fresh, NoColumns
  <1> QED
    BY <1>9, <1>11, <1>12, <1>13

\* So does a delete.
LEMMA DeleteStep ==
  ASSUME RowsKept, NEW k, Delete(k)
  PROVE  Flags' /\ DocsKept' /\ FileKept' /\ NothingUnloaded' /\ Fresh'
  <1>1. /\ Usable
        /\ loaded' = TRUE /\ columns' = NoColumns
        /\ UNCHANGED <<registryVars, open, gpu, file, puts>>
    BY DEF Delete, ColumnsAfterDelete
  <1>2. PICK ds \in Loaded :
          /\ k \in DOMAIN ds
          /\ docs' = [i \in 1..(Len(ds) - 1) |-> IF i < k THEN ds[i] ELSE ds[i + 1]]
    BY DEF Delete
  <1>3. DocsOf(schemaOf[Name], ds)
    BY <1>1, LoadedKept
  <1>4. DocsOf(schemaOf[Name], docs')
    BY <1>2, <1>3, DeleteKeeps
  <1>5. schemaOf' = schemaOf /\ schemaOf[Name] # NoSchema
    BY <1>1 DEF registryVars, Usable
  <1>6. DocsKept' /\ NothingUnloaded'
    BY <1>1, <1>4, <1>5 DEF DocsKept, NothingUnloaded
  <1>7. Flags' /\ FileKept'
    BY <1>1 DEF RowsKept, Flags, FileKept
  <1>8. Fresh'
    BY <1>1 DEF Fresh, NoColumns
  <1> QED
    BY <1>6, <1>7, <1>8

\* A load gives the documents there are to a collection that has no columns.
LEMMA AccessStep ==
  ASSUME RowsKept, Access
  PROVE  Flags' /\ DocsKept' /\ FileKept' /\ NothingUnloaded' /\ Fresh'
  <1>1. /\ Usable /\ ~loaded /\ docs' \in Loaded /\ loaded' = TRUE
        /\ UNCHANGED <<registryVars, open, gpu, columns, file, puts>>
    BY DEF Access
  <1>2. DocsOf(schemaOf[Name], docs')
    BY <1>1, LoadedKept
  <1>3. schemaOf' = schemaOf /\ schemaOf[Name] # NoSchema
    BY <1>1 DEF registryVars, Usable
  <1>4. DocsKept' /\ NothingUnloaded'
    BY <1>1, <1>2, <1>3 DEF DocsKept, NothingUnloaded
  <1>5. Flags' /\ FileKept'
    BY <1>1 DEF RowsKept, Flags, FileKept
  <1>6. columns' = NoColumns
    BY <1>1 DEF RowsKept, NothingUnloaded
  <1>7. Fresh'
    BY <1>6 DEF Fresh, NoColumns
  <1> QED
    BY <1>4, <1>5, <1>7

\* A column is built of the documents there are.
LEMMA BuildColumnStep ==
  ASSUME RowsKept, NEW path \in Paths[schemaOf[Name]], BuildColumn(path)
  PROVE  Flags' /\ DocsKept' /\ FileKept' /\ NothingUnloaded' /\ Fresh'
  <1>1. /\ loaded
        /\ columns' = [p \in DOMAIN columns \cup {path} |->
             IF p = path THEN [i \in DOMAIN docs |-> ColumnValue(docs[i], path)] ELSE columns[p]]
        /\ schemaOf' = schemaOf
        /\ UNCHANGED <<open, gpu, docs, loaded, file, puts>>
    BY DEF BuildColumn, registryVars
  <1>2. DocsKept' /\ NothingUnloaded' /\ FileKept' /\ Flags'
    BY <1>1 DEF RowsKept, DocsKept, NothingUnloaded, FileKept, Flags
  <1>3. Fields' = Fields
    BY <1>1 DEF Fields
  <1>4. ASSUME NEW p \in DOMAIN columns' PROVE ColumnFresh(p)'
    <2>1. \A i \in DOMAIN docs : ColumnValue(docs[i], p)' = ColumnValue(docs[i], p)
      BY <1>1, <1>3 DEF ColumnValue
    <2>2. CASE p = path
      BY <1>1, <2>1, <2>2 DEF ColumnFresh
    <2>3. CASE p # path
      <3>1. p \in DOMAIN columns /\ columns'[p] = columns[p]
        BY <1>1, <2>3
      <3>2. ColumnFresh(p)
        BY <3>1 DEF RowsKept, Fresh
      <3> QED
        BY <1>1, <2>1, <3>1, <3>2 DEF ColumnFresh
    <2> QED
      BY <2>2, <2>3
  <1>5. Fresh'
    BY <1>4 DEF Fresh
  <1> QED
    BY <1>2, <1>5

\* One step keeps the invariant.
LEMMA RowsKeptStep ==
  ASSUME RowsKept, [Next]_vars
  PROVE  RowsKept'
  <1>1. RegistryTypeOK'
    <2>1. RegistryTypeOK /\ [RegistryNext]_registryVars
      BY RegistryStep DEF RowsKept
    <2> QED
      BY <2>1, RegistryTypeStep
  <1> SUFFICES Flags' /\ DocsKept' /\ FileKept' /\ NothingUnloaded' /\ Fresh'
    BY <1>1 DEF RowsKept
  <1>2. ASSUME NEW found \in BOOLEAN, Open(found)
        PROVE  Flags' /\ DocsKept' /\ FileKept' /\ NothingUnloaded' /\ Fresh'
    <2>1. open' = TRUE /\ gpu' = found /\ UNCHANGED <<registryVars, docs, loaded, columns, file, puts>>
      BY <1>2 DEF Open
    <2>2. schemaOf' = schemaOf
      BY <2>1 DEF registryVars
    <2>3. Flags' /\ DocsKept' /\ FileKept' /\ NothingUnloaded'
      BY <2>1, <2>2 DEF RowsKept, Flags, DocsKept, FileKept, NothingUnloaded
    <2>4. Fresh'
      BY <2>1, <2>2 DEF RowsKept, Fresh, ColumnFresh, ColumnValue, Fields
    <2> QED
      BY <2>3, <2>4
  <1>3. CASE Close
    BY <1>3, CloseKeeps
  <1>4. CASE RegistryCall
    BY <1>4, RegistryCallKeeps
  <1>5. ASSUME NEW s \in Schemas \cap {schemaOf[Name]}, NEW k \in {puts + 1} \cap DOMAIN Offered,
               NEW text \in Offered[k][s], Put(text)
        PROVE  Flags' /\ DocsKept' /\ FileKept' /\ NothingUnloaded' /\ Fresh'
    <2>1. k \in DOMAIN Offered /\ text \in Offered[k][schemaOf[Name]]
      BY <1>5
    <2> QED
      BY <1>5, <2>1, PutStep
  <1>6. ASSUME NEW k \in 1..MaxPuts, Delete(k)
        PROVE  Flags' /\ DocsKept' /\ FileKept' /\ NothingUnloaded' /\ Fresh'
    BY <1>6, DeleteStep
  <1>7. CASE Access
    BY <1>7, AccessStep
  <1>8. ASSUME NEW s \in Schemas \cap {schemaOf[Name]}, NEW path \in Paths[s], BuildColumn(path)
        PROVE  Flags' /\ DocsKept' /\ FileKept' /\ NothingUnloaded' /\ Fresh'
    <2>1. path \in Paths[schemaOf[Name]]
      BY <1>8
    <2> QED
      BY <1>8, <2>1, BuildColumnStep
  <1>9. CASE UNCHANGED vars
    <2>1. schemaOf' = schemaOf /\ UNCHANGED rowVars
      BY <1>9 DEF vars, registryVars
    <2>2. UNCHANGED <<open, gpu, docs, loaded, columns, file, puts>>
      BY <2>1 DEF rowVars
    <2>3. Flags' /\ DocsKept' /\ FileKept' /\ NothingUnloaded'
      BY <2>1, <2>2 DEF RowsKept, Flags, DocsKept, FileKept, NothingUnloaded
    <2>4. Fresh'
      BY <2>1, <2>2 DEF RowsKept, Fresh, ColumnFresh, ColumnValue, Fields
    <2> QED
      BY <2>3, <2>4
  <1> QED
    BY <1>2, <1>3, <1>4, <1>5, <1>6, <1>7, <1>8, <1>9 DEF Next

\* In every reachable state the documents of the collection and of its file are
\* what a writer left of an accepted text, and the columns are of the documents.
THEOREM RowsAlwaysKept == Spec => []RowsKept
  <1>1. Init => RowsKept
    <2> SUFFICES ASSUME Init PROVE RowsKept
      OBVIOUS
    <2>1. RegistryTypeOK
      BY EmptySeq DEF Init, RegistryInit, RegistryTypeOK, NoCollections, NoPointers
    <2>2. schemaOf[Name] = NoSchema
      BY RowStoreAssumption DEF Init, RegistryInit, NoCollections
    <2>3. Flags
      <3>1. MaxPuts \in Nat
        BY RowStoreAssumption
      <3>2. open = FALSE /\ gpu = FALSE /\ loaded = FALSE /\ puts = 0
        BY DEF Init
      <3>3. puts \in 0..MaxPuts
        BY <3>1, <3>2
      <3> QED
        BY <3>2, <3>3 DEF Flags
    <2>5. DocsKept /\ FileKept /\ NothingUnloaded
      BY <2>2 DEF Init, DocsKept, FileKept, NothingUnloaded
    <2>4. Fresh
      BY NoFresh DEF Init
    <2> QED
      BY <2>1, <2>3, <2>4, <2>5 DEF RowsKept
  <1> QED
    BY <1>1, RowsKeptStep, PTL DEF Spec

\* In every reachable state every variable has its type.
THEOREM RowsTypeCorrect == Spec => []TypeOK
  <1>1. RowsKept => TypeOK
    <2> SUFFICES ASSUME RowsKept PROVE TypeOK
      OBVIOUS
    <2>1. RegistryTypeOK /\ open \in BOOLEAN /\ gpu \in BOOLEAN /\ loaded \in BOOLEAN /\ puts \in 0..MaxPuts
      BY DEF RowsKept, Flags
    <2>2. Len(docs) \in Nat /\ DOMAIN docs = 1..Len(docs)
          /\ \A i \in DOMAIN docs : docs[i].under \in CollectionSchemas \cup {NoLayout}
      <3>1. CASE schemaOf[Name] = NoSchema
        <4>1. docs = <<>>
          BY <3>1 DEF RowsKept, NothingUnloaded
        <4> QED
          BY <4>1
      <3>2. CASE schemaOf[Name] # NoSchema
        <4>1. AnySeq(docs) /\ \A i \in 1..Len(docs) : DocOf(schemaOf[Name], docs[i])
          BY <3>2 DEF RowsKept, DocsKept, DocsOf
        <4>2. Len(docs) \in Nat /\ DOMAIN docs = 1..Len(docs)
          BY <4>1 DEF AnySeq
        <4>3. ASSUME NEW i \in DOMAIN docs PROVE docs[i].under \in CollectionSchemas \cup {NoLayout}
          <5>1. DocOf(schemaOf[Name], docs[i])
            BY <4>1, <4>2
          <5> QED
            BY <5>1 DEF DocOf
        <4> QED
          BY <4>2, <4>3
      <3> QED
        BY <3>1, <3>2
    <2>3. ASSUME NEW path \in DOMAIN columns PROVE Len(columns[path]) = Len(docs)
      <3>1. columns[path] = [i \in 1..Len(docs) |-> ColumnValue(docs[i], path)]
        BY <2>2 DEF RowsKept, Fresh, ColumnFresh
      <3>2. columns[path] = [i \in 1..Len(docs) |-> columns[path][i]]
        BY <3>1
      <3> QED
        BY <2>2, <3>2, FunctionIsSeq
    <2> QED
      BY <2>1, <2>2, <2>3 DEF TypeOK
  <1> QED
    BY <1>1, RowsAlwaysKept, PTL

-----------------------------------------------------------------------------
(* Answers *)

\* The cast of a whole number changes nothing.
LEMMA WholeStays ==
  ASSUME NEW y \in Int, y % Unit = 0
  PROVE  Truncated(y) = y
  <1>1. CASE y >= 0
    BY <1>1 DEF Truncated
  <1>2. CASE ~(y >= 0)
    <2>1. (-y) % Unit = 0
      BY DEF Unit
    <2> QED
      BY <1>2, <2>1 DEF Truncated
  <1> QED
    BY <1>1, <1>2

\* On a query the GPU compares as the CPU does, what the two make of a number
\* is the same.
LEMMA QueriesAgree ==
  ASSUME NEW q \in Queries, Whole(q), NEW n
  PROVE  (\E y \in NumericValue(GpuOperator(q).operand) : Compares(n, GpuOperator(q).op, Truncated(y)))
         <=> NumberMeets(n, q)
  <1> DEFINE o == GpuOperator(q)
  <1>1. CASE q.type = "object" /\ Len(q.members) = 1
    <2>1. o.op = q.members[1].name[1] /\ o.operand = q.members[1].value
      BY <1>1 DEF GpuOperator
    <2>2. NumericValue(o.operand) \subseteq Int
      BY <1>1, <2>1, QueriesAssumption
    <2>3. \A y \in NumericValue(o.operand) : Truncated(y) = y
      BY <2>2, WholeStays DEF Whole
    <2>4. NumberMeets(n, q) <=> \E y \in NumericValue(o.operand) : Compares(n, o.op, y)
      BY <1>1, <2>1 DEF NumberMeets
    <2> QED
      BY <2>3, <2>4
  <1>2. CASE ~(q.type = "object" /\ Len(q.members) = 1)
    <2>1. o.op = "eq" /\ o.operand = q
      BY <1>2 DEF GpuOperator
    <2>2. NumericValue(q) \subseteq Int
      BY QueriesAssumption
    <2>3. \A y \in NumericValue(q) : Truncated(y) = y
      BY <2>1, <2>2, WholeStays DEF Whole
    <2>4. CASE q.type = "object"
      <3>1. NumericValue(q) = {}
        BY <2>4 DEF NumericValue
      <3>2. ~NumberMeets(n, q)
        BY <1>2, <2>4 DEF NumberMeets
      <3> QED
        BY <2>1, <3>1, <3>2
    <2>5. CASE q.type # "object"
      <3>1. NumberMeets(n, q) <=> n \in NumericValue(q)
        BY <2>5 DEF NumberMeets
      <3>2. \A y : Compares(n, "eq", y) <=> n = y
        BY DEF Compares
      <3> QED
        BY <2>1, <2>3, <3>1, <3>2
    <2> QED
      BY <2>4, <2>5
  <1> QED
    BY <1>1, <1>2

\* In a document of the layout that the collection has, the layout gives what
\* the entries give.
LEMMA DocumentReads ==
  ASSUME NEW s \in Schemas, NEW doc, DocOf(s, doc), NEW path \in Paths[s],
         doc.under = layoutOf[Name],
         \A l \in Layouts : BitsFit(l, SchemaOf[s])
  PROVE  FieldPayload(Layouts, SchemaOf[s], doc.blob, path) = PathPayload(SchemaOf[s], doc.blob, path)
  <1>1. PICK text \in Accepted(s), u \in CollectionSchemas \cup {NoLayout} :
          /\ BlobUnder(u, SchemaOf[s], ParseText(text).value).ok
          /\ doc = [text |-> text, blob |-> BlobUnder(u, SchemaOf[s], ParseText(text).value).cells,
                    under |-> u]
    BY DEF DocOf
  <1>2. doc.under = u /\ doc.blob = BlobUnder(u, SchemaOf[s], ParseText(text).value).cells
    BY <1>1
  <1>3. CASE u = NoLayout
    <2>1. Layouts = {}
      BY <1>2, <1>3 DEF Layouts
    <2> QED
      BY <2>1 DEF FieldPayload
  <1>4. CASE u # NoLayout
    <2>1. u \in CollectionSchemas /\ Layouts = {Built[u]}
      BY <1>2, <1>4 DEF Layouts
    <2>2. BlobUnder(u, SchemaOf[s], ParseText(text).value)
          = SerializeRow(Built[u], SchemaOf[s], ParseText(text).value)
      BY <1>4 DEF BlobUnder
    <2>3. BitsFit(Built[u], SchemaOf[s])
      BY <2>1
    <2>4. SerializeRow(Built[u], SchemaOf[s], ParseText(text).value).ok
      BY <1>1, <2>2
    <2>5. LET row == SerializeRow(Built[u], SchemaOf[s], ParseText(text).value) IN
          row.ok => FieldPayload({Built[u]}, SchemaOf[s], row.cells, path)
                    = PathPayload(SchemaOf[s], row.cells, path)
      <3>1. Len(path) \in Nat \ {0}
        BY RowStoreAssumption
      <3> QED
        BY <1>1, <2>1, <2>3, <3>1, RowsReadAsEntries
    <2> QED
      BY <1>2, <2>1, <2>2, <2>4, <2>5
  <1> QED
    BY <1>3, <1>4

\* What the scan over the blobs finds at a document is what the column says of
\* it, if the document has a value in the column.
LEMMA ColumnFinds ==
  ASSUME NEW doc, NEW path, NEW q \in Queries, Whole(q),
         FieldPayload(Layouts, Fields, doc.blob, path) = PathPayload(Fields, doc.blob, path),
         ColumnValue(doc, path) # {}
  PROVE  (\E y \in NumericValue(GpuOperator(q).operand) :
            \E n \in ColumnValue(doc, path) : Compares(n, GpuOperator(q).op, Truncated(y)))
         <=> Found(doc, path, q)
  <1> DEFINE p == PathPayload(Fields, doc.blob, path)
             n == Load(p.cells, 0, "int", 8)
  <1>1. p.ok /\ p.field.type = "int" /\ ~(Len(p.cells) < 8) /\ ColumnValue(doc, path) = {n}
    BY DEF ColumnValue
  <1>2. Found(doc, path, q) <=> CellsMeet(p.field, p.cells, q)
    BY <1>1 DEF Found
  <1>3. p.field.type \in NumberTypes /\ ScalarSize(p.field.type) = 8
    BY <1>1 DEF NumberTypes, Integers8, ScalarSize
  <1>4. CellsMeet(p.field, p.cells, q) <=> (Len(p.cells) >= 8 /\ NumberMeets(n, q))
    BY <1>1, <1>3 DEF CellsMeet, NumberCellsMeet
  <1> QED
    BY <1>1, <1>2, <1>4, QueriesAgree

\* The GPU changes no answer, in any reachable state: a scan over a cached
\* column, built before any number of puts, deletes, loads and registrations,
\* finds what the scan over the blobs finds.
THEOREM GpuAlwaysAgrees == Spec => []GpuAgreesWithCpu
  <1>1. RowsKept => GpuAgreesWithCpu
    <2> SUFFICES ASSUME RowsKept, Readable, \A l \in Layouts : BitsFit(l, Fields),
                        NEW path \in DOMAIN columns, NEW q \in Queries, Whole(q),
                        \A i \in DOMAIN docs : ColumnValue(docs[i], path) # {} \/ ~Found(docs[i], path, q)
                 PROVE  Scan(path, q) = CpuScan(path, q)
      BY DEF GpuAgreesWithCpu
    <2> DEFINE s == schemaOf[Name]
               o == GpuOperator(q)
    <2>1. s \in Schemas /\ s # NoSchema /\ Fields = SchemaOf[s]
      BY RowStoreAssumption DEF Readable, Usable, RowsKept, RegistryTypeOK, Fields
    <2>2. DOMAIN docs = 1..Len(docs) /\ \A i \in 1..Len(docs) : DocOf(s, docs[i])
      BY <2>1 DEF RowsKept, DocsKept, DocsOf, AnySeq
    <2>3. path \in Paths[s] /\ columns[path] = [i \in DOMAIN docs |-> ColumnValue(docs[i], path)]
      BY DEF RowsKept, Fresh, ColumnFresh
    <2>4. ASSUME NEW i \in DOMAIN docs
          PROVE  (\E y \in NumericValue(o.operand) :
                    \E n \in columns[path][i] : Compares(n, o.op, Truncated(y)))
                 <=> Found(docs[i], path, q)
      <3>1. columns[path][i] = ColumnValue(docs[i], path)
        BY <2>3
      <3>2. CASE ColumnValue(docs[i], path) = {}
        BY <3>1, <3>2
      <3>3. CASE ColumnValue(docs[i], path) # {}
        <4>1. DocOf(s, docs[i]) /\ docs[i].under = layoutOf[Name]
          BY <2>2 DEF Readable
        <4>2. \A l \in Layouts : BitsFit(l, SchemaOf[s])
          BY <2>1
        <4>3. FieldPayload(Layouts, SchemaOf[s], docs[i].blob, path)
              = PathPayload(SchemaOf[s], docs[i].blob, path)
          BY <2>1, <2>3, <4>1, <4>2, DocumentReads
        <4> HIDE DEF s, o
        <4>4. FieldPayload(Layouts, Fields, docs[i].blob, path) = PathPayload(Fields, docs[i].blob, path)
          BY <2>1, <4>3
        <4> USE DEF o
        <4>5. (\E y \in NumericValue(o.operand) :
                 \E n \in ColumnValue(docs[i], path) : Compares(n, o.op, Truncated(y)))
              <=> Found(docs[i], path, q)
          BY <3>3, <4>4, ColumnFinds
        <4> QED
          BY <3>1, <4>5
      <3> QED
        BY <3>2, <3>3
    <2> HIDE DEF s, o
    <2>5. DOMAIN columns[path] = DOMAIN docs
      BY <2>3
    <2>6. \A i : i \in GpuScan(path, q) <=>
            i \in DOMAIN docs /\ \E y \in NumericValue(o.operand) :
                                   \E n \in columns[path][i] : Compares(n, o.op, Truncated(y))
      BY <2>5 DEF GpuScan, KernelHits, o
    <2>7. \A i : i \in CpuScan(path, q) <=> i \in DOMAIN docs /\ Found(docs[i], path, q)
      BY DEF CpuScan
    <2>8. GpuScan(path, q) = CpuScan(path, q)
      BY <2>4, <2>6, <2>7
    <2> QED
      BY <2>8 DEF Scan
  <1> QED
    BY <1>1, RowsAlwaysKept, PTL

\* Every field of every document of the collection can be read back, through any
\* puts, deletes, registrations, closes and loads before: nothing where the text
\* that was put has a null, and otherwise what the writer left of its value.
DocumentsGiveBack ==
  Readable /\ layoutOf[Name] # NoLayout /\ BitsFit(Built[layoutOf[Name]], Fields) =>
    \A d \in DOMAIN docs, i \in DOMAIN Fields :
      i = FirstIn(FieldIndex(Fields, Fields[i].name)) =>
        GivesBack(Built[layoutOf[Name]], Fields, ParseText(docs[d].text).value, docs[d].blob, i)

THEOREM DocumentsAlwaysGiveBack == Spec => []DocumentsGiveBack
  <1>1. RowsKept => DocumentsGiveBack
    <2> SUFFICES ASSUME RowsKept, Readable, layoutOf[Name] # NoLayout,
                        BitsFit(Built[layoutOf[Name]], Fields),
                        NEW d \in DOMAIN docs, NEW i \in DOMAIN Fields,
                        i = FirstIn(FieldIndex(Fields, Fields[i].name))
                 PROVE  GivesBack(Built[layoutOf[Name]], Fields, ParseText(docs[d].text).value,
                                  docs[d].blob, i)
      BY DEF DocumentsGiveBack
    <2> DEFINE s == schemaOf[Name]
               u == layoutOf[Name]
    <2>1. s \in Schemas /\ s # NoSchema /\ Fields = SchemaOf[s]
      BY RowStoreAssumption DEF Readable, Usable, RowsKept, RegistryTypeOK, Fields
    <2>2. DocOf(s, docs[d]) /\ docs[d].under = u
      BY <2>1 DEF RowsKept, DocsKept, DocsOf, AnySeq, Readable
    <2> HIDE DEF s, u
    <2>3. PICK text \in Accepted(s), w \in CollectionSchemas \cup {NoLayout} :
            /\ BlobUnder(w, SchemaOf[s], ParseText(text).value).ok
            /\ docs[d] = [text |-> text, blob |-> BlobUnder(w, SchemaOf[s], ParseText(text).value).cells,
                          under |-> w]
      BY <2>2 DEF DocOf
    <2>4. /\ docs[d].text = text /\ w = u
          /\ docs[d].blob = BlobUnder(w, SchemaOf[s], ParseText(text).value).cells
      BY <2>2, <2>3
    <2>5. w \in CollectionSchemas
      BY <2>4 DEF u
    <2>6. BlobUnder(w, SchemaOf[s], ParseText(text).value)
          = SerializeRow(Built[w], SchemaOf[s], ParseText(text).value)
      BY <2>4 DEF BlobUnder, u
    <2>7. /\ BitsFit(Built[w], SchemaOf[s])
          /\ i \in DOMAIN SchemaOf[s]
          /\ i = FirstIn(FieldIndex(SchemaOf[s], SchemaOf[s][i].name))
      BY <2>1, <2>4 DEF u
    <2>8. LET row == SerializeRow(Built[w], SchemaOf[s], ParseText(text).value) IN
          row.ok => GivesBack(Built[w], SchemaOf[s], ParseText(text).value, row.cells, i)
      BY <2>1, <2>5, <2>7, RowsGiveBack
    <2>9. GivesBack(Built[w], SchemaOf[s], ParseText(text).value, docs[d].blob, i)
      BY <2>3, <2>4, <2>6, <2>8
    <2> QED
      BY <2>1, <2>4, <2>9 DEF u
  <1> QED
    BY <1>1, RowsAlwaysKept, PTL

\* What holds of the registries by themselves holds under the documents: they
\* agree, every layout fits, and a layout that is freed while a collection has
\* it was freed by the client.
THEOREM RegistriesUnderRows ==
  Spec => []RegistriesAgree /\ []LayoutsFit /\ LayoutsOutliveCollections
  BY RegistriesImplemented, RegistriesAlwaysAgree, LayoutsAlwaysFit, LayoutsAlwaysOutlive, PTL
=============================================================================
