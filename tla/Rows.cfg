SPECIFICATION Spec
CONSTANTS
  Names = {"c", "d"}
  Schemas = {"plain", "lists", "nested"}
  NameOf <- McNameOf
  NoSchema = "none"
  CollectionSchemas = {"plainRow", "listRow", "otherRow"}
  SchemaId <- McSchemaId
  SchemaName <- McSchemaName
  FieldsOf <- McFieldsOf
  NoLayout = "none"
  Freed = "freed"
  Name = "c"
  SchemaOf <- McSchemaOf
  Offered <- McOffered
  Paths <- McPaths
  Queries <- McQueries
  NoFile = NoFile
  MinDocs = 1
  MaxPuts = 2
  ByteMax = 3
  Int32Max = 5
  NumberOf <- McNumberOf
  ParseText <- Parse
  Valid <- ValidObject
  PlainBlob <- SerializeBlob
  FieldSize <- PayloadSize
  WriteField <- SerializeField
  OtherCellsMeet <- CellsMatch
INVARIANTS
  TypeOK
  RegistriesAgree
  ReadsBack
  ScanFinds
  GpuAgreesWithCpu
  ValidIsStored
  LayoutsFit
PROPERTY
  LayoutsOutliveCollections
