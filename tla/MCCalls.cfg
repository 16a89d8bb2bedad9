SPECIFICATION Spec
CONSTANTS
  Builders <- BuildersDef
  Spellings <- SpellingsDef
  ConfigValues <- ConfigValuesDef
  BadRefs = {"bad/ref"}
  BadInputs = {"1x"}
  SeparatorNames <- ColonDef
  BundleRoot <- RootDef
  MAX_STARTUP_NODES = 20
  FormMax <- FormMaxDef
  TextBytes <- TextBytesDef
  ZstdBytes <- ZstdBytesDef
  U32_MAX = 69000
  MAX_CONTENT_BYTES = 200
  MAX_METADATA_RECORDS = 4
  MAX_MASTER_BYTES = 600
  NAME_FIELD = 4
  PREFIX_FIELD = 5
  OCTAL_MAX = 3
  BLOCK = 2
  MAX_TAR_ENTRIES = 4
  MAX_TAR_PATH_BYTES = 10
  MAX_TAR_COMPONENT_BYTES = 7
  MAX_TAR_SYMLINK_TARGET_BYTES = 8
  MAX_TAR_DEPTH = 3
  MAX_TAR_STRUCTURAL_BYTES = 20
  WellFormed <- WellFormedDef
  KeyNames <- KeyNamesDef
  Sanitized <- SanitizedDef
  IndexName <- IndexNameDef
INVARIANTS
  BundlesFaithful
  
  SandboxPlanFaithful
  TreesExact
  OciLayersFaithful
  SourcesUnpacked
  RequestsPlanned
CHECK_DEADLOCK FALSE
