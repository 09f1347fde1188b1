\* Five registrations, seven specs and three states of what they refer to;
\* the process starts and one of them changes, and it may restart at any time.
SPECIFICATION Spec
CONSTANTS
  Paths <- MCPaths
  Extends <- MCExtends
  Words <- MCWords
  Uris <- MCUris
  Names <- MCNames
  Namespace = "ns"
  Domain = "cluster.local"
  Registrations <- SomeRegistrations
  UserSpecs <- SomeSpecs
  Worlds <- SomeWorlds
  VersionLists <- MCVersionLists
  MaxChanges = 2
INVARIANT ElementsAvailable
