SPECIFICATION Spec
CONSTANTS
  s1 = s1  s2 = s2  s3 = s3
  o1 = o1  o2 = o2  o3 = o3  o4 = o4
  p = p  q = q  anon = anon
  Names = {"f", "g"}
  Infos <- SomeInfos
  Objs = {o1, o2, o3, o4}
  MaxIds = 5
  Sources = {s1, s2, s3}
  Paths = {p, q, anon}
  Anon = anon
  SpecLists <- SomeLists
  FileEvents = {"reload", "delete"}
  WorkbookEvents = {p}
  Removals = {"f"}
  Appends = {TRUE, FALSE}
  StrayIds = FALSE
  MaxCalls = 3
  MaxRefusals = 1
  MaxDefers = 1
INVARIANTS TypeOK RegistryIsCallable OnlyOwned
CHECK_DEADLOCK FALSE
