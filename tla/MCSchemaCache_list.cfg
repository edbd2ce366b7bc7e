\* OData: a list taken from a $metadata document that is older than the version.
CONSTANTS
  Site = {s1}
  Cached = {doc, list}
  List = list
  Doc = doc
  CacheOf <- TwoCaches
  Reader = {r1, r2}
  None = None
  SnapshotTtl = 1
  Bucket = 3
  EntryTtl = 3
  MaxEntries = 1
  MaxTime = 2
  MaxModel = 1
  MaxReads = 3
SYMMETRY Symmetry
SPECIFICATION Spec
INVARIANTS ListStaleness
