\* DataService: three entities in a cache of two, the version hardly changing.
CONSTANTS
  Site = {s1}
  Cached = {e1, e2, e3}
  List = list
  Doc = doc
  CacheOf <- OneCache
  Reader = {r1, r2}
  None = None
  SnapshotTtl = 3
  Bucket = 3
  EntryTtl = 2
  MaxEntries = 2
  MaxTime = 2
  MaxModel = 0
  MaxReads = 3
SPECIFICATION FairSpec
PROPERTIES ColdestEvicted ReadsEnd
