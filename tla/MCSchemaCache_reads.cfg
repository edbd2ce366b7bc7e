\* OData: three reads, two at a time, one of them possibly within another; a
\* change of the data model at any time and every time-out passed.
CONSTANTS
  Site = {s1}
  Cached = {doc, list}
  List = list
  Doc = doc
  CacheOf <- TwoCaches
  Reader = {r1, r2}
  None = None
  SnapshotTtl = 1
  Bucket = 2
  EntryTtl = 3
  MaxEntries = 1
  MaxTime = 3
  MaxModel = 1
  MaxReads = 3
SYMMETRY Symmetry
SPECIFICATION Spec
INVARIANTS TypeOK BoundedStaleness SharedLoads
