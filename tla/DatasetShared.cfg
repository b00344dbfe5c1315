SPECIFICATION FilesSpec
CONSTANTS
  t1 = t1
  t2 = t2
  Fetchers = {t1, t2}
  Chunks = 2
  Uses <- SharedFile
INVARIANT CacheRight
