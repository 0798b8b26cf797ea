SPECIFICATION MCCacheSpec
CONSTANTS
  Views = {"table_session", "active_orders"}
  Workers = {w1, w2}
  Tasks = {r1, r2}
  Nowhere = Nowhere
  MaxCommits = 2
INVARIANTS CacheInv StalenessHasACause
PROPERTIES StalenessPasses
