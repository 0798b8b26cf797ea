CONSTANTS
  Skus = {beef}
  Dishes = {burger}
  SeededSku = beef
  SeededDish = burger
  SeededQuantity = 18
  Seeders = {s1, s2}
  Clerks = {k1, k2}
  Amounts <- MCAmounts
  Unset = Unset
  MaxEntries = 12
  MaxSeeds = 3
  MaxRequests = 3
SPECIFICATION SeedingSpec
INVARIANTS StockMatchesTrail SeedingInv SeedsAddOnce ServiceStartsConsistent
PROPERTIES RerunChangesNothing SeedFailsOnlyForRepeatedKeys CatalogAmongSeeds
SYMMETRY Symmetry
CHECK_DEADLOCK FALSE
