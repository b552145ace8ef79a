CONSTANTS
  aggregate = aggregate
  sync = sync
  out = out
  post = post
  Interceptors <- TwoInterceptors
  Chains <- TwoChains
  FiltersOf <- TheFilters
  Steals <- OnlyAggregate
  MAX_FILTERS_PER_CHAIN = 3
  MaxRules = 3
SPECIFICATION FairSpec
INVARIANTS ChainsMatchRules BystandersSeen HooksReadLiveMemory NoDanglingCallback ListingFresh
PROPERTY OperationReturns
