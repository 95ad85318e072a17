CONSTANTS
  Currency = {1, 2}
  Published = {2}
  Missing = {{3}, {4}}
  Gap = 1
  Window = 3
  Freshness = 2
  Threshold = 3
  Lookback = 2
  FirstDay = 3
  LastDay = 6
  MaxCrashes = 1
  MaxFaults = 1
SPECIFICATION FairSpec
INVARIANTS TypeOK DoneIffRates CarriedRateAge
PROPERTIES EveryCurrencyBootstrapped RollupOnlyImproves
