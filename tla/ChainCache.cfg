SPECIFICATION Spec
CONSTANT Tables <- AllTables
INVARIANT CacheCoherent SystemRowsCached FailedLookupsRight RamAccounted NextPkFresh
