\* One evaluation at a time against every kind of registry, with swaps and outages.
SPECIFICATION Spec
CONSTANTS
    Calls = {c1}
    MaxVersion = 2
    LicenseOf <- Relicensed
    FirstLatest <- AnyRelease
    Registries <- ManyRegistries
    NoRegistry = NoRegistry
    Reports <- Scored
    MaxReports = 1
    Failing = {"redis", "pypi", "osv"}
    NoEntry = NoEntry
INVARIANT AllowedByOneRegistry
