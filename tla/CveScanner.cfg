\* Evaluations and the scanner share the entry of an unpinned query; Redis and OSV fail.
SPECIFICATION FairScannerSpec
CONSTANTS
    Calls = {c1}
    MaxVersion = 1
    LicenseOf <- Relicensed
    FirstLatest <- PerhapsReleased
    Registries <- PerhapsKnown
    NoRegistry = NoRegistry
    Reports <- FirstRelease
    MaxReports = 1
    Failing = {"redis", "osv"}
    NoEntry = NoEntry
    MaxBroken = 1
INVARIANTS ScannerTypeOK AlertsAreOsvs CveCacheIsOsv
PROPERTIES DueAlertsAreWritten CriticalEndsUpBlocked
