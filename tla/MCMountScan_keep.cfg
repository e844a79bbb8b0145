\* Scans by the full scan, the watcher and the recovery; no bounce within a prune.
SPECIFICATION ScanSpec
CONSTANTS
    m1 = m1
    f1 = f1
    f2 = f2
    Mounts = {m1}
    Files = {f1, f2}
    MountOf <- MCMountOf
    Indexed = {f1}
    Follows = TRUE
    MaxChanges = 3
    MaxFailures = 1
    Full = full
    NoFile = nofile
    MaxFulls = 1
    MaxRemovals = 1
    Bounces = FALSE
PROPERTIES LibraryKept
