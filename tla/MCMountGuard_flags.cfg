\* Two drives come and go between any two steps; UPDATEs may fail.
SPECIFICATION FairSpec
CONSTANTS
    m1 = m1
    m2 = m2
    f1 = f1
    f2 = f2
    f3 = f3
    Mounts = {m1, m2}
    Files = {f1, f2, f3}
    MountOf <- MCMountOf
    Indexed = {f1, f2, f3}
    Follows = TRUE
    MaxChanges = 3
    MaxFailures = 2
INVARIANTS TypeOK FlagsMatchSnapshot
PROPERTIES OfflineConverges
