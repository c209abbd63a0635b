\* Two readers, two writers, three writes, keys set with a TTL: the cache
\* ends up agreeing with the row.
CONSTANTS
    Readers = {r1, r2}
    Writers = {w1, w2}
    MaxVersion = 3
    WithExpiry = TRUE
    None = None
SPECIFICATION FairSpec
INVARIANT TypeOK
PROPERTY CacheConverges
