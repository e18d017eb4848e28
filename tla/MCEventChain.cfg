\* Two connections, up to three events, two or none of them from before the migration.
CONSTANTS
    w1 = w1
    w2 = w2
    Writers = {w1, w2}
    Ids = {1, 2, 3}
    LegacyStamps = {0}
    Legacy <- Migrated
    Digest <- ChainOf
    Genesis <- NoHash
    Readings = {0, 2}
    PageLimit = 1
    Overrides <- OneOrBoth
    Nobody = Nobody
SPECIFICATION Spec
SYMMETRY AnyWriter
INVARIANTS
    TypeOK
    FaultsAreAlterations
    TailMissesNothing
    DamageStopsTheStart
PROPERTY
    CommitsInOrder
