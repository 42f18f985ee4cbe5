SPECIFICATION FairSpec
CONSTANTS
    Procs = {p}
    Metas = {m1, m2}
    Medias = {b1}
    EntityMap = EntityMap
    Values = {v1, v2}
    Tokens = {t1}
    Absent = Absent
    Torn = Torn
    None = None
    Lost = Lost
    MaxKey = 3
INVARIANTS
    TypeOK
    KeyOnDiskFirst
    RecordedRotationIsComplete
PROPERTIES
    ImplementsRecordStore
    RotationEnds
CHECK_DEADLOCK FALSE
