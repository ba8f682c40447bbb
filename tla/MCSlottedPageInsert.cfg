CONSTANTS
    DataSize = 16
    SlotSize = 3
    Records <- MCRecords
    NoRecord = norecord
    Damage <- MCDamage
SPECIFICATION Spec
PROPERTY InsertedWhenRoom
