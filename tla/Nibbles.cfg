CONSTANTS
    PageSize = 4
    Objects <- MCObjects
    Places <- MCPlaces
    Sides <- MCSides
    Damages <- MCDamages
SPECIFICATION Spec
INVARIANTS SectorsDecode MarksAreUnique DamageIsNoticed
\* One sector is written.
CHECK_DEADLOCK FALSE
