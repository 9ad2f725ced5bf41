CONSTANTS
  Names <- ThreeNames
  None <- NoName
SPECIFICATION Spec
INVARIANTS CallbackOnLive NothingLeftBehind StartTells
CHECK_DEADLOCK FALSE
