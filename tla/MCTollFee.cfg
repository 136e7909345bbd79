SPECIFICATION TripSpec
CONSTANTS
    Trip <- MCTrip
    BooOf <- MCBooOf
    StagesOf <- MCStagesOf
    CycleOf <- MCCycleOf
    PairOf <- MCPairOf
INVARIANTS OneDetailPerStage ChargedPriceInForce FreeNeedsReason RefusedOnlyAroundChange
CHECK_DEADLOCK FALSE
