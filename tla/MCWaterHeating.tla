--------------------------- MODULE MCWaterHeating ---------------------------
EXTENDS WaterHeating, TLC

\* Heating is on, and the child safety is on with a limit above the jumper; or
\* heating is off, and so is the child safety, with a low limit.
DeviceStates ==
    {[setpoint |-> 2, heating |-> "on", safety |-> "on", limit |-> 3],
     [setpoint |-> 2, heating |-> "off", safety |-> "off", limit |-> 1]}

Symmetry == Permutations(Callers)

=============================================================================
