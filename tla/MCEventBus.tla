------------------------------ MODULE MCEventBus ------------------------------
EXTENDS EventBus, TLC
=============================================================================
