------------------------------ MODULE MCTeleop ------------------------------
EXTENDS Teleop
=============================================================================
