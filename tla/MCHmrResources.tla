-------------------------- MODULE MCHmrResources --------------------------
EXTENDS HmrResources

TwoDevices == <<"mlx0", "mlx1">>
=============================================================================
