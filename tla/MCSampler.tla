------------------------------ MODULE MCSampler ------------------------------
\* Values for checking Sampler with TLC.
EXTENDS Sampler

MCStatuses == {"healthy", "critical"}
=============================================================================
