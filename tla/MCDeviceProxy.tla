----------------------------- MODULE MCDeviceProxy -----------------------------
EXTENDS DeviceProxy, DeviceRuntimeLine, TLC

\* Requests are alike, and so are the stories the proxy does not work for.
CallerSymmetry == Permutations(Request) \cup Permutations(Story \ {Owner})
=============================================================================
