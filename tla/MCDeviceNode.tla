---------------------------- MODULE MCDeviceNode ----------------------------
EXTENDS DeviceNode

CONSTANTS x, m1, m2

\* Lines of two lengths: reads stop at the ends of commands.
MCLines == {<<NL>>, <<x, NL>>}

=============================================================================
