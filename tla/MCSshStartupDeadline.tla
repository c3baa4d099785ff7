------------------------ MODULE MCSshStartupDeadline ------------------------
\* A budget of a few milliseconds; time is relative to the phase, so that
\* each phase of each attempt can be the one that overruns.
EXTENDS SshStartupDeadline
=============================================================================
