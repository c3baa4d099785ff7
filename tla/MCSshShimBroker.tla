-------------------------- MODULE MCSshShimBroker --------------------------
\* Two ssh commands: whatever the first leaves behind meets the second.
EXTENDS SshShimBroker
=============================================================================
