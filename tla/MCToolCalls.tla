----------------------------- MODULE MCToolCalls -----------------------------
EXTENDS ToolCalls
=============================================================================
