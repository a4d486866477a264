------------------------ MODULE MCScriptThreadsLive ------------------------
EXTENDS ScriptThreadsLive
CONSTANTS t1, t2, s1, s2
=============================================================================
