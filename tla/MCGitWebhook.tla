---------------------------- MODULE MCGitWebhook ----------------------------
\* Three deliveries, two commits: nothing else happens, or the git source
\* changes and the process dies.
EXTENDS GitWebhook

MCChangeSets == {{}, {"reconnect", "crash"}}
MCNoChange == {{}}
============================================================================
