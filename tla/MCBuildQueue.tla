---------------------------- MODULE MCBuildQueue ----------------------------
\* Two builds of one app and two of others compete for two tokens.
EXTENDS BuildQueue

MCBuilds == 1 .. 4
MCApps == {"blog", "shop", "wiki"}
MCAppOf == <<"blog", "blog", "shop", "wiki">>
============================================================================
