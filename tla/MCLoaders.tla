----------------------------- MODULE MCLoaders -----------------------------
EXTENDS LoadersProps
CONSTANTS a, b
TwoPlugins == <<"python", "sql">>
=============================================================================
