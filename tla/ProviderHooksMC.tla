-------------------------- MODULE ProviderHooksMC --------------------------
\* A small launch: constants only, given their values by the configuration.
EXTENDS ProviderHooks
=============================================================================
