---------------------------- MODULE MCChainVerify ----------------------------
EXTENDS ChainVerify
=============================================================================
