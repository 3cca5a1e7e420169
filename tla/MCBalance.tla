----------------------------- MODULE MCBalance -----------------------------
EXTENDS Balance

MCMasks == {{1}, {2}, {2, 3}}
=============================================================================
