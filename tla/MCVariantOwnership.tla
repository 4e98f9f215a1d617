------------------------ MODULE MCVariantOwnership -------------------------
EXTENDS VariantOwnership

\* Three children over three keys: every pattern of repeated keys from the
\* bus, distinct keys when encoded, and
\* releases of the decoded values before and after the container.
MCNChildren == 3
MCKeys == {"k1", "k2", "k3"}
=============================================================================
