-------------------------- MODULE MCControlSocket --------------------------
\* palmodctl, palmodctl run by another user, and a client that need not send
\* anything.
EXTENDS ControlSocket

CONSTANTS c1, f1, r1

MCClient == {c1, f1, r1}
MCRaw == {r1}
MCForeign == {f1}
=============================================================================
