----------------------------- MODULE MCGameLoad -----------------------------
EXTENDS GameLoad, TLC

CONSTANTS g1, g2, h1, h2

\* h1 may also stay unknown, to the server and to the user.
Identifications == (h1 :> {g1, NoGame}) @@ (h2 :> {g2})

=============================================================================
