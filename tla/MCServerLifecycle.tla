-------------------------- MODULE MCServerLifecycle --------------------------
(* ServerLifecycle with doubles of four bits in shares of 1 / 256.         *)
EXTENDS ServerLifecycle

\* Below 0, 0 itself, the smallest double, products that three samples leave exact,
\* one that rounds down to a whole number (88) and one that rounds up (208), 0.9375,
\* 1, and above 1.
MCShares == {-16, 0, 1, 18, 88, 128, 176, 208, 240, 256, 288}
=============================================================================
