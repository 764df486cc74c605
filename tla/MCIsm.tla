------------------------------- MODULE MCIsm -------------------------------
EXTENDS Ism

\* Two threads that ask for different amounts.
Sizes == <<1, 2>>
=============================================================================
