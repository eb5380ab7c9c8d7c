---------------------------- MODULE MCComandante ----------------------------
\* Comandante on a small campaign; Comandante.cfg gives it its size.
EXTENDS Comandante
=============================================================================
