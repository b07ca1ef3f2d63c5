-------------------------------- MODULE MCLfht ---------------------------------
\* Lfht on small tables.  Keys that collide in a table of two part in one of four.
EXTENDS Lfht

MCHash(k) == 2 * k

================================================================================
