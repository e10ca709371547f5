------------------------------- MODULE MCDriver -------------------------------
(* The driver with the sensor worker and one thread of the server's pool.  *)
EXTENDS Driver

CONSTANTS h1, h2, u1, f1, f2, d1, d2, d3
===============================================================================
