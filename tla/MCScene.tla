------------------------------ MODULE MCScene ------------------------------
(* Three entities and two matrices, with arrays and tables that start small  *)
(* enough to grow; two of the keys share a bucket before the table grows.    *)
EXTENDS Scene

Keys == {1, 2, 4}
============================================================================
