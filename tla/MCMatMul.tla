------------------------------ MODULE MCMatMul ------------------------------
(* The matrices and the expected value exactly as matmul.c initialises     *)
(* them (lines 12-32, 120): row r of A counts up from r, row r of B counts *)
(* down from 9 - r, both cyclically through 1..8.                          *)
EXTENDS MatMul

MCA == <<<<1, 2, 3, 4, 5, 6, 7, 8>>, <<2, 3, 4, 5, 6, 7, 8, 1>>,
         <<3, 4, 5, 6, 7, 8, 1, 2>>, <<4, 5, 6, 7, 8, 1, 2, 3>>,
         <<5, 6, 7, 8, 1, 2, 3, 4>>, <<6, 7, 8, 1, 2, 3, 4, 5>>,
         <<7, 8, 1, 2, 3, 4, 5, 6>>, <<8, 1, 2, 3, 4, 5, 6, 7>>>>

MCB == <<<<8, 7, 6, 5, 4, 3, 2, 1>>, <<7, 6, 5, 4, 3, 2, 1, 8>>,
         <<6, 5, 4, 3, 2, 1, 8, 7>>, <<5, 4, 3, 2, 1, 8, 7, 6>>,
         <<4, 3, 2, 1, 8, 7, 6, 5>>, <<3, 2, 1, 8, 7, 6, 5, 4>>,
         <<2, 1, 8, 7, 6, 5, 4, 3>>, <<1, 8, 7, 6, 5, 4, 3, 2>>>>

=============================================================================
