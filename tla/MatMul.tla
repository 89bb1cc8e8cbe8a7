------------------------------- MODULE MatMul -------------------------------
(***************************************************************************)
(* The benchmark src/sw/mnist-newlib/matmul.c: matmul() computes C = A * B *)
(* for N x N int32_t matrices with the i, j, k loop nest, and main() then  *)
(* checks C[0][0] against a constant "calculated offline".  One step is    *)
(* one iteration of the innermost loop, or the store that ends it.         *)
(* Matrices are 1-indexed functions here.  The sums are plain integers:   *)
(* for the program's matrices no partial sum comes near 2^31.              *)
(***************************************************************************)
EXTENDS Integers

CONSTANTS
    N,          \* the matrix size (8)
    A, B,       \* the initialised global matrices
    Expected    \* the constant main() compares C[0][0] with

Idx == 1..N

VARIABLES
    i, j, k,    \* the loop counters
    sum,        \* the running dot product
    C,          \* the result matrix (a zero-initialised global)
    done        \* matmul() has returned

vars == <<i, j, k, sum, C, done>>

Init ==
    /\ i = 1 /\ j = 1 /\ k = 1
    /\ sum = 0
    /\ C = [r \in Idx |-> [c \in Idx |-> 0]]
    /\ done = FALSE

\* Lines 62-64: sum += A[i][k] * B[k][j].
Accumulate ==
    /\ ~done /\ k <= N
    /\ sum' = sum + A[i][k] * B[k][j]
    /\ k' = k + 1
    /\ UNCHANGED <<i, j, C, done>>

\* Lines 59-61, 65-67: C[i][j] = sum, then the next j (or the next i), with
\* a fresh sum; the function returns after the last row.
Store ==
    /\ ~done /\ k > N
    /\ C' = [C EXCEPT ![i][j] = sum]
    /\ sum' = 0 /\ k' = 1
    /\ j' = IF j < N THEN j + 1 ELSE 1
    /\ i' = IF j < N THEN i ELSE i + 1
    /\ done' = (j = N /\ i = N)

Returned == done /\ UNCHANGED vars

Next == Accumulate \/ Store \/ Returned

Spec == Init /\ [][Next]_vars /\ WF_vars(Next)

\* The self-check of main() (lines 119-126): once matmul() has returned,
\* C[0][0] equals the value the program was written to expect, so the
\* benchmark reports PASS.
VerificationPasses == done => C[1][1] = Expected

=============================================================================
