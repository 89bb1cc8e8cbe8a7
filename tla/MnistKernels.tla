----------------------------- MODULE MnistKernels -----------------------------
(***************************************************************************)
(* The integer kernels of the MNIST firmware benchmarks (src/sw/mnist-     *)
(* newlib, src/sw/mnist-host) as operators.  An array is a function on     *)
(* 0..n-1.  A loop that accumulates is the sum over the indices the loop   *)
(* visits; the order does not matter because no sum leaves int32 for the   *)
(* values the model takes (see Firmware for the bounds).  A 32- or 64-bit  *)
(* register loaded from memory is its lanes, each the unsigned field the   *)
(* load puts there; the SIMD instructions read the fields back as signed   *)
(* lanes and add up the lane products, which is what the code's comments   *)
(* say PVMAC, VMAC.B, VMAC.H and VMAC.W compute.                           *)
(***************************************************************************)
EXTENDS Integers, FiniteSets, Functions

CONSTANTS
    InputSize,  \* INPUT_SIZE (784 in the code)
    HiddenSize, \* HIDDEN_SIZE (32)
    OutputSize, \* OUTPUT_SIZE (10)
    TestSize    \* TEST_SIZE of benchmark_sew_compare.c (64)

Idx(n) == 0..n - 1

\* The field a value of an intN_t array occupies in a register.
Field(v, bits) == IF bits = 32 THEN v ELSE v % 2^bits

\* A field read back as a signed lane.
Signed(u, bits) == IF bits < 32 /\ u >= 2^(bits - 1) THEN u - 2^bits ELSE u

\* A slip the dot-product property must notice: a loop bound one stride
\* short, i < n - step.
ChunksShort(n, step) == {i \in Idx(n - step) : i % step = 0}

\* for (int i = 0; i < n; i += step)
Chunks(n, step) == {i \in Idx(n) : i % step = 0}

\* VLD, or a pointer-cast load: lanes consecutive elements of arr from i.
Vld(arr, i, lanes, bits) == [k \in Idx(lanes) |-> Field(arr[i + k], bits)]

\* PVMAC, VMAC.B, VMAC.H, VMAC.W: the sum of the signed lane products.
Vmac(a, b, bits) ==
    SumFunction([k \in DOMAIN a |-> Signed(a[k], bits) * Signed(b[k], bits)])

\* A slip the forward property must notice: pack4 without the (uint8_t)
\* casts, so a negative element's sign extension fills the lanes above it.
pack4Unmasked(a, b, c, d) ==
    LET e == <<a, b, c, d>>
    IN  [k \in Idx(4) |-> IF \E m \in 1..k : e[m] < 0 THEN 255 ELSE e[k + 1] % 256]

\* benchmark_pvmac.c pack4: (uint8_t)a | (uint8_t)b << 8 | ... as lanes.
pack4(a, b, c, d) == [k \in Idx(4) |-> <<a, b, c, d>>[k + 1] % 256]

\* A slip the type invariant must notice: a relu without the upper clamp.
relu_int8Unclamped(x) == IF x < 0 THEN 0 ELSE x

\* relu_int8 of benchmark_mnist_sew.c, _pvmac.c and _wide_vec.c.
relu_int8(x) == IF x < 0 THEN 0 ELSE IF x > 127 THEN 127 ELSE x

\* The activations of mlp_forward_vmac_h (int16 clamp) and _vmac_w.
relu_int16(x) == IF x < 0 THEN 0 ELSE IF x > 32767 THEN 32767 ELSE x
relu_int32(x) == IF x < 0 THEN 0 ELSE x

\* The activation a kernel applies, by the width of its elements.
Act(act, x) == CASE act = "int8"  -> relu_int8(x)
                 [] act = "int16" -> relu_int16(x)
                 [] act = "int32" -> relu_int32(x)

RECURSIVE ArgmaxMaxVal(_, _, _, _, _)
ArgmaxMaxVal(arr, i, n, max_idx, max_val) ==
    IF i >= n THEN max_idx
    ELSE IF arr[i] > max_val THEN ArgmaxMaxVal(arr, i + 1, n, i, arr[i])
    ELSE ArgmaxMaxVal(arr, i + 1, n, max_idx, max_val)

\* argmax_int32, and the same loop inline in mlp_forward_pvmac and
\* mlp_forward_wide_vec: a strictly larger value replaces max_val.
argmax_int32(arr, n) == ArgmaxMaxVal(arr, 1, n, 0, arr[0])

\* The argmax of benchmark_mnist_sew.c: if (output[i] > output[pred]).
RECURSIVE ArgmaxPred(_, _, _, _)
ArgmaxPred(arr, i, n, pred) ==
    IF i >= n THEN pred
    ELSE ArgmaxPred(arr, i + 1, n, IF arr[i] > arr[pred] THEN i ELSE pred)

-----------------------------------------------------------------------------
(* benchmark_mnist_sew.c *)

\* prepare_weights: W_packed[j][i] = W[i][j], for every element width.
Transpose(W, rows, cols) == [j \in Idx(cols) |-> [i \in Idx(rows) |-> W[i][j]]]

\* One layer over transposed weights: for each neuron j, acc is the sum
\* over the loop's chunks of the lane MAC of the loaded input and weights.
LaneLayer(x, Wp, nIn, nOut, lanes, bits, act) ==
    [j \in Idx(nOut) |->
        Act(act, SumFunctionOnSet(
              [c \in Chunks(nIn, lanes) |->
                  Vmac(Vld(x, c, lanes, bits), Vld(Wp[j], c, lanes, bits), bits)],
              Chunks(nIn, lanes)))]

SewForward(x, W1p, W2p, lanes, bits, act) ==
    LET h == LaneLayer(x, W1p, InputSize, HiddenSize, lanes, bits, act)
        o == LaneLayer(h, W2p, HiddenSize, OutputSize, lanes, bits, act)
    IN  [hidden |-> h, output |-> o, pred |-> ArgmaxPred(o, 1, OutputSize, 0)]

\* The scalar loop is one int32 lane per step; pvmac loads four int8 with a
\* uint32_t pointer cast; vmac_b/h/w load 64 bits of int8/int16/int32.
mlp_forward_scalar(x, W1p, W2p) == SewForward(x, W1p, W2p, 1, 32, "int8")
mlp_forward_pvmac(x, W1p, W2p)  == SewForward(x, W1p, W2p, 4, 8, "int8")
mlp_forward_vmac_b(x, W1p, W2p) == SewForward(x, W1p, W2p, 8, 8, "int8")
mlp_forward_vmac_h(x, W1p, W2p) == SewForward(x, W1p, W2p, 4, 16, "int16")
mlp_forward_vmac_w(x, W1p, W2p) == SewForward(x, W1p, W2p, 2, 32, "int32")

-----------------------------------------------------------------------------
(* benchmark_pvmac.c and benchmark_wide_vec.c: weights read untransposed, *)
(* W[i][j], and packed on the fly.                                         *)

PackedLayer(x, W, nIn, nOut) ==
    [j \in Idx(nOut) |->
        relu_int8(SumFunctionOnSet(
            [c \in Chunks(nIn, 4) |->
                Vmac(pack4(x[c], x[c + 1], x[c + 2], x[c + 3]),
                     pack4(W[c][j], W[c + 1][j], W[c + 2][j], W[c + 3][j]), 8)],
            Chunks(nIn, 4)))]

mlp_forward_pvmac_packed(x, W1, W2) ==
    LET h == PackedLayer(x, W1, InputSize, HiddenSize)
        o == PackedLayer(h, W2, HiddenSize, OutputSize)
    IN  [hidden |-> h, output |-> o, pred |-> argmax_int32(o, OutputSize)]

\* input_vec[k] = x[i + k]; weight_vec[k] = W[i + k][j]; vec_mac_8.
WideLayer(x, W, nIn, nOut) ==
    [j \in Idx(nOut) |->
        relu_int8(SumFunctionOnSet(
            [c \in Chunks(nIn, 8) |->
                LET xv == [k \in Idx(8) |-> x[c + k]]
                    wv == [k \in Idx(8) |-> W[c + k][j]]
                IN  Vmac(Vld(xv, 0, 8, 8), Vld(wv, 0, 8, 8), 8)],
            Chunks(nIn, 8)))]

mlp_forward_wide_vec(x, W1, W2) ==
    LET h == WideLayer(x, W1, InputSize, HiddenSize)
        o == WideLayer(h, W2, HiddenSize, OutputSize)
    IN  [hidden |-> h, output |-> o, pred |-> argmax_int32(o, OutputSize)]

-----------------------------------------------------------------------------
(* benchmark_sew_compare.c *)

\* init_test_data: the operands of the four dot products.
TestData ==
    [a   |-> [i \in Idx(TestSize) |-> (i % 10) - 5],
     b   |-> [i \in Idx(TestSize) |-> (i % 7) - 3],
     a16 |-> [i \in Idx(TestSize \div 2) |-> (i % 100) - 50],
     b16 |-> [i \in Idx(TestSize \div 2) |-> (i % 70) - 35],
     a32 |-> [i \in Idx(TestSize \div 4) |-> (i % 1000) - 500],
     b32 |-> [i \in Idx(TestSize \div 4) |-> (i % 700) - 350]]

\* dot_product_pvmac packs four int8 of each operand as pack4 does.
dot_product_pvmac(t) ==
    SumFunctionOnSet(
        [i \in Chunks(TestSize, 4) |->
            Vmac(pack4(t.a[i], t.a[i + 1], t.a[i + 2], t.a[i + 3]),
                 pack4(t.b[i], t.b[i + 1], t.b[i + 2], t.b[i + 3]), 8)],
        Chunks(TestSize, 4))

\* dot_product_vmac_b/h/w: VLD both operands, VMAC at SEW 8, 16, 32.
VldDot(a, b, n, lanes, bits) ==
    SumFunctionOnSet(
        [i \in Chunks(n, lanes) |-> Vmac(Vld(a, i, lanes, bits), Vld(b, i, lanes, bits), bits)],
        Chunks(n, lanes))

dot_product_vmac_b(t) == VldDot(t.a, t.b, TestSize, 8, 8)
dot_product_vmac_h(t) == VldDot(t.a16, t.b16, TestSize \div 2, 4, 16)
dot_product_vmac_w(t) == VldDot(t.a32, t.b32, TestSize \div 4, 2, 32)

-----------------------------------------------------------------------------
(* The host benchmarks: mnist-host/benchmark_int8_relu.c, _int32_relu.c,  *)
(* and mnist-newlib/benchmark_int32.c.  A net is [W1, b1, W2, b2].         *)

\* benchmark_int8_relu.c relu_int8: x >> 10 (arithmetic), then [0, 127].
relu_int8_shift(x) ==
    LET scaled == x \div 1024 IN
    IF scaled <= 0 THEN 0 ELSE IF scaled > 127 THEN 127 ELSE scaled

\* q16_mul and fp_mul: ((int64_t)a * b) >> 16, an arithmetic shift.
q16_mul(a, b) == (a * b) \div 65536

\* Sum over i of x[i] * W[i][j] for neuron j of a layer: the plain int32
\* product, or the Q16.16 product q16_mul.
MacColumn(x, W, nIn, j, q16) ==
    SumFunctionOnSet([i \in Idx(nIn) |->
                         IF q16 THEN q16_mul(x[i], W[i][j]) ELSE x[i] * W[i][j]],
                     Idx(nIn))

mlp_predict_int8_relu(x, net) ==
    LET h == [j \in Idx(HiddenSize) |->
                 relu_int8_shift(MacColumn(x, net.W1, InputSize, j, FALSE) + net.b1[j] * 64)]
        o == [j \in Idx(OutputSize) |->
                 MacColumn(h, net.W2, HiddenSize, j, FALSE) + net.b2[j] * 32]
    IN  [output |-> o, pred |-> argmax_int32(o, OutputSize)]

relu_q16(x) == IF x > 0 THEN x ELSE 0

mlp_predict_q16_relu(x, net) ==
    LET h == [j \in Idx(HiddenSize) |->
                 relu_q16(MacColumn(x, net.W1, InputSize, j, TRUE) + net.b1[j])]
        o == [j \in Idx(OutputSize) |->
                 MacColumn(h, net.W2, HiddenSize, j, TRUE) + net.b2[j]]
    IN  [output |-> o, pred |-> argmax_int32(o, OutputSize)]

\* benchmark_int32.c sigmoid_fp: piecewise linear 0.5 + x/4 (x >> 2).
sigmoid_fp(x) ==
    LET five_fp == 5 * 65536
        result  == 32768 + x \div 4
    IN  CASE x < -five_fp -> 0
          [] x > five_fp  -> 65536
          [] result < 0   -> 0
          [] result > 65536 -> 65536
          [] OTHER        -> result

mlp_predict_int32(x, net) ==
    LET h == [j \in Idx(HiddenSize) |->
                 sigmoid_fp(net.b1[j] + MacColumn(x, net.W1, InputSize, j, TRUE))]
        o == [j \in Idx(OutputSize) |->
                 net.b2[j] + MacColumn(h, net.W2, HiddenSize, j, TRUE)]
    IN  [output |-> o, pred |-> argmax_int32(o, OutputSize)]

-----------------------------------------------------------------------------
(***************************************************************************)
(* References: what the kernels compute, without lanes, packing or loops.  *)
(***************************************************************************)
RefDot(a, b) == SumFunction([i \in DOMAIN a |-> a[i] * b[i]])

\* The lowest index holding the largest value.
FirstArgmax(arr) ==
    CHOOSE i \in DOMAIN arr : /\ \A k \in DOMAIN arr : arr[k] <= arr[i]
                              /\ \A k \in DOMAIN arr : arr[k] = arr[i] => i <= k

\* The two-layer network on untransposed weights W[i][j].
RefLayer(x, W, nIn, nOut, act) ==
    [j \in Idx(nOut) |-> Act(act, RefDot(x, [i \in Idx(nIn) |-> W[i][j]]))]

RefForward(x, W1, W2, act) ==
    LET h == RefLayer(x, W1, InputSize, HiddenSize, act)
        o == RefLayer(h, W2, HiddenSize, OutputSize, act)
    IN  [hidden |-> h, output |-> o, pred |-> FirstArgmax(o)]

====
