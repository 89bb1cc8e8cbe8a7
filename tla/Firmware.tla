------------------------------- MODULE Firmware -------------------------------
(***************************************************************************)
(* The main() functions of the MNIST firmware benchmarks.  The firmware    *)
(* image the harness runs is one of Programs; its main() is the sequence   *)
(* of calls Steps(prog), one call per step, in the code's order (the       *)
(* cycle-counter reads and the prints between them change nothing the      *)
(* model observes and are left out).  The arrays a call writes are state:  *)
(* the packed weights, the activation buffers main() passes in, the        *)
(* results of the dot products, the count of correct predictions and the   *)
(* exit status.                                                            *)
(***************************************************************************)
EXTENDS MnistKernels, Sequences

CONSTANTS
    Programs,   \* the benchmark programs (names below)
    Int8Nets,   \* [W1, W2] of mnist_weights_int8.h the int8 kernels use
    Int8Image,  \* test_images[0] converted to int8
    HostNets,   \* [W1, b1, W2, b2] of mnist_weights_int8_relu.h
    HostSamples,\* <<[image, label], ...>>: test_images_i8 and test_labels
    Q16Nets,    \* [W1, b1, W2, b2] in Q16.16 (mnist_weights_int32*.h)
    Q16Samples, \* the test images as float_to_q16 converts them, and labels
    NoArray     \* the value of an array not yet written (a model value)

SewKernels == {"scalar", "pvmac", "vmac_b", "vmac_h", "vmac_w"}
Forwards   == SewKernels \cup {"pvmac_packed", "wide_vec"}
Dots       == {"dot_pvmac", "dot_vmac_b", "dot_vmac_h", "dot_vmac_w"}

Call(fn) == [fn |-> fn, s |-> 0]
Sample(k) == [fn |-> "sample", s |-> k]
WarmUp    == [fn |-> "warmup", s |-> 1]      \* on test_images[0]

\* The benchmark loop over NUM_TEST_SAMPLES, then the exit status.
SampleLoop(n) == [k \in 1..n |-> Sample(k)] \o <<Call("exit")>>

\* benchmark_mnist_sew.c main, lines 285-316: prepare_weights, a warm-up
\* call of every kernel, then the timed calls in the same order.
SewMain == <<Call("prepare")>> \o
           [k \in 1..10 |-> Call(<<"scalar", "pvmac", "vmac_b", "vmac_h", "vmac_w">>[((k - 1) % 5) + 1])]

\* benchmark_sew_compare.c main, lines 140-172: init_test_data, a warm-up
\* of each dot product, then each timed loop (its 100 iterations compute
\* the same value and are one step).
SewCompareMain == <<Call("init")>> \o
           [k \in 1..8 |-> [fn |-> <<"dot_pvmac", "dot_vmac_b", "dot_vmac_h", "dot_vmac_w">>[((k - 1) % 4) + 1],
                            s  |-> IF k > 4 THEN 1 ELSE 0]]     \* s = 1: the timed, stored call

Steps(p) ==
    CASE p = "sew"         -> SewMain
      [] p = "pvmac"       -> <<Call("pvmac_packed"), Call("pvmac_packed")>>  \* pvmac.c 109-117
      [] p = "wide_vec"    -> <<Call("wide_vec"), Call("wide_vec")>>          \* wide_vec.c 187-195
      [] p = "sew_compare" -> SewCompareMain
      [] p = "int8_relu"   -> <<WarmUp>> \o SampleLoop(Len(HostSamples))
      [] p = "q16_relu"    -> <<WarmUp>> \o SampleLoop(Len(Q16Samples))
      [] p = "int32"       -> SampleLoop(Len(Q16Samples))                     \* warm-up commented out

\* The sample loop's prediction, and the logits the argmax is taken of.
HostPredict(p, net, x) ==
    CASE p = "int8_relu" -> mlp_predict_int8_relu(x, net)
      [] p = "q16_relu"  -> mlp_predict_q16_relu(x, net)
      [] p = "int32"     -> mlp_predict_int32(x, net)

HostSamplesOf(p) == IF p = "int8_relu" THEN HostSamples ELSE Q16Samples

\* A slip the accuracy property must notice: exactly 80% counted a failure.
ExitStatusStrict(correct, n, threshold) == IF correct * 100 > threshold * n THEN 0 ELSE 1

\* return (accuracy >= 80.0) ? 0 : 1, accuracy = (float)correct / N * 100.
ExitStatus(correct, n, threshold) == IF correct * 100 >= threshold * n THEN 0 ELSE 1

VARIABLES
    prog, pc,           \* the program and its next step
    net,                \* the weights it is built with
    packed,             \* W1_packed/W2_packed (and _h, _w: the same values)
    hidden, output,     \* int8 buffers (sew: main's locals; others: main's)
    hidden_h, output_h, hidden_w, output_w,  \* sew's int16 and int32 globals
    returned,           \* the forward calls made and what each returned
    test,               \* the test_* arrays of benchmark_sew_compare.c
    results,            \* result_pvmac ... result_vmac_w
    correct,            \* int correct
    exitcode            \* main's return value, once it returns

vars == <<prog, pc, net, packed, hidden, output, hidden_h, output_h, hidden_w,
          output_w, returned, test, results, correct, exitcode>>

NetsOf(p) == CASE p \in {"sew", "pvmac", "wide_vec", "sew_compare"} -> Int8Nets
               [] p = "int8_relu" -> HostNets
               [] OTHER -> Q16Nets

Init ==
    /\ prog \in Programs
    /\ pc = 1
    /\ net \in NetsOf(prog)
    /\ packed = NoArray
    /\ hidden = NoArray /\ output = NoArray
    /\ hidden_h = [j \in Idx(HiddenSize) |-> 0] /\ output_h = [j \in Idx(OutputSize) |-> 0]
    /\ hidden_w = [j \in Idx(HiddenSize) |-> 0] /\ output_w = [j \in Idx(OutputSize) |-> 0]
    /\ returned = <<>>
    /\ test = NoArray /\ results = [d \in {} |-> 0]
    /\ correct = 0
    /\ exitcode = NoArray

Running == pc <= Len(Steps(prog))
Step == Steps(prog)[pc]

\* sew.c prepare_weights (lines 31-47): transpose W1 and W2.
Prepare ==
    /\ Running /\ Step.fn = "prepare"
    /\ packed' = [W1p |-> Transpose(net.W1, InputSize, HiddenSize),
                  W2p |-> Transpose(net.W2, HiddenSize, OutputSize)]
    /\ pc' = pc + 1
    /\ UNCHANGED <<prog, net, hidden, output, hidden_h, output_h, hidden_w, output_w,
                   returned, test, results, correct, exitcode>>

\* The result of a forward kernel on the first test image.
ForwardOf(fn) ==
    CASE fn = "scalar"       -> mlp_forward_scalar(Int8Image, packed.W1p, packed.W2p)
      [] fn = "pvmac"        -> mlp_forward_pvmac(Int8Image, packed.W1p, packed.W2p)
      [] fn = "vmac_b"       -> mlp_forward_vmac_b(Int8Image, packed.W1p, packed.W2p)
      [] fn = "vmac_h"       -> mlp_forward_vmac_h(Int8Image, packed.W1p, packed.W2p)
      [] fn = "vmac_w"       -> mlp_forward_vmac_w(Int8Image, packed.W1p, packed.W2p)
      [] fn = "pvmac_packed" -> mlp_forward_pvmac_packed(Int8Image, net.W1, net.W2)
      [] fn = "wide_vec"     -> mlp_forward_wide_vec(Int8Image, net.W1, net.W2)

\* A forward kernel: it writes the buffers main() passed and returns the
\* prediction (sew.c 288-314, pvmac.c 109-117, wide_vec.c 187-195).
Forward ==
    /\ Running /\ Step.fn \in Forwards
    /\ LET r == ForwardOf(Step.fn) IN
       /\ returned' = Append(returned, [fn |-> Step.fn, r |-> r])
       /\ CASE Step.fn = "vmac_h" ->
                 hidden_h' = r.hidden /\ output_h' = r.output
                 /\ UNCHANGED <<hidden, output, hidden_w, output_w>>
            [] Step.fn = "vmac_w" ->
                 hidden_w' = r.hidden /\ output_w' = r.output
                 /\ UNCHANGED <<hidden, output, hidden_h, output_h>>
            [] OTHER ->
                 hidden' = r.hidden /\ output' = r.output
                 /\ UNCHANGED <<hidden_h, output_h, hidden_w, output_w>>
    /\ pc' = pc + 1
    /\ UNCHANGED <<prog, net, packed, test, results, correct, exitcode>>

\* sew_compare.c init_test_data (lines 26-39).
InitTestData ==
    /\ Running /\ Step.fn = "init"
    /\ test' = TestData
    /\ pc' = pc + 1
    /\ UNCHANGED <<prog, net, packed, hidden, output, hidden_h, output_h, hidden_w,
                   output_w, returned, results, correct, exitcode>>

\* sew_compare.c 143-172: a warm-up call, whose result is discarded, or
\* the timed loop's result_X = dot_product_X() (volatile stores).
DotProduct ==
    /\ Running /\ Step.fn \in Dots
    /\ LET v == CASE Step.fn = "dot_pvmac"  -> dot_product_pvmac(test)
                  [] Step.fn = "dot_vmac_b" -> dot_product_vmac_b(test)
                  [] Step.fn = "dot_vmac_h" -> dot_product_vmac_h(test)
                  [] Step.fn = "dot_vmac_w" -> dot_product_vmac_w(test)
       IN  results' = IF Step.s = 1
                      THEN [d \in DOMAIN results \cup {Step.fn} |->
                               IF d = Step.fn THEN v ELSE results[d]]
                      ELSE results
    /\ pc' = pc + 1
    /\ UNCHANGED <<prog, net, packed, hidden, output, hidden_h, output_h, hidden_w,
                   output_w, returned, test, correct, exitcode>>

\* One iteration of the sample loop (int8_relu.c 191-229, int32_relu.c
\* 201-227, int32.c 164-189), or the warm-up call before it: predict,
\* and count the prediction if it is the label.
PredictSample ==
    /\ Running /\ Step.fn \in {"warmup", "sample"}
    /\ LET smp == HostSamplesOf(prog)[Step.s]
           hit == HostPredict(prog, net, smp.image).pred = smp.label
       IN  correct' = IF Step.fn = "sample" /\ hit THEN correct + 1 ELSE correct
    /\ pc' = pc + 1
    /\ UNCHANGED <<prog, net, packed, hidden, output, hidden_h, output_h, hidden_w,
                   output_w, returned, test, results, exitcode>>

\* The return of main: int8_relu.c 231-258 (80%), int32_relu.c 230-255
\* (85%); benchmark_int32.c returns 0 (line 211).
Exit ==
    /\ Running /\ Step.fn = "exit"
    /\ exitcode' = CASE prog = "int8_relu" -> ExitStatus(correct, Len(HostSamples), 80)
                     [] prog = "q16_relu"  -> ExitStatus(correct, Len(Q16Samples), 85)
                     [] OTHER             -> 0
    /\ pc' = pc + 1
    /\ UNCHANGED <<prog, net, packed, hidden, output, hidden_h, output_h, hidden_w,
                   output_w, returned, test, results, correct>>

\* asm volatile ("ebreak") or the return: the program has ended.
Halted == ~Running /\ UNCHANGED vars

Next == Prepare \/ Forward \/ InitTestData \/ DotProduct \/ PredictSample \/ Exit \/ Halted

Spec == Init /\ [][Next]_vars /\ WF_vars(Next)

-----------------------------------------------------------------------------
TypeOK ==
    /\ pc \in 1..Len(Steps(prog)) + 1
    /\ hidden \in [Idx(HiddenSize) -> 0..127] \cup {NoArray}
    /\ output \in [Idx(OutputSize) -> 0..127] \cup {NoArray}
    /\ hidden_h \in [Idx(HiddenSize) -> 0..32767]
    /\ output_h \in [Idx(OutputSize) -> 0..32767]
    /\ correct \in 0..Len(HostSamplesOf(prog))
    /\ exitcode \in {0, 1, NoArray}

\* The activation each kernel is written to apply.
RefOf(fn) ==
    CASE fn = "vmac_h" -> RefForward(Int8Image, net.W1, net.W2, "int16")
      [] fn = "vmac_w" -> RefForward(Int8Image, net.W1, net.W2, "int32")
      [] OTHER         -> RefForward(Int8Image, net.W1, net.W2, "int8")

\* Every forward kernel, scalar or vectorised, lane-packed or loaded with
\* VLD, transposed or not, leaves in its buffers the hidden and output
\* activations of the network and returns the lowest index of the largest
\* output: the lanes, packing, strides and argmax loops are exact.
ForwardsMatchReference ==
    \A k \in DOMAIN returned : returned[k].r = RefOf(returned[k].fn)

\* Each SIMD dot product of benchmark_sew_compare.c, at the code's size of
\* 64 elements, equals the plain dot product of its operands: the lane
\* signs survive packing and loading at every element width.
DotProductsExact ==
    \A d \in DOMAIN results :
        results[d] = CASE d = "dot_pvmac"  -> RefDot(TestData.a, TestData.b)
                       [] d = "dot_vmac_b" -> RefDot(TestData.a, TestData.b)
                       [] d = "dot_vmac_h" -> RefDot(TestData.a16, TestData.b16)
                       [] d = "dot_vmac_w" -> RefDot(TestData.a32, TestData.b32)

\* The samples on which the network's lowest-index largest logit is the label.
Hits(p) == {k \in DOMAIN HostSamplesOf(p) :
               FirstArgmax(HostPredict(p, net, HostSamplesOf(p)[k].image).output)
                   = HostSamplesOf(p)[k].label}

\* When a host benchmark returns, its exit status says whether the share
\* of test samples classified correctly reaches the threshold: the warm-up
\* is not counted, every sample is counted once, the boundary is included.
ExitStatusMatchesAccuracy ==
    exitcode # NoArray =>
        exitcode = CASE prog = "int8_relu" ->
                          IF Cardinality(Hits(prog)) * 100 >= 80 * Len(HostSamples) THEN 0 ELSE 1
                     [] prog = "q16_relu" ->
                          IF Cardinality(Hits(prog)) * 100 >= 85 * Len(Q16Samples) THEN 0 ELSE 1
                     [] OTHER -> 0

====
