# TLA+ models of the Verilator co-simulation harness

This directory holds TLA+ models of the host side of the RISC-V SIMD SoC
simulation in `src/`. It covers the Verilator testbench `src/top.cc`, the
image loaders in `src/sim/libSimHelper.cc` and parts of the firmware in
`src/sw/` (the print library and the MNIST integer benchmarks). Every module is translated from the C/C++ source.
`PROJECT.json` maps each definition to the source lines it models and lists
the runs, mutants, findings and hazards.

## The system

`main()` in `src/top.cc` runs these steps:

1. It fills the 16 MiB buffer `imem` with the EBREAK word (`init()`).
2. It loads a Verilog hex image into `imem` (`validate_and_load_binary`).
3. It creates the design `Vtop` and starts the **EBREAK monitor thread**.
4. It opens the trace file, copies the image into the design's SRAM,
   resets the design and selects the parallel UART path
   (`sim_use_par_txrx = 1`, line 328).
5. It runs the **cycle loop** until `$finish`, `interrupted` or `ebreak_hit`
   is set. In each iteration the loop:
   - ticks the `UARTBitDriver`;
   - reads one byte of stdin without blocking (Ctrl+D ends the loop) and
     queues it in the 256-byte ring **`rx_fifo`**;
   - hands queued bytes to the design. On the parallel path it uses the
     `par_rx_valid`/`par_rx_ack` handshake. On the bit-serial path it uses
     `start_tx`/`get_tx_line`;
   - clocks the design;
   - copies the design's output to stdout. The parallel path copies
     `par_tx` when `par_tx_valid` is set; the serial path uses `sample_rx`.

Three actors share the volatile `sig_atomic_t` flags `interrupted` and
`ebreak_hit`:

- the main thread;
- the monitor thread, which sleeps 1 s and then polls `break_hit`;
- the **SIGINT handler**, which sets `interrupted`.

Shutdown sets `interrupted`, joins the monitor, then closes the VCD, dumps
the data memory and deletes the design. If the trace file cannot be opened,
`main` returns 1 straight away, with the monitor still running.

The `UARTBitDriver` class is an 8-N-1 bit codec counted in clock cycles:

- `tick` advances the cycle counter;
- `start_tx` latches a byte;
- `get_tx_line` presents the current bit and advances a bit every
  `cycles_per_bit` cycles;
- `sample_rx` detects a falling edge, samples each bit in a one-cycle window
  in the middle of the bit, and checks the start and stop bits.

The firmware (`src/sw`) is separate code. It runs on the simulated CPU and
reaches the host only through the UART: a print library, CSR and packed-SIMD
smoke tests, and MNIST integer kernels.

## Modules

| module | models | state and actions |
|---|---|---|
| `UartBitDriver` | class `UARTBitDriver` (top.cc 97-216) | No variables. The object is a record of its data members. `Tick`, `StartTx`, `GetTxLine`, `SampleRx` and `IsIdle` map the object (and the arguments) to the object after the call, plus the return value. |
| `ByteStream` | abstract: a reliable ordered byte link | `input`, `delivered`; `Send`, `Deliver`, `SendDeliver` |
| `UartLink` | the bit-serial branch of the loop (top.cc 340-431 with `sim_use_par_txrx = 0`) | driver object, pending host bytes, the design's transmitter (the environment), printed bytes. `Iteration` is one loop iteration, with calls in the code's order. `Quiescent` is the drained state. |
| `BoundedQueue` | abstract: a FIFO of given capacity that drops when full | `queue`, `offered`, `handed` (what left, in order); `Offer`, `Take`, `OfferTake` (both in one step, as one loop iteration does) |
| `HostFifo` | `rx_fifo` with head and tail (top.cc 334-336, 365-369, 376-385) | `FifoPush`/`FifoPop` operators over a `[buf, head, tail]` record. A stand-alone spec with `Enqueue`/`Dequeue`, used by the capacity run. |
| `Harness` | `main()` with the monitor thread and the SIGINT handler, parallel path | main-thread phases (`StartMonitor`, `TraceOpenFails`, `TraceOpened`, `Iteration`, `CtrlDRead`, `LoopExit`, `StopMonitor`, `Join`, `Finalize`), the monitor (`MonitorCheck`, `MonitorPoll`), `SigInt`. It uses `HostFifo` through `INSTANCE`. |
| `HexLoader` | `init()` and `validate_and_load_binary()` (libSimHelper.cc 9-17, 70-168) | `Open` (`fopen` succeeds or the function returns −1), `ReadLine` (one `fgets`), `ParseToken` (one token of a data line), `EndOfFile`, `Returned`. `RefLoad` is a RECURSIVE reference loader written from spec.md section 4.1. |
| `ImageLoad` | `main()` from `init()` to the reset edges (top.cc 45, 249-323) | `HexLoader`'s variables (it extends `HexLoader`, so its own `Init`, `Next` and `Spec` are `ImageInit`, `ImageNext`, `ImageSpec`), `phase`, the copy index `i`, `sram` (BufSize/4 words, each its four bytes, least significant first) and the ghost `sram_reset`. `Load` (one loader step), `LoadFailed`, `SetUp` (PTY, design, monitor, trace file: continues or exits), `CopyWord` (one iteration of the copy loop), `CopyDone` (loop exit and reset), `Stopped`. |
| `ElfLoader` | `load_elf()` (libSimHelper.cc 170-292) | One action per step: `MakeTemp`, `MakeNmTemp`, `RunNm`, `ScanLine` (one `fgets` of nm output), `ScanEnd`, `CheckStart`, `Extract`, `CheckSize`, `ReadText`. `RefLoad` gives the error spec.md section 4.1 prescribes. |
| `PrintInt` | firmware `puts()`, `printf()` and `printint()` (src/sw/test/print.c 4-86) | `printint` is the operator `PrintIntOut`, with its do-while loop as RECURSIVE `DigitLoop` in `Bits`-wide two's complement and C's truncating `/` and `%`. `fn` says which function is called, on a string from `Formats`. `printf` is a state machine: `Literal`, `Conversion` (the argument drawn with `\E`), `Terminator`; `puts` is `PutsChar` (one character) and `PutsEnd` (the newline); both end in `Returned`. `RefPrintf` is a RECURSIVE reference for what the conversions mean in C. |
| `MatMul` | `matmul()` and its self-check (src/sw/mnist-newlib/matmul.c) | The triple loop as `Accumulate` (one `k` step) and `Store` (one `C[i][j]`), on the code's own 8x8 matrices. |
| `MnistKernels` | the integer kernels of `benchmark_mnist_sew.c`, `_pvmac.c`, `_wide_vec.c`, `_sew_compare.c` (mnist-newlib) and of `benchmark_int8_relu.c`, `benchmark_int32_relu.c` (mnist-host) and `benchmark_int32.c` | No variables: operators. An array is a function on `0..n-1`; a loop's accumulator is the sum over the chunks its stride visits; a load is its lanes as unsigned fields (`Vld`, `pack4`), and `Vmac` reads them back as signed lanes and sums the products. The argmax loops are RECURSIVE. `RefForward`, `RefDot` and `FirstArgmax` are references without lanes, packing or transposition. |
| `Firmware` | the `main()` of each of those seven programs | `prog` is chosen in `Init`; `Steps(prog)` is its list of calls in the code's order; one action per kind of call: `Prepare` (`prepare_weights`), `Forward` (a forward kernel writing `hidden`/`output` or the `_h`/`_w` globals), `InitTestData`, `DotProduct` (warm-up discarded, timed result stored), `PredictSample` (warm-up or one loop iteration, counting `correct`), `Exit` (the return value), `Halted`. |

Each `MC*.tla` module gives the constants their model values.

### How the models abstract the code

- **UartLink: one loop iteration is one step.** The code is single-threaded
  and the design is only evaluated between the driver calls, so nothing can
  interleave inside an iteration.
- **UartLink: the design is the environment.**
  - In `"loopback"`, its tx pin follows its rx pin.
  - In `"uart"`, it is an 8-N-1 transmitter whose stop bit lasts
    `cycles_per_bit + DevGap` cycles.
- **Harness: the design's behaviour is a choice in each iteration.**
  - `accept`: whether the design takes a presented byte. It acknowledges
    for exactly one edge and echoes each byte with a one-edge
    `par_tx_valid` pulse.
  - `halt`: whether it raises `break_hit` (held) or calls `$finish`.
- **Harness: the uninitialised `par_rx` is any byte.**
- **Harness: stdin is a nondeterministic `read()` result** each iteration:
  no data, a byte, or Ctrl+D.
- **HexLoader: the text of a line is abstracted to what `sscanf` makes of
  it.** This covers comment or blank lines, address directives (readable or
  not), hex tokens (a digit count and a value), and characters the loop
  skips.
- **HexLoader: addresses keep their wrap-around.** They are computed mod
  `2^AddrBits`, like the code's `uint32_t`.
- **ImageLoad: an SRAM word is its four bytes,** least significant first,
  because a `uint32_t` does not fit TLC's integers; the shift-and-or at
  top.cc 313-316 becomes the tuple `Word(imem, i)`. The design's memory
  before the copy is a choice per word from `SramInit` (zero words, as a
  default Verilator build gives, or random bits), since the design and its
  initialisation are outside this repository. The PTY, the design object,
  the monitor thread and the trace file are one `SetUp` step whose only
  effect on the image is whether `main()` goes on or returns 1.
- **ElfLoader: the toolchain is the environment.** An object file is its
  symbols and its `.text` size. nm's output is those symbols in any order.
  Whether each `mkstemp`, `fopen`, `objcopy` and `fread` fails is chosen
  in `Init`, so the reference can be computed from the same choices.
- **Firmware: the input image and the weights are constants.** The
  float-to-int8 (`* 127.0f`) and float-to-Q16 conversions of the test
  image happen before any modelled call, so the model starts from their
  results. Cycle-counter reads and prints change nothing the properties
  observe and are left out. The 100 identical iterations of a timed
  dot-product loop are one step, since each stores the same value.
- **Firmware: the SIMD instructions are what the code's comments say.**
  PVMAC, VMAC.B/H/W are the sum of the signed lane products (the
  hardware is outside this repository).
- **UartLink: the design is chosen once.** `design` is a constant-valued
  variable picked in `Init` from `Designs`, so one run covers the loopback
  design and the transmitter with a one-cycle stop gap.

## Runs

| run | expect | what it shows |
|---|---|---|
| `UartLink` | pass | For the loopback design and for a transmitter that leaves one extra stop cycle, the receiver refines `ByteStream` (bytes in order, none lost, duplicated or invented), and eventually all bytes are printed with no framing error. |
| `UartLinkBackToBack` | violation | With stop bits of exactly one bit time, `sample_rx` loses the second byte (finding 1). |
| `UartLinkTxFrame` | violation | A transmit frame takes 10·cpb+1 `get_tx_line` calls, not the 10·cpb that spec.md section 8 gives (finding 2). |
| `HostFifoCapacity` | violation | `rx_fifo` does not refine a queue of capacity FifoSize as the spec says: one slot is never used (finding 3). |
| `Harness` | pass | The handshake hands the design the queued bytes in order, each once (refines `ByteStream`). Neither flag changes after the join. Every stop cause (SIGINT, EBREAK, `$finish`) leads to `main` returning. `rx_fifo`, pushed and popped in one iteration, together with the byte on `par_rx`, refines a bounded queue of FifoSize−1 bytes (`QueueRefined`): a byte is dropped only when the ring is full, and none is lost, overwritten or reordered. |
| `ImageLoad` | pass | For every file of up to three lines, opened or not, the loader run inside `main()` gives the reference loader's status, return value and whole buffer (`MatchesReference`), and when the design leaves reset every SRAM word below the extent holds the image, least significant byte first, the partial last word padded with EBREAK bytes from `imem`, and every word past the extent still holds what the design started with, as the comment at top.cc 303 intends (`SramHoldsImage`; the ghost `sram_reset` keeps the initial SRAM). The SRAM starts from zero words or random words. |
| `HexLoaderWrap` | violation | A directive near the top of the address space makes the bounds check wrap, and the loader writes outside `imem` (finding 4). |
| `ElfLoaderBssStart` | violation | An object with `_start` at 0 is rejected because nm lists `__bss_start` first (finding 7). |
| `PrintInt` | pass | For every format of up to three characters and every argument choice, `printf` writes what the reference gives: signs, digits, base and order of each number, `(null)`, `%%`, unknown conversions and a trailing `%`; `puts` on the same strings writes them literally, `%` included, and a newline. |
| `PrintIntNegative` | violation | A negative `%x`/`%p` argument, or `INT_MIN` for `%d`, indexes `digits[]` with a negative value (finding 5). |
| `Firmware` | pass | Every forward kernel (scalar, PVMAC with pointer-cast loads, VMAC.B/H/W, PVMAC with `pack4`, wide-vector) leaves the reference network's activations in its buffers and returns its lowest-index argmax, each with the activation its code applies (`ForwardsMatchReference`). The four SEW dot products at TEST_SIZE 64 equal the plain dot product (`DotProductsExact`). The exit status of each host benchmark says whether the share of correctly classified samples, warm-up excluded, reaches the threshold, boundary included (`ExitStatusMatchesAccuracy`). |
| `MatMulSelfCheck` | violation | The benchmark's expected value 204 is not what its own matrices give (120), so it always reports FAIL (finding 6). |

Every property of a passing run has a mutant in `PROJECT.json`: a plausible
slip in one mapped definition that the property detects. Examples:

- a sampling window that never opens;
- a data bit stored one place too high;
- a ring that hands on the newest byte instead of the oldest (caught in `Harness`);
- a pop without the wrap;
- a relu without the upper clamp, a `pack4` without its `uint8_t` casts,
  a kernel loop one stride short, an exit test with `>` for `>=`;
- a handshake that presents the next byte before the previous one is taken;
- a missing `pthread_join`;
- a monitor that ignores `interrupted`;
- a byte written without the `0xFF` mask;
- a bounds check that refuses a write ending at the last byte;
- a `printint` that forgets the minus sign;
- a `printf` that does not stop at a trailing `%`.

### Bounds and why they are enough

- **UartLink:** `ClkFreq = 7`, `BaudRate = 2`, so `cycles_per_bit = 3`.
  - The value is odd, so the mid-bit window (`3 div 2 = 1`) is not
    centred, and the integer division is exercised.
  - All timing guards compare differences of the counter with
    `cycles_per_bit` or `cycles_per_bit / 2`, so cpb = 3 reaches every
    branch of `get_tx_line` and `sample_rx`.
  - The bytes are 0x00, 0x5A and 0xFF. Sequences of up to two of them
    include back-to-back frames and every data-bit pattern that matters to
    edge detection (a low last data bit before the stop bit, a high first
    bit after the start bit).
  - 70 cycles fit two frames and their gaps.
- **HostFifo (capacity run):** 4 slots and 7 offered bytes.
  - The full/empty tests do not depend on the size.
  - 7 bytes fill the ring, hit the drop and wrap both indices.
- **Harness:** a 3-slot FIFO (two usable), 4 typed bytes and 6
  iterations. While the design holds off the handshake, one byte waits on
  `par_rx`, two wait in the ring in the order typed, and a fourth is
  dropped, so the ring's order is exercised: a pop of the newest byte
  instead of the oldest is caught. The design can also take, echo and halt
  in every order.
- **HexLoader:** 5-bit addresses and an 8-byte buffer stand in for 32-bit
  addresses and 16 MiB. Every file has up to three lines, each a comment,
  a directive to 0, 5 or 7, an unreadable directive, or a data line of up
  to two tokens (byte, half-word written with three digits, word, junk).
  - 7 is the last byte.
  - 5+2 fits but 5+4 does not.
  - The wrap run adds the directive 30 = 2^5−2.
  - `ImageLoad` uses the same files, so an extent of 6 (5+1) or 7 leaves a
    partial last SRAM word, and an extent of 8 fills both words.
- **PrintInt:** 8-bit ints instead of 32. The digit loop and the sign
  handling do not depend on the width, and 8 bits keep `INT_MIN` (−128)
  and the unsigned reading of negatives (+256) small. The formats are every
  string of up to three of `a % d x p s q`. This covers a literal, each
  conversion, an unknown one, `%%` and a trailing `%`. The arguments are
  −127, −10, −1, 0, 9, 10 and 127 for `%d` (one and several digits, both
  signs), 0, 15, 16 and 127 for `%x`, and `"b"`, `""` and NULL for `%s`.
- **MatMul:** the code's own 8x8 matrices. The check is of one element, so
  nothing is shrunk.
- **Firmware:** 8 inputs, 8 hidden neurons, 3 outputs. 8 is the widest
  stride (VMAC.B) and every stride of the code (1, 2, 4, 8) divides it, as
  each divides 784 and 32. Three int8 networks: one with weights in ±1
  (activations inside (0, 127)), one with ±2, and one with full-range
  weights, whose outputs saturate at 127 and tie, so the argmax's
  tie-break matters, and whose VMAC.H outputs exceed 127. The weights have
  both signs, so pack4's masking matters. The dot products use the code's
  own TEST_SIZE 64 and `init_test_data`. Host nets: two per format over
  five samples; one int8 net classifies exactly 4 of 5 (80%, the
  threshold), the other 1 of 5. The Q16 values are at most 0.25 (W1) and
  0.125 (W2), so every product stays below TLC's 2^31.
- **ElfLoader:** the violation run needs only one object: `_start` at 0,
  `__bss_start` at 0x40 and an 8-byte section, under every environment.

### Fairness

- **UartLink:** weak fairness on `Iteration`, because the loop iterates as
  long as it runs.
- **Firmware:** weak fairness on the program's next step: it is a single
  thread that runs to its end.
- **ImageLoad:** weak fairness on the next step; start-up is sequential
  code in the main thread. No property of the run is a liveness one.
- **Harness:** weak fairness on each thread (main and monitor), because
  both are runnable threads the OS schedules.

Typed bytes, SIGINT and the design's choices have no fairness. Liveness
never relies on the operator typing or on the design acknowledging.

## Findings

1. **`sample_rx` loses a byte** (code bug, top.cc:163/199-206). The receiver
   returns to idle only at the end of the stop bit, and looks for the start
   edge only while idle. A start bit immediately after a stop bit of one
   bit time is never seen, and the byte vanishes with no framing error.
2. **A transmit frame lasts one call longer than spec.md section 8 says**
   (top.cc:144).

   Findings 1 and 2 are in the bit-serial branch, which line 328 switches
   off (`sim_use_par_txrx = 1`), so `main()` does not run it in the present
   build; they bite as soon as that line is changed back.
3. **`rx_fifo` holds 255 bytes, not 256** (top.cc:366). The 256th byte is
   dropped without notice.
4. **The hex loader's bounds check wraps in `uint32_t`**
   (libSimHelper.cc:135), and line 143 then writes out of bounds.
5. **The firmware's `printint` indexes `digits[]` with a negative value**
   (print.c:32). For `%x`/`%p` it is called with `sgn = 0`, so a negative
   int stays negative and `x % 16` is negative. `-x` of `INT_MIN` is still
   negative, so `%d` of `INT_MIN` goes the same way.
6. **`matmul.c`'s self-check expects 204** (matmul.c:120), the sum of the
   squares 1..8. Row 0 of A times column 0 of B is 120, so the check always
   fails.
7. **`load_elf` takes `__bss_start` for `_start`** (libSimHelper.cc:207).
   It accepts the first nm line that contains the substring `_start`, and
   nm's order by name puts `__bss_start` first.

## Not modelled, and the plan

- **Not modelled:**
  - `print_imem`, the VCD trace and the PTY set-up are pure I/O.
  - The async-signal-unsafety of `printf` in the handler is a libc-level
    matter.
  - The `int cycle` overflow only feeds a print.
  - The SRAM past the last copied word keeps the design's initial contents
    (the design is not in this repository), so spec.md's trap pattern
    beyond the extent holds in `imem` but not necessarily in the SRAM.
    `ImageLoad` lists it as a hazard. The `imem[i + 3] << 24` shift into
    the sign bit is defined since C++14 and is not represented, since a
    word is kept as its bytes.
  - The firmware test program (src/sw/test/main.c) and its trap handler:
    every result `csr_test`, the packed-SIMD tests and `trap_entry`
    branch on comes from CSRs and instructions the design implements
    (`csrr`, `pvadd`, `pvmac`, `mcause`), and `trap_vector`, `insn_tests`
    and the SIMD routines are assembly that is not in this repository.
    What is left is straight-line printing, which `PrintInt` covers
    (`puts`, `printf`, `printint`), including the negative `%x` of
    `0xdeadbeef` and of `mcause`.
  - `benchmark.c` computes in float (`expf`, sigmoid, softmax). TLC has no
    floating point.
  - The int32 overflows of the MNIST kernels at the real sizes (vmac_w's
    unclamped second layer; the `(int32_t)acc` truncation of the Q16 host
    kernel) need values beyond TLC's 32-bit integers. They are listed as
    hazards.
- **The run budget is spent** (12 runs). The stand-alone `HostFifo` pass run
  was folded into `Harness` (`QueueRefined`) to make room for `Firmware`.
- **Observed, not run:** the C expression `packed_multiply_accumulate_exact`
  in src/sw/test/main.c (170-173) masks each lane product with its lane's
  mask without shifting it there, so for the program's operands it is 160
  (only the low lane survives), not the 300 the `pvmac` comment at line 161
  expects. The test only prints it, and a violation run for it would need
  a thirteenth run.
- **Planned, in order (each needs a run, so one of the present runs would
  have to give way):**
  1. Design variants for `Harness`: a `break_hit` pulse shorter than the
     monitor's poll, and a `par_tx_valid` held for several cycles. These
     turn the two uncovered hazards into runs.
  2. The firmware test program's packed-lane expression above, as an
     operator checked against the sum of lane products.
