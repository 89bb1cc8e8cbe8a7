---------------------------- MODULE MCFirmware ----------------------------
(* The firmware benchmarks at 8 inputs, 8 hidden neurons and 3 outputs  *)
(* (the code's strides of 1, 2, 4 and 8 all divide 8), the dot products  *)
(* at the code's TEST_SIZE of 64, and five test samples per host net.   *)
EXTENDS Firmware

\* A C array literal: a 0-indexed function.
Arr(s) == [i \in 0..Len(s) - 1 |-> s[i + 1]]
Mat(rows) == [i \in 0..Len(rows) - 1 |-> Arr(rows[i + 1])]

MCPrograms == {"sew", "pvmac", "wide_vec", "sew_compare", "int8_relu", "q16_relu", "int32"}

\* test_images[0] * 127.0f as int8.
MCInt8Image == Arr(<<0, 127, 64, 3, 100, 0, 45, 127>>)

\* Small weights leave activations inside (0, 127); larger ones clamp
\* them and make outputs tie at 127.
MCInt8Nets == {
    [W1 |-> Mat(<<<<0, -1, 0, 1, -1, -1, 1, -1>>,
                 <<0, 1, -1, 1, -1, -1, -1, 0>>,
                 <<0, -1, -1, -1, 1, 0, -1, 1>>,
                 <<-1, -1, 1, 1, 1, -1, 1, 1>>,
                 <<0, -1, -1, -1, 1, -1, 0, 0>>,
                 <<-1, 1, -1, 1, 0, 1, 1, -1>>,
                 <<-1, 1, 1, 1, -1, 0, -1, 1>>,
                 <<1, -1, 1, -1, 1, -1, 0, 1>>>>),
     W2 |-> Mat(<<<<1, 0, 0>>,
                 <<0, 1, 0>>,
                 <<0, 0, -1>>,
                 <<-1, 1, -1>>,
                 <<-1, 1, 0>>,
                 <<1, 0, 0>>,
                 <<1, 0, 0>>,
                 <<1, -1, -1>>>>)],
    [W1 |-> Mat(<<<<2, 1, -1, 0, -1, 1, 1, -2>>,
                 <<-2, 2, 2, 0, 0, 0, 2, 1>>,
                 <<2, 1, -2, -2, 0, 1, -2, -2>>,
                 <<0, 2, 1, 0, 1, 0, -2, 1>>,
                 <<0, -1, 2, -2, 1, -2, -1, 0>>,
                 <<-1, -1, 1, 1, 1, -2, -1, 1>>,
                 <<1, 2, 0, -1, 1, 2, 0, 1>>,
                 <<0, 1, -1, -1, -2, -1, -1, -1>>>>),
     W2 |-> Mat(<<<<1, -1, -1>>,
                 <<0, 1, -1>>,
                 <<0, 0, -1>>,
                 <<-1, 0, 1>>,
                 <<0, 1, 1>>,
                 <<0, -1, 1>>,
                 <<1, 1, 1>>,
                 <<1, 1, -1>>>>)],
    [W1 |-> Mat(<<<<105, 72, 75, 76, 73, -75, 118, 77>>,
                 <<-97, -31, -94, -22, 97, -45, -72, 46>>,
                 <<-102, -76, -128, -51, -77, 58, -115, -92>>,
                 <<-22, 64, -52, 1, 49, 58, 114, -66>>,
                 <<-69, 121, 110, 117, 119, 31, -85, -55>>,
                 <<-76, 47, 7, 117, -46, -117, -23, 57>>,
                 <<-53, -115, 24, -82, 5, 59, -43, 54>>,
                 <<-14, 40, -14, -29, -6, 77, -12, -26>>>>),
     W2 |-> Mat(<<<<124, 54, -114>>,
                 <<-114, 15, 113>>,
                 <<4, -29, 48>>,
                 <<100, 50, 58>>,
                 <<-87, -16, -76>>,
                 <<-12, 112, -28>>,
                 <<44, -24, 119>>,
                 <<-128, 117, 48>>>>)]}

\* int8_relu nets [W1, b1, W2, b2] (int8).
MCHostNets == {
    [W1 |-> Mat(<<<<103, 110, 103, -31, -34, 115, -33, -80>>,
                 <<100, 27, -56, -82, -107, 74, 103, -48>>,
                 <<-121, -96, -98, -110, -31, -5, -113, 109>>,
                 <<39, 97, -28, -9, 22, 127, -126, -85>>,
                 <<106, 14, 80, -86, 2, 33, -11, 19>>,
                 <<-113, -93, -73, 77, -73, 20, 69, -94>>,
                 <<-120, -128, -19, -21, -102, 112, 64, 75>>,
                 <<86, -91, -27, 10, 44, -84, 31, 42>>>>),
     b1 |-> Arr(<<-121, 81, -68, -60, -2, -77, -123, -98>>),
     W2 |-> Mat(<<<<110, 121, -38>>,
                 <<-32, 101, -31>>,
                 <<-61, 86, 68>>,
                 <<-69, 74, 87>>,
                 <<-20, -128, 10>>,
                 <<27, -118, -21>>,
                 <<-33, 73, -77>>,
                 <<-107, -54, -19>>>>),
     b2 |-> Arr(<<98, 4, -124>>)],
    [W1 |-> Mat(<<<<40, 23, 69, -91, -90, -82, -22, -4>>,
                 <<-121, 60, 62, 104, -63, 119, -59, 69>>,
                 <<-35, -50, 31, -12, -1, -31, -47, -28>>,
                 <<70, 119, -88, 87, -104, -75, -73, -109>>,
                 <<2, -6, 72, 3, 87, 123, 22, -39>>,
                 <<-93, -64, -12, 117, -91, 15, -20, -24>>,
                 <<-120, -93, 9, 82, 100, -1, -98, -105>>,
                 <<-38, 16, 60, -61, -81, 57, -58, 102>>>>),
     b1 |-> Arr(<<41, -57, -111, -119, 115, 55, 31, -111>>),
     W2 |-> Mat(<<<<-118, -90, 118>>,
                 <<-94, 31, 35>>,
                 <<-59, -91, -90>>,
                 <<103, 60, -106>>,
                 <<-62, 46, 52>>,
                 <<-85, 114, -89>>,
                 <<85, -113, 127>>,
                 <<-121, 67, 66>>>>),
     b2 |-> Arr(<<-122, -92, -87>>)]}

\* test_images_i8 and test_labels: one net gets exactly 4 of 5 right.
MCHostSamples == <<
    [image |-> Arr(<<23, 29, 65, 106, 84, 99, 117, 112>>), label |-> 0],
    [image |-> Arr(<<118, 21, 7, 79, 22, 123, 5, 58>>), label |-> 0],
    [image |-> Arr(<<28, 127, 124, 65, 2, 94, 77, 36>>), label |-> 0],
    [image |-> Arr(<<51, 43, 87, 113, 127, 61, 83, 103>>), label |-> 0],
    [image |-> Arr(<<64, 50, 110, 51, 54, 98, 56, 81>>), label |-> 1]>>

\* Q16.16 nets; |W1| <= 0.25 and |W2| <= 0.125 keep every product
\* of an input or hidden value below 2^31.
MCQ16Nets == {
    [W1 |-> Mat(<<<<-2629, -7460, -7566, 16152, 6602, -13726, -12181, 1756>>,
                 <<-5300, -8990, 13149, 14506, 1649, -2355, 10746, 8686>>,
                 <<15982, 4284, 13269, 4610, -11490, -14321, 1843, -13666>>,
                 <<2036, 6829, 3868, -15132, -7479, 10170, 13423, -3938>>,
                 <<-14764, 1075, -826, -7152, -13308, -8828, 12876, -9240>>,
                 <<7778, -11275, -3405, -3320, 14754, 395, -4674, -15679>>,
                 <<14562, -14014, -4647, -1543, 1465, 6274, -5952, 9405>>,
                 <<-1709, -10669, 10517, 9042, -7871, 13140, 13338, -3482>>>>),
     b1 |-> Arr(<<-15944, 8310, 6101, 14005, 5011, -2957, -9899, -8292>>),
     W2 |-> Mat(<<<<-1203, -253, 4594>>,
                 <<-5314, 1961, 2306>>,
                 <<389, -7680, 3227>>,
                 <<-5480, -6976, 6255>>,
                 <<3016, 5616, 827>>,
                 <<7780, -7262, -1039>>,
                 <<-6093, 5863, -7042>>,
                 <<-2527, 2785, -3589>>>>),
     b2 |-> Arr(<<7227, -3321, 6231>>)],
    [W1 |-> Mat(<<<<15897, -10747, -1874, 12413, 2632, -5614, 426, 4043>>,
                 <<8599, -2737, 3568, -7134, 1504, 16229, -3214, 10556>>,
                 <<-8895, -16061, 8325, -14566, -13504, 9868, -8394, 15796>>,
                 <<-10275, -5455, -12066, 13692, 10733, 10102, 1259, -244>>,
                 <<14625, 15927, -8064, 5877, 12037, 14846, 4404, -9266>>,
                 <<-3838, 11110, -14457, 669, -7900, -14891, -14050, -3664>>,
                 <<-6192, -1491, -15609, 2233, 4723, 6904, -363, 16306>>,
                 <<-9511, 16362, -8338, 36, -3426, 12240, -14861, 8240>>>>),
     b1 |-> Arr(<<10708, -5917, -2998, -2075, -2217, -7441, -1137, 6396>>),
     W2 |-> Mat(<<<<-2257, 2158, 2129>>,
                 <<-1813, -1044, -1818>>,
                 <<-5019, -3804, -350>>,
                 <<-3849, -5304, 311>>,
                 <<4518, -5013, 6055>>,
                 <<5623, -4064, -1618>>,
                 <<5006, -7611, -5045>>,
                 <<-1608, 3525, 3647>>>>),
     b2 |-> Arr(<<-4411, 3063, -1999>>)]}

\* Q16.16 test images (pixels in [0, 1]) and labels.
MCQ16Samples == <<
    [image |-> Arr(<<9247, 63186, 13916, 3185, 4906, 63081, 19209, 24847>>), label |-> 2],
    [image |-> Arr(<<24187, 15066, 26727, 22608, 20712, 37105, 12484, 8119>>), label |-> 2],
    [image |-> Arr(<<17622, 60564, 10171, 12676, 42837, 51233, 61205, 55894>>), label |-> 2],
    [image |-> Arr(<<46474, 56371, 27536, 48910, 1736, 5357, 26249, 23759>>), label |-> 2],
    [image |-> Arr(<<53471, 59500, 47129, 48522, 53123, 25575, 21636, 12425>>), label |-> 2]>>

=============================================================================
