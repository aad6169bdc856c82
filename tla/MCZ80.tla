-------------------------------- MODULE MCZ80 --------------------------------
EXTENDS Z80Programs

Run(name, xs, ys) == [name : {name}, x : xs, y : ys]

\* Bytes and words at and beside the places where carries, signs and
\* half carries change.
EdgeBytes == {0, 1, 2, 7, 15, 16, 85, 127, 128, 170, 240, 255}
EdgeWords == {0, 1, 127, 128, 255, 256, 4095, 4096, 32767, 32768, 32769, 65280, 65535}

\* Two decimal digits: all low ones, and some high ones.
Bcd == {16 * h + l : h \in {0, 1, 4, 5, 8, 9}, l \in 0 .. 9}

MCTasks ==
  Run("multiply", EdgeBytes, EdgeBytes)
    \cup Run("divide", EdgeWords, EdgeBytes \ {0})
    \cup Run("subtract", EdgeWords, EdgeWords)
    \cup Run("decimal -", Bcd, Bcd)
    \cup Run("copy", 0 .. 8, 1 .. 5)
    \cup Run("search", 5 .. 14, 1 .. 4)
    \cup Run("context", EdgeWords, EdgeWords)
    \cup Run("indexed", EdgeBytes, 0 .. 7)
    \cup Run("digits", EdgeBytes, EdgeBytes)
    \cup Run("ports", {0, 128, 255}, {0, 255})
    \cup Run("unknown", {\hDD, \hED, \hFD}, {0, \h40 - 1, \hA2, \hBB})
    \cup Run("decimal +", Bcd, Bcd)
    \cup Run("exchange", EdgeWords, EdgeWords)

MCAddrs == (0 .. 127) \cup (RamFirst - 4 .. RamFirst + 19) \cup (65520 .. 65535)
=============================================================================
