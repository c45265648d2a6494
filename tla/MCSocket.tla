------------------------------- MODULE MCSocket -------------------------------
(* Socket for TLC: data around the thresholds of shouldCompress. *)
EXTENDS Socket

\* Below, at and above the thresholds of 128, 512 and 1024 bytes; well, hardly and not
\* compressible.
MCPayloads ==
    {[size |-> 127, lz4 |-> 60, zstd |-> 50], [size |-> 128, lz4 |-> 128, zstd |-> 100],
     [size |-> 128, lz4 |-> 64, zstd |-> 130], [size |-> 511, lz4 |-> 500, zstd |-> 499],
     [size |-> 512, lz4 |-> 511, zstd |-> 512], [size |-> 1024, lz4 |-> 1030, zstd |-> 900]}

================================================================================
