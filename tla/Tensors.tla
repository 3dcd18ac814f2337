------------------------------ MODULE Tensors ------------------------------
(***************************************************************************)
(* Index arithmetic on static shapes: what the loops and the attributes of *)
(* the compiler iterate over.                                              *)
(***************************************************************************)
EXTENDS Integers, SequencesExt

(* The number of elements one step along dimension d skips.                *)
Stride(s, d) ==
    LET stride[n \in 0 .. Len(s)] == IF n = Len(s) THEN 1 ELSE s[n + 1] * stride[n + 1]
    IN  stride[d]

Size(s) == Stride(s, 0)

Indices(s) ==
    {idx \in [DOMAIN s -> UNION {0 .. s[d] - 1 : d \in DOMAIN s}] :
        \A d \in DOMAIN s : idx[d] < s[d]}

(* Position of an index in row-major order, counted from 0.                *)
Linear(s, idx) ==
    LET at[d \in 0 .. Len(s)] == IF d = 0 THEN 0 ELSE at[d - 1] * s[d] + idx[d]
    IN  at[Len(s)]

(* The index at position k of the row-major order.                         *)
IndexAt(s, k) == [d \in DOMAIN s |-> (k \div Stride(s, d)) % s[d]]
=============================================================================
