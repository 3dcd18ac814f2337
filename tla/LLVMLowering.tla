---------------------------- MODULE LLVMLowering ----------------------------
(***************************************************************************)
(* ToyToLLVMLoweringPass (src/toy/LowerToLLVM.cpp) after the affine pass:  *)
(* the prints of main become loops that call printf, and the module gets   *)
(* the declaration of printf and the two strings the calls need.  The      *)
(* other operations keep their meaning through the library's conversions.  *)
(***************************************************************************)
EXTENDS AffineLowering

VARIABLE symbols    \* the symbols inserted at the start of the module, newest first

llvmVars == <<prog, block, remap, cur, status, symbols>>

NUL == "NUL"

(* A string literal passed as a StringRef: the constructor takes its       *)
(* length with strlen, so the "\0" written at the end is dropped.          *)
StringRef(chars) ==
    LET n == SelectInSeq(chars, LAMBDA c : c = NUL)
    IN  IF n = 0 THEN chars ELSE SubSeq(chars, 1, n - 1)

Lookup(table, name) == \E n \in DOMAIN table : table[n].name = name

Symbol(name, bytes) == [name |-> name, bytes |-> bytes]

(* Faulty variant: the symbol is inserted without looking it up.           *)
EnsureAlways(table, sym) == <<sym>> \o table

(* Inserted unless the module already has a symbol of that name.           *)
Ensure(table, sym) ==
    IF Lookup(table, sym.name) THEN table ELSE <<sym>> \o table

FormatSpec == Symbol("frmt_spec", StringRef(<<"%f", " ", NUL>>))
NewLine    == Symbol("nl", StringRef(<<"\n", NUL>>))
Printf     == Symbol("printf", << >>)

WithPrintSymbols(table) ==
    Ensure(Ensure(Ensure(table, Printf), FormatSpec), NewLine)

(* Faulty variant: the innermost loop ends with a newline too.             *)
NestBodiesNewlines(rank) ==
    [n \in 1 .. rank + 1 |->
        (IF n <= rank THEN <<"loop">> ELSE <<"element">>)
        \o (IF n > 1 THEN <<"newline", "yield">> ELSE << >>)]

(* The bodies of the nest of scf.for the pattern builds, outermost first;  *)
(* bodies[1] is where the print stood.  A loop is created at the insertion *)
(* point, every loop but the innermost ends with a newline, and what comes *)
(* next goes to the start of the new body.                                 *)
NestBodies(rank) ==
    [n \in 1 .. rank + 1 |->
        (IF n <= rank THEN <<"loop">> ELSE <<"element">>)
        \o (IF n > 1 /\ n - 1 # rank THEN <<"newline">> ELSE << >>)
        \o (IF n > 1 THEN <<"yield">> ELSE << >>)]

PrintLoops(v) == [i |-> "printloops", v |-> v, bodies |-> NestBodies(Len(ShapeOf(v)))]

(* PrintOpLowering on the n-th operation of main.                          *)
LowerPrintLoops(n) ==
    /\ status = "affine"
    /\ block[n].i = "print"
    /\ \A m \in 1 .. n - 1 : block[m].i # "print"
    /\ symbols' = WithPrintSymbols(symbols)
    /\ block' = [block EXCEPT ![n] = PrintLoops(block[n].v)]
    /\ UNCHANGED <<prog, remap, cur, status>>

(* The full conversion succeeds: nothing illegal is left.                  *)
CommitLLVM ==
    /\ status = "affine"
    /\ \A n \in DOMAIN block : block[n].i # "print"
    /\ status' = "llvm"
    /\ UNCHANGED <<prog, block, remap, cur, symbols>>

LLVMNext == (\E n \in DOMAIN block : LowerPrintLoops(n)) \/ CommitLLVM
=============================================================================
