---------------------------- MODULE CompiledMain ----------------------------
(***************************************************************************)
(* Both lowerings one after the other, and then main run on a machine that *)
(* keeps what the source language says nothing of: which buffers exist,    *)
(* what their cells hold, which block of memory is given to free(), and    *)
(* the output of printf.                                                   *)
(*                                                                         *)
(* The numbers are symbolic: a cell holds the term that computes it, so a  *)
(* wrong element, operator or order of operands is a different term.       *)
(***************************************************************************)
EXTENDS LLVMLowering

VARIABLES
    pc,        \* the next operation of block
    memory,    \* for each buffer, its cells
    frame,     \* buffers allocated on the stack of main
    freed,     \* buffers passed to free()
    out        \* what printf has written

machine == <<pc, memory, frame, freed, out>>
vars == <<prog, block, remap, cur, status, symbols, pc, memory, frame, freed, out>>

Undef == <<"undef">>
NL    == <<"nl">>

-----------------------------------------------------------------------------
(* The machine.                                                            *)

MainInit ==
    /\ Init
    /\ symbols = << >>
    /\ pc = 1
    /\ memory = << >>
    /\ frame = {}
    /\ freed = {}
    /\ out = << >>

Current(i) == status = "llvm" /\ pc \in DOMAIN block /\ block[pc].i = i

Advance == pc' = pc + 1 /\ UNCHANGED llvmVars

Live == frame \ freed

(* The memory of an alloca is not initialized.                             *)
ExecAlloca ==
    /\ Current("alloca")
    /\ LET v == block[pc].v
       IN  /\ memory' = [a \in DOMAIN memory \cup {v} |->
                            IF a = v THEN [idx \in Indices(ShapeOf(v)) |-> Undef]
                            ELSE memory[a]]
           /\ frame' = frame \cup {v}
    /\ Advance
    /\ UNCHANGED <<freed, out>>

ExecStore ==
    /\ Current("store")
    /\ LET e == block[pc]
       IN  memory' = [memory EXCEPT ![e.v][e.at] = <<"const", e.v, e.val>>]
    /\ Advance
    /\ UNCHANGED <<frame, freed, out>>

Ordered(order, ivs) == IF order = "reverse" THEN Reverse(ivs) ELSE ivs

(* The addresses one iteration of a nest loads from.                       *)
Reads(n, ivs) == {<<l.v, Ordered(l.order, ivs)>> : l \in ToSet(n.loads)}

InBounds(cell) == cell[2] \in Indices(ShapeOf(cell[1]))

Cell(l, ivs) ==
    LET idx == Ordered(l.order, ivs)
    IN  IF InBounds(<<l.v, idx>>) THEN memory[l.v][idx] ELSE Undef

(* One iteration's value: the loads come from other buffers, so the        *)
(* iterations do not see each other.                                       *)
BodyValue(n, ivs) ==
    IF n.body = "copy" THEN Cell(n.loads[1], ivs)
    ELSE <<n.body, Cell(n.loads[1], ivs), Cell(n.loads[2], ivs)>>

ExecNest ==
    /\ Current("nest")
    /\ LET n == block[pc]
       IN  memory' = [memory EXCEPT ![n.v] =
                         [ivs \in DOMAIN @ |-> BodyValue(n, ivs)]]
    /\ Advance
    /\ UNCHANGED <<frame, freed, out>>

(* The text the loops of a print produce, run as they were built.          *)
Printed(e) ==
    LET s == ShapeOf(e.v)
        prefixes == UNION {Indices(SubSeq(s, 1, d)) : d \in 0 .. Len(s)}
        run[ivs \in prefixes] ==
            FlattenSeq([n \in DOMAIN e.bodies[Len(ivs) + 1] |->
                LET stmt == e.bodies[Len(ivs) + 1][n]
                IN  IF stmt = "loop"
                    THEN FlattenSeq([i \in 1 .. s[Len(ivs) + 1] |-> run[Append(ivs, i - 1)]])
                    ELSE IF stmt = "element" THEN <<memory[e.v][ivs]>>
                    ELSE IF stmt = "newline" THEN <<NL>>
                    ELSE << >>])
    IN  run[<< >>]

ExecPrint ==
    /\ Current("printloops")
    /\ out' = out \o Printed(block[pc])
    /\ Advance
    /\ UNCHANGED <<memory, frame, freed>>

(* memref.dealloc is a call of free().                                     *)
ExecDealloc ==
    /\ Current("dealloc")
    /\ freed' = freed \cup {block[pc].v}
    /\ Advance
    /\ UNCHANGED <<memory, frame, out>>

(* The frame of main goes away.                                            *)
ExecReturn ==
    /\ Current("return")
    /\ status' = "done"
    /\ frame' = {}
    /\ UNCHANGED <<prog, block, remap, cur, symbols, pc, memory, freed, out>>

Exec ==
    \/ ExecAlloca \/ ExecStore \/ ExecNest
    \/ ExecPrint \/ ExecDealloc \/ ExecReturn

Next ==
    \/ AffineNext /\ UNCHANGED <<symbols, pc, memory, frame, freed, out>>
    \/ LLVMNext /\ UNCHANGED machine
    \/ Exec

Spec == MainInit /\ [][Next]_vars /\ WF_vars(Next)

-----------------------------------------------------------------------------
(* What the source program means.                                          *)

(* src/inc/Parser.h, parseTensorLiteralExpr: there is an element before    *)
(* the ']' of every list, and folding a reshape keeps the number of them.  *)
ASSUME LiteralsAreNotEmpty ==
    \A p \in Programs : \A v \in Defs(p) :
        p.ops[v].kind = "constant" =>
            \A d \in DOMAIN p.types[v].shape : p.types[v].shape[d] > 0

(* The tensor each operation of p computes.                                *)
Meaning(p) ==
    LET value[v \in Defs(p)] ==
            LET op == p.ops[v]
            IN  [idx \in Indices(p.types[v].shape) |->
                    IF op.kind = "constant"
                    THEN <<"const", v, Linear(p.types[v].shape, idx)>>
                    ELSE IF op.kind = "transpose" THEN value[op.args[1]][Reverse(idx)]
                    ELSE IF op.kind \in {"add", "mul"}
                    THEN <<op.kind, value[op.args[1]][idx], value[op.args[2]][idx]>>
                    ELSE Undef]
    IN  value

(* What is printed after element n: a line ends after each run of the last *)
(* dimension, and another one where a run of the m-th last dimension ends. *)
Breaks(s, n, m) ==
    FlattenSeq([d \in 1 .. m |-> IF n % Stride(s, Len(s) - d) = 0 THEN <<NL>> ELSE << >>])

(* A tensor in row-major order.  The outermost dimension ends no line.     *)
Rows(s, tensor) ==
    FlattenSeq([n \in 1 .. Size(s) |->
        <<tensor[IndexAt(s, n - 1)]>> \o Breaks(s, n, Len(s) - 1)])

Expected(p) ==
    FlattenSeq([v \in Defs(p) |->
        IF p.ops[v].kind = "print"
        THEN LET a == p.ops[v].args[1] IN Rows(p.types[a].shape, Meaning(p)[a])
        ELSE << >>])

(* What the passes before leave when the source adds and multiplies        *)
(* tensors of equal shapes; inference does not enforce it.                 *)
Matched(p) ==
    \A v \in Defs(p) : p.ops[v].kind \in {"add", "mul"} =>
        p.types[p.ops[v].args[2]] = p.types[v]

-----------------------------------------------------------------------------
(* Properties.                                                             *)

(* The block holds known operations and control never leaves it.           *)
TypeOK ==
    /\ WellFormed(prog)
    /\ remap \subseteq Defs(prog)
    /\ cur \in 1 .. Len(prog.ops) + 1
    /\ status \in {"func", "convert", "failed", "affine", "invalid", "llvm", "done"}
    /\ \A n \in DOMAIN block : block[n].i \in
           {"toy", "alloca", "store", "nest", "print", "printloops", "dealloc", "return"}
    /\ pc \in 1 .. Len(block)
    /\ DOMAIN memory \subseteq Defs(prog)
    /\ frame \subseteq Defs(prog) /\ freed \subseteq Defs(prog)

(* The buffers an operation touches.                                       *)
Touches(e) ==
    CASE e.i = "nest"  -> {e.v} \cup {l.v : l \in ToSet(e.loads)}
      [] e.i \in {"store", "print", "printloops"} -> {e.v}
      [] OTHER -> {}

(* While the block is rewritten each buffer has one alloca and one         *)
(* dealloc, every use of it lies between them, and nothing follows the     *)
(* terminator.  Both are moved to the ends of the block by hand, past      *)
(* operations other patterns put there.                                    *)
BuffersEncloseUses ==
    \A b \in remap :
        \E first, last \in DOMAIN block :
            /\ {n \in DOMAIN block : block[n] = Alloca(b)} = {first}
            /\ {n \in DOMAIN block : block[n] = Dealloc(b)} = {last}
            /\ \A n \in DOMAIN block : b \in Touches(block[n]) => first < n /\ n < last
            /\ last < Len(block)

(* The tensors an operation reads have the rank of its result.             *)
RanksAgree(p) ==
    \A v \in Defs(p) : p.ops[v].kind \in {"add", "mul", "transpose"} =>
        \A a \in Args(p, v) : Len(p.types[a].shape) = Len(p.types[v].shape)

(* The pass fails exactly when main or something in it has no pattern, and *)
(* otherwise its result is rejected exactly when an operation reads a      *)
(* tensor of another rank.                                                 *)
FailsOnlyIfIllegal ==
    /\ status = "failed" => ~ (prog.others = {} /\ Lowerable(prog))
    /\ status \in {"affine", "invalid", "llvm", "done"} => prog.others = {} /\ Lowerable(prog)
    /\ status = "invalid" => ~ RanksAgree(prog)
    /\ status \in {"affine", "llvm", "done"} => RanksAgree(prog)

(* No operation of main touches a buffer that is not allocated or was      *)
(* freed, reads a cell outside its buffer or one never written, or frees   *)
(* a buffer twice.                                                         *)
MemorySafe ==
    status = "llvm" /\ Matched(prog) =>
        LET e == block[pc]
        IN  /\ Touches(e) \subseteq Live
            /\ e.i = "nest" => \A ivs \in Indices(ShapeOf(e.v)), l \in ToSet(e.loads) :
                   InBounds(<<l.v, Ordered(l.order, ivs)>>) /\ Cell(l, ivs) # Undef
            /\ e.i = "printloops" => \A idx \in DOMAIN memory[e.v] : memory[e.v][idx] # Undef
            /\ e.i = "dealloc" => e.v \in Live

(* main prints what the source program means.                              *)
OutputCorrect == status = "done" /\ Matched(prog) => out = Expected(prog)

(* Every buffer is freed by the time main returns.                         *)
NothingLeaks == status = "done" => freed = DOMAIN memory

(* However many prints there are, the module has each symbol once, and has *)
(* none it does not need.                                                  *)
SymbolsOnce ==
    status \in {"llvm", "done"} =>
        \A name \in {"printf", "frmt_spec", "nl"} :
            Cardinality({n \in DOMAIN symbols : symbols[n].name = name}) =
                IF \E v \in Defs(prog) : Kind(v) = "print" THEN 1 ELSE 0

(* Compiling ends, with a failure or a main that returns.                  *)
Termination == <>(status \in {"failed", "invalid", "done"})

(* src/toy/LowerToAffineLoops.cpp:40: "Insert memery alloc and dealloc     *)
(* opeartion": what is deallocated was allocated on the heap.              *)
FreesHeapOnly == freed \cap frame = {}

(* src/toy/LowerToLLVM.cpp:55-56 writes a "\0" at the end of each string   *)
(* for printf to stop at.                                                  *)
StringsTerminated ==
    \A n \in DOMAIN symbols :
        symbols[n].name \in {"frmt_spec", "nl"} => NUL \in ToSet(symbols[n].bytes)
=============================================================================
