--------------------------- MODULE MCCompiledMain ---------------------------
(***************************************************************************)
(* Bodies of main of up to MaxOps operations after shape inference, and    *)
(* one more print: every value already has its shape, the elementwise      *)
(* operations the one of their left operand.                               *)
(***************************************************************************)
EXTENDS CompiledMain

CONSTANTS
    MaxOps,
    Shapes,       \* the shapes of constants
    Mismatch      \* whether elementwise operands may differ in shape

Small == {<<2, 3>>, << >>, <<2, 1, 2>>}

Operation(k, a, s) == [kind |-> k, args |-> a, value |-> s]

TransposedOf(t) == Ranked(Reverse(t.shape))

Menu(b) ==
    LET vals == {v \in DOMAIN b.ops : b.types[v] # NoResult}
    IN  {<<Operation("constant", << >>, s), Ranked(s)>> : s \in Shapes}
        \cup {<<Operation("transpose", <<v>>, << >>), TransposedOf(b.types[v])>> : v \in vals}
        \cup {<<Operation(k, <<o[1], o[2]>>, << >>), b.types[o[1]]>> :
                  k \in {"add", "mul"},
                  o \in {x \in vals \X vals : Mismatch \/ b.types[x[1]] = b.types[x[2]]}}
        \cup {<<Operation("print", <<v>>, << >>), NoResult>> : v \in vals}

(* One operation the lowering has no pattern for.                          *)
Unlowerable(b) ==
    LET vals == {v \in DOMAIN b.ops : b.types[v] # NoResult}
    IN  {<<Operation("reshape", <<v>>, << >>), Ranked(<<2>>)>> : v \in vals}
        \cup {<<Operation("generic_call", << >>, << >>), Ranked(<<2>>)>>}
        \cup {<<Operation("arg", << >>, << >>), Ranked(<<2>>)>>}

Extend(b, entries) ==
    {[b EXCEPT !.ops = Append(@, e[1]), !.types = Append(@, e[2])] : e \in entries}

Empty == [ops |-> << >>, types |-> << >>, result |-> << >>, others |-> {}]

Bodies[n \in 0 .. MaxOps] ==
    IF n = 0 THEN {Empty} ELSE UNION {Extend(b, Menu(b)) : b \in Bodies[n - 1]}

Return(a) == <<Operation("return", a, << >>), NoResult>>

Odd ==
    UNION {Extend(b, Unlowerable(b)) : b \in Bodies[0] \cup Bodies[1]}
    \cup {[b EXCEPT !.others = {"generic"}] : b \in Bodies[1]}

(* A body that computes a value in its last operation prints it.           *)
Printing(b) ==
    LET n == Len(b.ops)
    IN  Extend(b, {<<Operation("print", <<v>>, << >>), NoResult>> :
                       v \in {m \in {n} : m > 0 /\ b.types[m] # NoResult}})

MCPrograms ==
    UNION {Extend(b, {Return(<< >>)}) :
              b \in Odd \cup UNION {Bodies[n] : n \in 0 .. MaxOps}
                       \cup UNION {Printing(b) : b \in Bodies[MaxOps]}}
    \cup UNION {Extend([b EXCEPT !.result = <<b.types[1]>>], {Return(<<1>>)}) : b \in Bodies[1]}
=============================================================================
