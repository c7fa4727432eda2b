---------------------------- MODULE MCEmission ------------------------------
(* A function of one parameter in programs of a few kinds of instructions:   *)
(* memory, arrays, tests and conversions, with the literals and the global   *)
(* variables these are about.                                                *)
EXTENDS Emission

MCParams == <<"int">>

Program(insts, ints, floats, variables) ==
  [insts |-> insts, ints |-> ints, floats |-> floats, globals |-> variables]
Global(of, length) == [of |-> of, length |-> length]

MCPrograms == {Program({"alloca", "load", "store"}, {0}, {}, {Global(INT32, 0)}),
               Program({"alloca", "getelementptr"}, {0}, {}, {Global(FLOAT, 2)}),
               Program({"icmp", "zext"}, {0}, {}, {}),
               Program({"sitofp", "fptosi"}, {0}, {1}, {}),
               Program({"add", "call"}, {0}, {}, {})}
=============================================================================
