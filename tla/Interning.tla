----------------------------- MODULE Interning ------------------------------
(***************************************************************************)
(* The types and constants of a Module (src/lightir/Type.cpp, Module.cpp,  *)
(* Constant.cpp).  Each is made once and found again by a key that holds   *)
(* the addresses of its parts; the rest of the compiler compares types and *)
(* constants by address.  An address is a place in the sequence of the     *)
(* objects made so far, and a module is a record of objects and tables:    *)
(* an operator returns the module after the call, whose table then has the *)
(* address the call returns.                                               *)
(*                                                                         *)
(* The caches of constants are keyed by the module too (or by a type,      *)
(* which belongs to one); the compiler has one module, so that this part   *)
(* of the key is left out.  Floating constants are never NaN nor -0.0, for *)
(* which the cache would find none or the wrong one: the literals of the   *)
(* language have no sign.  Boolean constants are left out: only the folder *)
(* of GVN.cpp asks for them, which no call reaches.                        *)
(***************************************************************************)
EXTENDS Integers, Sequences, TLC

\* The addresses of the types the constructor of Module makes.
VOID == 1   LABEL == 2   INT1 == 3   INT32 == 4   FLOAT == 5

Empty == [x \in {} |-> x]

NewModule ==
  [types |-> <<[id |-> "void"], [id |-> "label"], [id |-> "integer", bits |-> 1],
               [id |-> "integer", bits |-> 32], [id |-> "float"]>>,
   consts |-> <<>>,
   pointer_map |-> Empty, array_map |-> Empty, function_map |-> Empty,
   cached_int |-> Empty, cached_float |-> Empty, cached_zero |-> Empty]

\* The table is asked first; an object is made for a key it does not have.
Intern(m, table, kind, key, object) ==
  IF key \in DOMAIN m[table] THEN m
  ELSE [m EXCEPT ![kind] = Append(@, object), ![table] = (key :> Len(m[kind]) + 1) @@ @]

GetPointerType(m, contained) ==
  Intern(m, "pointer_map", "types", contained, [id |-> "pointer", of |-> contained])

\* Mutant of GetArrayType: arrays of one element type share a type.
GetArrayTypeByElement(m, contained, n) ==
  Intern(m, "array_map", "types", <<contained, n>>, [id |-> "array", of |-> contained, n |-> 0])

GetArrayType(m, contained, n) ==
  Intern(m, "array_map", "types", <<contained, n>>, [id |-> "array", of |-> contained, n |-> n])

GetFunctionType(m, retty, args) ==
  Intern(m, "function_map", "types", <<retty, args>>, [id |-> "function", ret |-> retty, args |-> args])

GetInt(m, val)  == Intern(m, "cached_int", "consts", val, [id |-> "int", ty |-> INT32, val |-> val])
GetFP(m, val)   == Intern(m, "cached_float", "consts", val, [id |-> "fp", ty |-> FLOAT, val |-> val])
GetZero(m, ty)  == Intern(m, "cached_zero", "consts", ty, [id |-> "zero", ty |-> ty, val |-> 0])

IsPointerType(m, ty) == m.types[ty].id = "pointer"
IsArrayType(m, ty)   == m.types[ty].id = "array"

\* What the constructors of composite types assert of their parts.
IsValidElementType(m, ty)  == m.types[ty].id \in {"integer", "array", "float"}
IsValidReturnType(m, ty)   == m.types[ty].id \in {"integer", "void", "float"}
IsValidArgumentType(m, ty) == m.types[ty].id \in {"integer", "pointer", "float"}

GetPointerElementType(m, ty) == m.types[ty].of

\* What a type is, whatever the addresses of its parts: a type as print shows it.
Shown(m) ==
  LET shown[t \in DOMAIN m.types] ==
        LET ty == m.types[t] IN
        CASE ty.id = "pointer"  -> <<"*", shown[ty.of]>>
          [] ty.id = "array"    -> <<"[]", ty.n, shown[ty.of]>>
          [] ty.id = "function" -> <<"()", shown[ty.ret], [a \in DOMAIN ty.args |-> shown[ty.args[a]]]>>
          [] ty.id = "integer"  -> <<"i", ty.bits>>
          [] OTHER              -> <<ty.id>>
  IN shown
=============================================================================
