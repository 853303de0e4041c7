--------------------- MODULE MCFunctionErrorPropagator ---------------------
(***************************************************************************)
(* Small modules for FunctionErrorPropagator.  f takes a pointer p and a   *)
(* scalar q, g takes a pointer a and starts by loading it, ext is a        *)
(* declaration; G is a global, el an element of what p points to.  f and g  *)
(* call each other and themselves.                                         *)
(***************************************************************************)
EXTENDS FunctionErrorPropagator, TLC

CONSTANTS f, g, ext, fc, gc, extc, G, p, el, q, a, x, y, f1, f2, f3, f4, g1, g2, g3, g4, lf, lG

MCFunctions == {f, g, ext}
MCGlobals == {G}
MCLabels == {lf, lG}
MCValues == {f, g, ext, fc, gc, extc, G, p, el, q, a, x, y, f1, f2, f3, f4, g1, g2, g3, g4}
MCCopyOf == f :> fc @@ g :> gc @@ ext :> extc

Instr(op, id, v, w, own) ==
  [op |-> op, id |-> id, a |-> v, b |-> w, own |-> own, top |-> 20,
   callee |-> Null, args |-> <<>>]
Call(id, callee, args) ==
  [Instr("call", id, Null, Null, 0) EXCEPT !.callee = callee, !.args = args]

\* What an instruction of f may be, where prev is the value computed before it.
InF(id, prev) ==
  { Instr("binary", id, prev, q, 1), Instr("load", id, p, Null, 1),
    Instr("store", id, prev, el, 0), Instr("store", id, prev, G, 0),
    Instr("cmp", id, prev, q, 2), Instr("ret", id, prev, Null, 0),
    Call(id, g, <<el>>), Call(id, g, <<G>>), Call(id, f, <<G, prev>>) }
InG(id, prev) ==
  { Instr("store", id, prev, a, 0), Call(id, f, <<a, prev>>) }
    \cup (IF id = g2 THEN { Instr("binary", id, prev, g1, 1), Instr("load", id, G, Null, 1) }
          ELSE { Instr("phi", id, prev, g1, 1), [Call(id, ext, <<prev>>) EXCEPT !.a = prev] })

\* An early return of the argument, before a recursive call with a global's value.
EarlyReturn ==
  <<Instr("ret", f1, q, Null, 0), Instr("load", f2, G, Null, 1), Call(f3, f, <<G, f2>>),
    Instr("ret", f4, f3, Null, 0)>>
\* A load whose definition is a store, which may have had nothing to store (f4).
LoadStored(source) ==
  <<Instr("store", f1, source, p, 0), Instr("load", f2, f1, Null, 1), Instr("ret", f3, f2, Null, 0)>>
\* Conversions, and a comparison of a copied range.
Converted ==
  <<Instr("unary", f1, q, Null, 0), Instr("shr", f2, f1, Null, 1),
    Instr("fptoi", f4, f2, Null, 1), Instr("cmp", f3, f2, f1, 3)>>
BodiesOfF ==
  { <<i, j, Instr("ret", f3, f2, Null, 0)>> : i \in InF(f1, q), j \in InF(f2, f1) }
    \cup {EarlyReturn, LoadStored(q), LoadStored(f4), Converted}
BodiesOfG ==
  { <<Instr("load", g1, a, Null, 1), i, j, Instr("ret", g4, g2, Null, 0)>> :
      i \in InG(g2, g1), j \in InG(g3, g2) }

Identity(ids) == [v \in MCValues |-> IF v \in ids THEN v ELSE Null]
Defined(formals, body, loops, start, maxrec, ids) ==
  [empty |-> FALSE, special |-> FALSE, math |-> FALSE, loops |-> loops, start |-> start, maxrec |-> maxrec,
   formals |-> formals, body |-> body, image |-> Identity(ids)]
Declared(special) ==
  [empty |-> TRUE, special |-> special, math |-> FALSE, loops |-> FALSE, start |-> FALSE, maxrec |-> 0,
   formals |-> <<>>, body |-> <<>>, image |-> Identity({})]

Info == [v \in MCValues |->
          IF v = q THEN 1 ELSE IF v = G THEN 0
          ELSE IF v \in {f1, f2, f3, g2, g3, p, a} THEN NoErr ELSE Absent]
Target == [v \in MCValues |-> IF v \in {f2, g2} THEN lf ELSE IF v = G THEN lG ELSE Null]

\* f is cloned when it has loops; g has a limit of its own when maxrec is not zero.
Module(bf, bg, loops, recur, maxrec, startonly) ==
  [order |-> <<f, g, ext>>,
   fn |-> f :> Defined(<<p, q>>, bf, loops, TRUE, 0, {f1, f2, f3, f4})
       @@ g :> Defined(<<a>>, bg, FALSE, FALSE, maxrec, {g1, g2, g3, g4})
       @@ ext :> Declared(loops),
   recur |-> recur, nounroll |-> FALSE, maxunroll |-> 1, startonly |-> startonly,
   cmpthresh |-> IF startonly THEN 30 ELSE 0,
   info |-> Info, target |-> Target,
   pointers |-> {p, el, a, G},
   origin |-> [v \in MCValues \cup {Null} |->
                IF v \in {p, el} THEN p ELSE IF v = a THEN a ELSE Null]]

\* g calls f(x, y) with two errors, and f(x, y) calls f(y, x).
Swap ==
  [Module(<<Call(f1, f, <<y, x>>), Instr("binary", f2, f1, y, 1)>>,
          <<Instr("binary", g1, G, Null, 1), Instr("binary", g2, g1, Null, 1), Call(g3, f, <<g1, g2>>)>>,
          FALSE, 2, 0, FALSE)
     EXCEPT !.fn[f].formals = <<x, y>>]

MCPrograms ==
  {Swap} \cup
  UNION { { Module(bf, bg, TRUE, 2, 1, TRUE), Module(bf, bg, FALSE, 1, 0, FALSE),
            Module(bf, bg, FALSE, 2, 1, FALSE) } : bf \in BodiesOfF, bg \in BodiesOfG }
=============================================================================
