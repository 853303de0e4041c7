--------------------------- MODULE MCStructErrorMap ---------------------------
\* main has a struct S with an array of numbers, a struct B and an array of Bs;
\* it hands S to f, which hands S's B to g, and hands g an element of its array
\* of Bs, or the global G; g calls itself.  agg is a struct value with a pointer.
EXTENDS StructErrorMap

CONSTANTS main, f, g, D, B, S, R, AD, AB, PD,
          s, s1, s1y, sm, sa, sai, sb, sbi, sbiy, sp, ld, agg, ev, p, p1, p1y, q, qy, G, Gy

MCElements == (D :> <<>>) @@ (B :> <<D>>) @@ (S :> <<AD, B, AB>>)
                @@ (R :> <<PD>>) @@ (AD :> <<D>>) @@ (AB :> <<B>>) @@ (PD :> <<D>>)
MCKind == (D :> "scalar") @@ (B :> "struct") @@ (S :> "struct") @@ (R :> "struct")
            @@ (AD :> "array") @@ (AB :> "array") @@ (PD :> "pointer")

Via(kind, owner, base, idx, type) ==
  [kind |-> kind, owner |-> owner, base |-> base, idx |-> idx, pointee |-> type]
Object(kind, owner, type) == Via(kind, owner, Null, <<>>, type)
Gep(owner, base, idx, type) == Via("gep", owner, base, idx, type)

MCDef ==
  (s :> Object("alloca", main, S)) @@ (s1 :> Gep(main, s, <<0, 1>>, B))
  @@ (s1y :> Gep(main, s1, <<0, 0>>, D)) @@ (sm :> Gep(main, s, <<0, 1, 0>>, D))
  @@ (sa :> Gep(main, s, <<0, 0>>, AD)) @@ (sai :> Gep(main, sa, <<0, Variable>>, D))
  @@ (sb :> Gep(main, s, <<0, 2>>, AB)) @@ (sbi :> Gep(main, sb, <<0, 1>>, B))
  @@ (sbiy :> Gep(main, sbi, <<0, 0>>, D))
  @@ (sp :> Object("alloca", main, PD)) @@ (ld :> Via("load", main, sp, <<>>, D))
  @@ (agg :> Object("aggregate", main, R)) @@ (ev :> Via("extractvalue", main, agg, <<0>>, D))
  @@ (p :> Object("argument", f, S)) @@ (p1 :> Gep(f, p, <<0, 1>>, B))
  @@ (p1y :> Gep(f, p1, <<0, 0>>, D))
  @@ (q :> Object("argument", g, B)) @@ (qy :> Gep(g, q, <<0, 0>>, D))
  @@ (G :> Object("global", Null, B)) @@ (Gy :> Gep(Null, G, <<0, 0>>, D))

\* The values in the order of their definitions.
MCOrder == <<s, s1, s1y, sm, sa, sai, sb, sbi, sbiy, sp, ld, agg, ev, p, p1, p1y, q, qy, G, Gy>>
MCPosition == [v \in Range(MCOrder) |-> CHOOSE k \in DOMAIN MCOrder : MCOrder[k] = v]

MCFormals == (main :> <<>>) @@ (f :> <<p>>) @@ (g :> <<q>>)
From(caller, callee, args) == [caller |-> caller, callee |-> callee, args |-> args]
MCCalls == {From(main, f, <<s>>), From(main, g, <<G>>), From(main, g, <<sbi>>),
            From(f, g, <<p1>>), From(g, g, <<q>>)}
MCPaths == {<<>>, <<0>>, <<1>>, <<2>>, <<1, 0>>, <<2, 0>>}
MCInfo == (s :> (<<1>> :> Nested @@ <<1, 0>> :> 3))
            @@ (q :> (<<0>> :> 3)) @@ (G :> (<<0>> :> NoErr)) @@ (agg :> (<<0>> :> 3))
=============================================================================
