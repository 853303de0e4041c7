------------------------ MODULE StructErrorMap_proofs ------------------------
(***************************************************************************)
(* Three results about StructErrorMap, for every program and metadata, and *)
(* every sequence of stores, calls and returns.  The bindings of struct    *)
(* parameters never lead back, and so the walk from a pointer to its       *)
(* object ends.  Every tree follows the type of its object.  A load finds  *)
(* what was last stored to the field.                                      *)
(***************************************************************************)
EXTENDS StructErrorMap, RecursionLemmas, FiniteSetTheorems

\* An activation, whatever its trees and places are.
Activations(Forests, Placements) ==
  [f : Functions, args : Seq(Values), trees : Forests,
   bind : [Parameters -> Values \cup {Unbound}], places : Placements, wrote : SUBSET Objects]

StackShape == \E Forests, Placements : stack \in Seq(Activations(Forests, Placements))

StructFormal(f, a) == \E k \in DOMAIN Formals[f] : Formals[f][k] = a /\ Def[a].pointee \in StructTypes

\* An activation above the first has bound the struct parameters of every
\* function active below it, and of its own.
ActiveFormalsBound ==
  \A d \in DOMAIN stack : \A i \in 2 .. d : \A a \in Parameters :
    StructFormal(stack[i].f, a) => stack[d].bind[a] # Unbound

\* The binding of a in bind leads outwards on stack s.
Outwards(s, d, bind, a) ==
  \/ Def[bind[a]].owner = Null
  \/ Def[a].owner = s[1].f
  \/ \E j \in 1 .. d : /\ s[j].f = Def[bind[a]].owner
                       /\ \A i \in 1 .. j : s[i].f # Def[a].owner

\* An activation binds only parameters of functions that are active above the
\* outermost.
BoundAreActive ==
  \A d \in DOMAIN stack : \A a \in Parameters :
    stack[d].bind[a] # Unbound => \E i \in 2 .. d : stack[i].f = Def[a].owner

BindInv == StackShape /\ ActiveFormalsBound /\ BoundAreActive /\ BindingsPointOutwards

\* BindingsPointOutwards in terms of Outwards.
LEMMA OutwardsMeans ==
  BindingsPointOutwards <=>
    \A d \in DOMAIN stack : \A a \in Parameters :
      stack[d].bind[a] # Unbound => Outwards(stack, d, stack[d].bind, a)
BY DEF BindingsPointOutwards, Outwards

\* Steps that change no more of the stack than trees and wrote keep the invariant.
LEMMA BindingsKept ==
  ASSUME BindInv, StackShape', DOMAIN stack' \subseteq DOMAIN stack,
         \A d \in DOMAIN stack' : stack'[d].f = stack[d].f /\ stack'[d].bind = stack[d].bind
  PROVE  BindInv'
<1>0. /\ \E n \in Nat : DOMAIN stack = 1 .. n
      /\ \E n \in Nat : DOMAIN stack' = 1 .. n
  <2>1. PICK F, P : stack \in Seq(Activations(F, P))
    BY DEF BindInv, StackShape
  <2>2. PICK G, Q : stack' \in Seq(Activations(G, Q))
    BY DEF StackShape
  <2> QED
    BY <2>1, <2>2
<1>1. ActiveFormalsBound'
  <2> SUFFICES ASSUME NEW d \in DOMAIN stack', NEW i \in 2 .. d, NEW a \in Parameters,
                      StructFormal(stack'[i].f, a)
               PROVE  stack'[d].bind[a] # Unbound
    BY DEF ActiveFormalsBound, StructFormal
  <2>1. i \in DOMAIN stack' /\ d \in DOMAIN stack
    BY <1>0
  <2> QED
    BY <2>1 DEF BindInv, ActiveFormalsBound
<1>2. BindingsPointOutwards'
  <2> SUFFICES ASSUME NEW d \in DOMAIN stack', NEW a \in Parameters,
                      stack'[d].bind[a] # Unbound
               PROVE  Outwards(stack', d, stack'[d].bind, a)
    BY DEF BindingsPointOutwards, Outwards
  <2>1. Outwards(stack, d, stack[d].bind, a)
    BY OutwardsMeans DEF BindInv
  <2>2. \A j \in 1 .. d : j \in DOMAIN stack' /\ stack'[j].f = stack[j].f
    BY <1>0
  <2>3. 1 \in 1 .. d /\ \A j \in 1 .. d : 1 .. j \subseteq 1 .. d
    BY <1>0
  <2> QED
    BY <2>1, <2>2, <2>3 DEF Outwards
<1>3. BoundAreActive'
  <2> SUFFICES ASSUME NEW d \in DOMAIN stack', NEW a \in Parameters,
                      stack'[d].bind[a] # Unbound
               PROVE  \E i \in 2 .. d : stack'[i].f = Def[a].owner
    BY DEF BoundAreActive
  <2>1. d \in DOMAIN stack /\ stack[d].bind[a] # Unbound
    OBVIOUS
  <2>2. PICK i \in 2 .. d : stack[i].f = Def[a].owner
    BY <2>1 DEF BindInv, BoundAreActive
  <2>3. i \in DOMAIN stack'
    BY <1>0
  <2> QED
    BY <2>2, <2>3
<1> QED
  BY <1>1, <1>2, <1>3 DEF BindInv

\* A call: what was bound stays, and the callee's own parameters become bound.
LEMMA CallBinds ==
  ASSUME NEW bind \in [Parameters -> Values \cup {Unbound}], NEW c \in Calls
  PROVE  LET after == initArgumentBindings(bind, c.callee, c.args)
         IN  /\ after \in [Parameters -> Values \cup {Unbound}]
             /\ \A a \in Parameters : bind[a] # Unbound => after[a] = bind[a]
             /\ \A a \in Parameters : StructFormal(c.callee, a) => after[a] # Unbound
             /\ \A a \in Parameters : bind[a] = Unbound /\ after[a] # Unbound =>
                  /\ StructFormal(c.callee, a) /\ Def[a].owner = c.callee
                  /\ Def[after[a]].owner \in {c.caller, Null}
<1> DEFINE after == initArgumentBindings(bind, c.callee, c.args)
           K(a) == {k \in DOMAIN c.args : Formals[c.callee][k] = a /\ Def[a].pointee \in StructTypes}
<1>0. /\ c.callee \in Functions /\ c.args \in Seq(Values)
      /\ DOMAIN c.args = DOMAIN Formals[c.callee]
      /\ \A k \in DOMAIN c.args : c.args[k] \in Values /\ Def[c.args[k]].owner \in {c.caller, Null}
  BY DefinitionsAssumption, CallsAssumption
<1>1. ASSUME NEW a \in Parameters, bind[a] = Unbound, K(a) # {}
      PROVE  \E k \in DOMAIN c.args : after[a] = c.args[k] /\ Formals[c.callee][k] = a
  <2> DEFINE k == CHOOSE k \in DOMAIN c.args : Formals[c.callee][k] = a
  <2>1. k \in DOMAIN c.args /\ Formals[c.callee][k] = a
    BY <1>1
  <2>2. after[a] = c.args[k]
    BY <1>1 DEF initArgumentBindings
  <2> QED
    BY <2>1, <2>2
<1>2. ASSUME NEW a \in Parameters, bind[a] # Unbound \/ K(a) = {}
      PROVE  after[a] = bind[a]
  BY <1>2 DEF initArgumentBindings
<1>3. \A a \in Parameters : after[a] \in Values \cup {Unbound}
  BY <1>0, <1>1, <1>2
<1>4. after \in [Parameters -> Values \cup {Unbound}]
  <2>1. after = [a \in Parameters |-> after[a]]
    BY DEF initArgumentBindings
  <2> QED
    BY <1>3, <2>1
<1>5. \A a \in Parameters : StructFormal(c.callee, a) => K(a) # {}
  BY <1>0 DEF StructFormal
<1>a. ASSUME NEW a \in Parameters, bind[a] = Unbound, K(a) # {}
      PROVE  after[a] # Unbound /\ Def[after[a]].owner \in {c.caller, Null}
  <2>1. PICK k \in DOMAIN c.args : after[a] = c.args[k]
    BY <1>1, <1>a
  <2>2. Unbound \notin Values
    BY DefinitionsAssumption
  <2> QED
    BY <1>0, <2>1, <2>2
<1>6. \A a \in Parameters : StructFormal(c.callee, a) => after[a] # Unbound
  <2> TAKE a \in Parameters
  <2>1. CASE bind[a] = Unbound
    BY <1>5, <1>a, <2>1
  <2>2. CASE bind[a] # Unbound
    BY <1>2, <2>2
  <2> QED
    BY <2>1, <2>2
<1>7. ASSUME NEW a \in Parameters, bind[a] = Unbound, after[a] # Unbound
      PROVE  /\ StructFormal(c.callee, a) /\ Def[a].owner = c.callee
             /\ Def[after[a]].owner \in {c.caller, Null}
  <2>1. K(a) # {}
    BY <1>2, <1>7
  <2>2. PICK k \in DOMAIN c.args : Formals[c.callee][k] = a /\ Def[a].pointee \in StructTypes
    BY <2>1
  <2>3. StructFormal(c.callee, a) /\ Def[a].owner = c.callee
    BY <1>0, <2>2, DefinitionsAssumption DEF StructFormal
  <2> QED
    BY <1>7, <1>a, <2>1, <2>3
<1> QED
  BY <1>2, <1>4, <1>6, <1>7

\* A call keeps the invariant: whatever parameter it binds belongs to a function
\* that is not active, or is the outermost one.
LEMMA CallKeeps ==
  ASSUME BindInv, NEW c \in Calls, Call(c)
  PROVE  BindInv'
<1> DEFINE after == initArgumentBindings(Top.bind, c.callee, c.args)
           n == Len(stack)
<1>1. PICK Forests, Placements : stack \in Seq(Activations(Forests, Placements))
  BY DEF BindInv, StackShape
<1>2. n \in Nat \ {0} /\ DOMAIN stack = 1 .. n /\ Top = stack[n]
  BY <1>1 DEF Call, Running, Top, Depth
<1>3. /\ Top \in Activations(Forests, Placements)
      /\ Top.bind \in [Parameters -> Values \cup {Unbound}]
  <2>1. Top \in Activations(Forests, Placements)
    BY <1>1, <1>2
  <2> QED
    BY <2>1 DEF Activations
<1>4. c.callee \in Functions /\ c.args \in Seq(Values) /\ c.caller = Top.f
  BY CallsAssumption DEF Call
<1>5. PICK t, p : stack' = Append(stack, [f |-> c.callee, args |-> c.args, trees |-> t,
                                          bind |-> after, places |-> p, wrote |-> {}])
  BY DEF Call
<1>6. /\ after \in [Parameters -> Values \cup {Unbound}]
      /\ \A a \in Parameters : Top.bind[a] # Unbound => after[a] = Top.bind[a]
      /\ \A a \in Parameters : StructFormal(c.callee, a) => after[a] # Unbound
      /\ \A a \in Parameters : Top.bind[a] = Unbound /\ after[a] # Unbound =>
           /\ StructFormal(c.callee, a) /\ Def[a].owner = c.callee
           /\ Def[after[a]].owner \in {c.caller, Null}
  BY <1>3, CallBinds
<1>7. StackShape'
  <2> DEFINE F == Forests \cup {t}
             P == Placements \cup {p}
  <2>1. stack \in Seq(Activations(F, P))
    <3>1. Activations(Forests, Placements) \subseteq Activations(F, P)
      BY DEF Activations
    <3> HIDE DEF F, P
    <3> QED
      BY <1>1, <3>1
  <2>2. [f |-> c.callee, args |-> c.args, trees |-> t, bind |-> after, places |-> p,
         wrote |-> {}] \in Activations(F, P)
    BY <1>4, <1>6 DEF Activations
  <2>3. stack' \in Seq(Activations(F, P))
    BY <1>5, <2>1, <2>2
  <2> QED
    BY <2>3 DEF StackShape
<1>8. /\ DOMAIN stack' = 1 .. n + 1
      /\ \A d \in 1 .. n : stack'[d] = stack[d]
      /\ stack'[n + 1].f = c.callee /\ stack'[n + 1].bind = after
  BY <1>1, <1>2, <1>5
<1>9. ActiveFormalsBound'
  <2> SUFFICES ASSUME NEW d \in 1 .. n + 1, NEW i \in 2 .. d, NEW a \in Parameters,
                      StructFormal(stack'[i].f, a)
               PROVE  stack'[d].bind[a] # Unbound
    BY <1>8 DEF ActiveFormalsBound, StructFormal
  <2>1. CASE d \in 1 .. n
    <3>1. i \in 1 .. n /\ stack'[i] = stack[i] /\ stack'[d] = stack[d]
      BY <1>2, <1>8, <2>1
    <3> QED
      BY <1>2, <2>1, <3>1 DEF BindInv, ActiveFormalsBound
  <2>2. CASE d = n + 1 /\ i = n + 1
    BY <1>6, <1>8, <2>2
  <2>3. CASE d = n + 1 /\ i \in 2 .. n
    <3>1. i \in 1 .. n /\ stack'[i] = stack[i] /\ n \in 1 .. n
      BY <1>2, <1>8, <2>3
    <3>2. Top.bind[a] # Unbound
      <4>1. StructFormal(stack[i].f, a) /\ n \in DOMAIN stack
        BY <1>2, <3>1
      <4>2. ActiveFormalsBound /\ i \in 2 .. n /\ Top = stack[n]
        BY <1>2, <2>3 DEF BindInv
      <4> QED
        BY <4>1, <4>2 DEF ActiveFormalsBound
    <3> QED
      BY <1>6, <1>8, <2>3, <3>2
  <2> QED
    BY <1>2, <2>1, <2>2, <2>3
<1>10. BindingsPointOutwards'
  <2> SUFFICES ASSUME NEW d \in 1 .. n + 1, NEW a \in Parameters, stack'[d].bind[a] # Unbound
               PROVE  Outwards(stack', d, stack'[d].bind, a)
    BY <1>8 DEF BindingsPointOutwards, Outwards
  <2>1. ASSUME NEW e \in 1 .. n, stack[e].bind[a] # Unbound,
               NEW m \in e .. n + 1, NEW bind, bind[a] = stack[e].bind[a]
        PROVE  Outwards(stack', m, bind, a)
    <3>1. Outwards(stack, e, stack[e].bind, a)
      BY <1>2, <2>1, OutwardsMeans DEF BindInv
    <3>2. \A j \in 1 .. e : j \in 1 .. n /\ j \in 1 .. m
      BY <1>2
    <3>3. 1 \in 1 .. n /\ \A j \in 1 .. e : 1 .. j \subseteq 1 .. n
      BY <1>2
    <3>4. /\ stack'[1].f = stack[1].f
          /\ \A j \in 1 .. e : stack'[j].f = stack[j].f /\ \A i \in 1 .. j : stack'[i].f = stack[i].f
      BY <1>8, <3>2, <3>3
    <3> QED
      BY <2>1, <3>1, <3>2, <3>4 DEF Outwards
  <2>2. CASE d \in 1 .. n
    <3>1. stack'[d].bind[a] = stack[d].bind[a] /\ d \in d .. n + 1
      BY <1>2, <1>8, <2>2
    <3> QED
      BY <2>1, <2>2, <3>1
  <2>3. CASE d = n + 1 /\ Top.bind[a] # Unbound
    <3>1. stack'[d].bind[a] = stack[n].bind[a] /\ n \in 1 .. n /\ d \in n .. n + 1
      BY <1>2, <1>6, <1>8, <2>3
    <3> QED
      BY <1>2, <2>1, <2>3, <3>1
  <2>4. CASE d = n + 1 /\ Top.bind[a] = Unbound
    <3>0. stack'[d].bind = after /\ n \in 1 .. n
      BY <1>2, <1>8, <2>4
    <3>1. /\ StructFormal(c.callee, a) /\ Def[a].owner = c.callee
          /\ Def[after[a]].owner \in {stack[n].f, Null}
      BY <1>2, <1>4, <1>6, <2>4, <3>0
    <3>2. ASSUME NEW i \in 2 .. n, stack[i].f = c.callee PROVE FALSE
      BY <1>2, <2>4, <3>0, <3>1, <3>2 DEF BindInv, ActiveFormalsBound
    <3>3. CASE stack[1].f = c.callee
      BY <1>2, <1>8, <3>1, <3>3 DEF Outwards
    <3>4. CASE stack[1].f # c.callee
      <4>1. \A i \in 1 .. n : stack'[i].f = stack[i].f /\ stack[i].f # c.callee
        BY <1>2, <1>8, <3>2, <3>4
      <4>2. n \in 1 .. d
        BY <1>2, <2>4
      <4>3. CASE Def[after[a]].owner = Null
        BY <3>0, <4>3 DEF Outwards
      <4>4. CASE Def[after[a]].owner = stack[n].f
        <5>1. /\ stack'[n].f = Def[stack'[d].bind[a]].owner
              /\ \A i \in 1 .. n : stack'[i].f # Def[a].owner
          BY <3>0, <3>1, <4>1, <4>4
        <5> QED
          BY <4>2, <5>1 DEF Outwards
      <4> QED
        BY <3>1, <4>3, <4>4
    <3> QED
      BY <3>3, <3>4
  <2> QED
    BY <1>2, <2>2, <2>3, <2>4
<1>11. BoundAreActive'
  <2> SUFFICES ASSUME NEW d \in 1 .. n + 1, NEW a \in Parameters, stack'[d].bind[a] # Unbound
               PROVE  \E i \in 2 .. d : stack'[i].f = Def[a].owner
    BY <1>8 DEF BoundAreActive
  <2>1. ASSUME NEW e \in 1 .. n, stack[e].bind[a] # Unbound, e <= d
        PROVE  \E i \in 2 .. d : stack'[i].f = Def[a].owner
    <3>1. PICK i \in 2 .. e : stack[i].f = Def[a].owner
      BY <1>2, <2>1 DEF BindInv, BoundAreActive
    <3>2. i \in 1 .. n /\ i \in 2 .. d
      BY <1>2, <2>1
    <3> QED
      BY <1>8, <3>1, <3>2
  <2>2. CASE d \in 1 .. n
    <3>1. stack[d].bind[a] # Unbound /\ d <= d
      BY <1>8, <2>2
    <3> QED
      BY <2>1, <2>2, <3>1
  <2>3. CASE d = n + 1 /\ Top.bind[a] # Unbound
    <3>1. n \in 1 .. n /\ n <= d /\ stack[n].bind[a] # Unbound
      BY <1>2, <2>3
    <3> QED
      BY <2>1, <3>1
  <2>4. CASE d = n + 1 /\ Top.bind[a] = Unbound
    <3>1. n + 1 \in 2 .. d /\ stack'[n + 1].f = c.callee /\ stack'[d].bind = after
      BY <1>2, <1>8, <2>4
    <3>2. Def[a].owner = c.callee
      BY <1>6, <2>4, <3>1
    <3> QED
      BY <3>1, <3>2
  <2> QED
    BY <1>2, <2>2, <2>3, <2>4
<1> QED
  BY <1>7, <1>9, <1>10, <1>11 DEF BindInv

\* A sequence with one element replaced.
LEMMA ElementReplaced ==
  ASSUME NEW A, NEW s \in Seq(A), NEW m \in DOMAIN s, NEW x \in A
  PROVE  /\ [s EXCEPT ![m] = x] \in Seq(A) /\ DOMAIN [s EXCEPT ![m] = x] = DOMAIN s
         /\ \A d \in DOMAIN s : [s EXCEPT ![m] = x][d] = IF d = m THEN x ELSE s[d]
OBVIOUS

\* Every step keeps the invariant.
LEMMA BindInvStep == BindInv /\ [Next]_vars => BindInv'
<1> SUFFICES ASSUME BindInv, [Next]_vars PROVE BindInv'
  OBVIOUS
<1>1. PICK Forests, Placements : stack \in Seq(Activations(Forests, Placements))
  BY DEF BindInv, StackShape
<1>2. ASSUME NEW F, NEW P, stack' \in Seq(Activations(F, P)) PROVE StackShape'
  BY <1>2 DEF StackShape
<1>3. ASSUME NEW f \in Functions, Visit(f) PROVE BindInv'
  <2>1. PICK t : stack' = <<[f |-> f, args |-> <<>>, trees |-> t,
                             bind |-> [v \in Parameters |-> Unbound], places |-> <<>>,
                             wrote |-> {}]>>
    BY <1>3 DEF Visit
  <2>2. stack' \in Seq(Activations({t}, {<<>>}))
    BY <2>1 DEF Activations
  <2>3. ActiveFormalsBound'
    BY <2>1 DEF ActiveFormalsBound
  <2>4. BindingsPointOutwards' /\ BoundAreActive'
    BY <2>1 DEF BindingsPointOutwards, BoundAreActive
  <2> QED
    BY <1>2, <2>2, <2>3, <2>4 DEF BindInv
<1>4. ASSUME NEW s \in Seq(Activations(Forests, Placements)), DOMAIN s \subseteq DOMAIN stack,
             \A d \in DOMAIN s : s[d] = stack[d],
             NEW m \in DOMAIN s, NEW t, NEW w \in SUBSET Objects,
             stack' = [s EXCEPT ![m].trees = t, ![m].wrote = w]
      PROVE  BindInv'
  <2>1. /\ stack' \in Seq(Activations(Forests \cup {t}, Placements)) /\ DOMAIN stack' = DOMAIN s
        /\ \A d \in DOMAIN s : stack'[d].f = s[d].f /\ stack'[d].bind = s[d].bind
    <3> DEFINE G == Forests \cup {t}
               A == Activations(G, Placements)
               x == s[m]
               mid == [x EXCEPT !.trees = t]
               last == [mid EXCEPT !.wrote = w]
    <3>1. s[m] \in Activations(Forests, Placements)
      BY <1>4
    <3>2. x \in A /\ t \in G
      BY <3>1 DEF Activations
    <3> HIDE DEF G, x
    <3>3. mid \in A /\ mid.f = x.f /\ mid.bind = x.bind
      BY <3>2 DEF Activations
    <3> HIDE DEF mid
    <3>4. last \in A /\ last.f = mid.f /\ last.bind = mid.bind
      BY <1>4, <3>3 DEF Activations
    <3>5. last = [x EXCEPT !.trees = t, !.wrote = w]
      BY DEF mid
    <3>6. stack' = [s EXCEPT ![m] = last]
      BY <1>4, <3>5 DEF x
    <3>7. s \in Seq(A)
      <4>1. Activations(Forests, Placements) \subseteq A
        BY DEF Activations, G
      <4> HIDE DEF A
      <4> QED
        BY <1>4, <4>1
    <3> HIDE DEF A, last
    <3>8. /\ stack' \in Seq(A) /\ DOMAIN stack' = DOMAIN s
          /\ \A d \in DOMAIN s : stack'[d] = IF d = m THEN last ELSE s[d]
      <4>1. m \in DOMAIN s
        BY <1>4
      <4> QED
        BY <3>4, <3>6, <3>7, <4>1, ElementReplaced
    <3>9. \A d \in DOMAIN s : stack'[d].f = s[d].f /\ stack'[d].bind = s[d].bind
      BY <3>3, <3>4, <3>8 DEF x
    <3> QED
      BY <3>8, <3>9 DEF A, G
  <2>2. StackShape'
    BY <1>2, <2>1
  <2>3. \A d \in DOMAIN stack' : stack'[d].f = stack[d].f /\ stack'[d].bind = stack[d].bind
    BY <1>4, <2>1
  <2> QED
    BY <1>4, <2>1, <2>2, <2>3, BindingsKept
<1>t. Running => /\ Depth \in DOMAIN stack /\ Top.wrote \in SUBSET Objects
                 /\ DOMAIN stack = 1 .. Depth /\ Depth \in Nat
                 /\ \A d \in DOMAIN stack : stack[d].wrote \in SUBSET Objects
  <2>1. ASSUME NEW d \in DOMAIN stack PROVE stack[d].wrote \in SUBSET Objects
    <3>1. stack[d] \in Activations(Forests, Placements)
      BY <1>1
    <3> QED
      BY <3>1 DEF Activations
  <2> QED
    BY <1>1, <2>1 DEF Running, Depth, Top
<1>5. ASSUME NEW v \in Objects, Evaluate(v) PROVE BindInv'
  <2>1. PICK t : stack' = [stack EXCEPT ![Depth].trees = t]
    BY <1>5 DEF Evaluate
  <2>2. Depth \in DOMAIN stack /\ Top.wrote \in SUBSET Objects
    BY <1>5, <1>t DEF Evaluate
  <2>3. stack' = [stack EXCEPT ![Depth].trees = t, ![Depth].wrote = Top.wrote]
    <3>1. stack[Depth] \in Activations(Forests, Placements)
      BY <1>1, <2>2
    <3>2. [stack[Depth] EXCEPT !.trees = t] = [stack[Depth] EXCEPT !.trees = t, !.wrote = stack[Depth].wrote]
      BY <3>1 DEF Activations
    <3> QED
      BY <1>1, <2>1, <2>2, <3>2 DEF Top
  <2> QED
    BY <1>1, <1>4, <2>2, <2>3
<1>6. ASSUME NEW P, NEW e, Store(P, e) PROVE BindInv'
  <2>1. PICK t, o : stack' = [stack EXCEPT ![Depth].trees = t, ![Depth].wrote = @ \cup ({o} \cap Objects)]
    BY <1>6 DEF Store
  <2>2. Depth \in DOMAIN stack /\ Top.wrote \in SUBSET Objects
    BY <1>6, <1>t DEF Store
  <2>3. stack' = [stack EXCEPT ![Depth].trees = t,
                               ![Depth].wrote = Top.wrote \cup ({o} \cap Objects)]
    <3>1. stack[Depth] \in Activations(Forests, Placements)
      BY <1>1, <2>2
    <3>2. [stack[Depth] EXCEPT !.trees = t].wrote = stack[Depth].wrote
      BY <3>1 DEF Activations
    <3> QED
      BY <1>1, <2>1, <2>2, <3>2 DEF Top
  <2> DEFINE w == Top.wrote \cup ({o} \cap Objects)
  <2>4. w \in SUBSET Objects
    BY <2>2
  <2> HIDE DEF w
  <2>5. stack' = [stack EXCEPT ![Depth].trees = t, ![Depth].wrote = w]
    BY <2>3 DEF w
  <2> QED
    BY <1>1, <1>4, <2>2, <2>4, <2>5
<1>7. ASSUME NEW P, LoadTraps(P) PROVE BindInv'
  BY <1>1, <1>2, <1>7, BindingsKept DEF LoadTraps
<1>8. CASE Return
  <2> DEFINE caller == stack[Depth - 1]
             low == SubSeq(stack, 1, Depth - 1)
             t == updateStructTree(caller.trees, caller.bind, Top.trees, Range(Top.args))
             w == caller.wrote \cup Top.wrote
  <2>1. Depth \in Nat /\ Depth > 1 /\ DOMAIN stack = 1 .. Depth
    BY <1>1, <1>8 DEF Return, Depth
  <2>2. /\ low \in Seq(Activations(Forests, Placements)) /\ DOMAIN low = 1 .. Depth - 1
        /\ \A d \in 1 .. Depth - 1 : low[d] = stack[d]
    BY <1>1, <2>1 DEF Depth
  <2>3. stack' = [low EXCEPT ![Depth - 1].trees = t, ![Depth - 1].wrote = w]
    BY <1>8, <2>1, <2>2 DEF Return
  <2>4. low[Depth - 1] = caller /\ Depth - 1 \in DOMAIN low /\ w \in SUBSET Objects
    BY <1>8, <1>t, <2>1, <2>2 DEF Return, Top
  <2> DEFINE m == Depth - 1
  <2> HIDE DEF low, t, w
  <2>5. DOMAIN low \subseteq DOMAIN stack /\ \A d \in DOMAIN low : low[d] = stack[d]
    BY <2>1, <2>2
  <2>6. /\ low \in Seq(Activations(Forests, Placements)) /\ m \in DOMAIN low
        /\ stack' = [low EXCEPT ![m].trees = t, ![m].wrote = w]
    BY <2>2, <2>3, <2>4
  <2> HIDE DEF m
  <2> QED
    BY <1>4, <2>4, <2>5, <2>6
<1>9. CASE Leave
  <2>1. stack' = <<>> /\ stack' \in Seq(Activations({}, {}))
    BY <1>9 DEF Leave
  <2> QED
    BY <1>2, <2>1, BindingsKept
<1>10. CASE UNCHANGED vars
  BY <1>1, <1>2, <1>10, BindingsKept DEF vars
<1> QED
  BY <1>3, <1>5, <1>6, <1>7, <1>8, <1>9, <1>10, CallKeeps DEF Next

\* The initial state has no activations.
LEMMA BindInvInit == Init => BindInv
<1> SUFFICES ASSUME Init PROVE BindInv
  OBVIOUS
<1>1. stack = <<>> /\ stack \in Seq(Activations({}, {}))
  BY DEF Init
<1> QED
  BY <1>1 DEF BindInv, StackShape, ActiveFormalsBound, BoundAreActive, BindingsPointOutwards

\* Bindings lead outwards in every reachable state, for every program, stack
\* and recursion limit.
THEOREM BindingsLeadOutwards == Spec => []BindingsPointOutwards
<1>1. BindInv => BindingsPointOutwards
  BY DEF BindInv
<1> QED
  BY BindInvInit, BindInvStep, <1>1, PTL DEF Spec

-----------------------------------------------------------------------------
(* Walks from a pointer to its object.                                     *)

Ways == [root : Objects \cup {Null}, indices : Seq(Nat), endless : BOOLEAN]

\* One call of navigatePointerTreeToRoot returns a way, if the recursive one does.
LEMMA WaysAreTyped ==
  ASSUME NEW bind, NEW rest \in [Values -> Ways]
  PROVE  navigatePointerTreeToRoot(bind, rest) \in [Values -> Ways]
<1> SUFFICES ASSUME NEW v \in Values
             PROVE  navigatePointerTreeToRoot(bind, rest)[v] \in Ways
  BY DEF navigatePointerTreeToRoot
<1> DEFINE d == Def[v]
           Root == IF d.pointee \in StructTypes THEN v ELSE Null
           way == navigatePointerTreeToRoot(bind, rest)[v]
<1>1. /\ d.idx \in Seq(Indices)
      /\ d.kind \in {"argument", "alloca", "global"} => Root \in Objects \cup {Null}
  BY DefinitionsAssumption DEF Objects
<1>2. ASSUME NEW r \in Objects \cup {Null}, NEW s \in Seq(Nat) PROVE Way(r, s) \in Ways
  BY DEF Way, Ways
<1>3. <<>> \in Seq(Nat)
  OBVIOUS
<1>4. CASE d.kind = "gep"
  <2>1. way = [rest[d.base] EXCEPT !.indices = Push(Tail1(d.idx), @)]
    BY <1>4 DEF navigatePointerTreeToRoot
  <2>2. rest[d.base] \in Ways
    BY <1>4, OperandsAssumption
  <2>3. Tail1(d.idx) \in Seq(Nat)
    <3>1. Len(d.idx) \in Nat /\ \A k \in 1 .. Len(d.idx) : d.idx[k] \in Indices
      BY <1>1
    <3>2. \A k \in 1 .. Len(d.idx) - 1 : k + 1 \in 1 .. Len(d.idx)
      BY <3>1
    <3>3. \A k \in 1 .. Len(d.idx) - 1 : parseIndex(d.idx[k + 1]) \in Nat
      BY <3>1, <3>2 DEF parseIndex, Indices
    <3> DEFINE m == IF Len(d.idx) = 0 THEN 0 ELSE Len(d.idx) - 1
    <3>4. m \in Nat /\ 1 .. Len(d.idx) - 1 = 1 .. m
      BY <3>1
    <3>5. Tail1(d.idx) \in [1 .. m -> Nat]
      BY <3>3, <3>4 DEF Tail1
    <3> QED
      BY <3>4, <3>5
  <2>4. Push(Tail1(d.idx), rest[d.base].indices) \in Seq(Nat)
    BY <2>2, <2>3 DEF Push, Ways
  <2> QED
    BY <2>1, <2>2, <2>4 DEF Ways
<1>5. CASE d.kind = "load"
  BY <1>5, OperandsAssumption DEF navigatePointerTreeToRoot
<1>6. CASE d.kind = "argument"
  <2>1. way = IF bind[v] \in Values THEN rest[bind[v]] ELSE Way(Root, <<>>)
    BY <1>6 DEF navigatePointerTreeToRoot
  <2>2. Root \in Objects \cup {Null}
    BY <1>1, <1>6
  <2> HIDE DEF way, Root
  <2>3. way \in Ways
    BY <1>2, <1>3, <2>1, <2>2
  <2> QED
    BY <2>3 DEF way
<1>7. CASE d.kind \in {"alloca", "global"}
  BY <1>1, <1>2, <1>3, <1>7 DEF navigatePointerTreeToRoot
<1>8. CASE d.kind = "extractvalue"
  <2>1. d.base \in Objects /\ d.idx \in Seq(Nat)
    BY <1>8, OperandsAssumption DEF Objects
  <2> QED
    BY <1>2, <1>8, <2>1 DEF navigatePointerTreeToRoot
<1>9. CASE d.kind \notin {"gep", "load", "argument", "alloca", "global", "extractvalue"}
  BY <1>2, <1>3, <1>9 DEF navigatePointerTreeToRoot
<1> QED
  BY <1>4, <1>5, <1>6, <1>7, <1>8, <1>9

\* The recursion that retrieveRootPointer reads its way from.
IsWalk(bind, walk) ==
  walk = [n \in Nat |-> IF n = 0 THEN [v \in Values |-> Endless]
                        ELSE navigatePointerTreeToRoot(bind, walk[n - 1])]

\* It exists, whatever the bindings, and gives ways.
LEMMA WalkIsDefined ==
  ASSUME NEW bind
  PROVE  \E walk \in [Nat -> [Values -> Ways]] :
           /\ IsWalk(bind, walk)
           /\ \A P : retrieveRootPointer(bind, P) = walk[Cardinality(Values) + 1][P]
<1> DEFINE X == [Values -> Ways]
           base == [v \in Values |-> Endless]
           step == [n \in Nat \ {0} |-> [rest \in X |-> navigatePointerTreeToRoot(bind, rest)]]
<1>1. base \in X
  <2>1. Endless \in Ways
    BY DEF Endless, Ways
  <2> QED
    BY <2>1
<1>2. step \in [Nat \ {0} -> [X -> X]]
  BY WaysAreTyped
<1>3. \A n \in Nat : \A rest \in X : step[n + 1][rest] = navigatePointerTreeToRoot(bind, rest)
  OBVIOUS
<1> HIDE DEF X, base, step
<1>4. PICK f \in [Nat -> X] : ComputesOnNat(f, base, step)
  BY <1>1, <1>2, RecursiveFunctionOnNat
<1>5. f[0] = base /\ \A n \in Nat : f[n + 1] = navigatePointerTreeToRoot(bind, f[n])
  BY <1>3, <1>4 DEF ComputesOnNat
<1>6. IsWalk(bind, f)
  <2>1. ASSUME NEW n \in Nat
        PROVE  f[n] = IF n = 0 THEN base ELSE navigatePointerTreeToRoot(bind, f[n - 1])
    <3>1. CASE n # 0
      <4>1. n - 1 \in Nat /\ (n - 1) + 1 = n
        BY <3>1
      <4> QED
        BY <1>5, <3>1, <4>1
    <3> QED
      BY <1>5, <3>1
  <2>2. f = [n \in Nat |-> IF n = 0 THEN base ELSE navigatePointerTreeToRoot(bind, f[n - 1])]
    BY <2>1
  <2> QED
    BY <2>2 DEF IsWalk, base
<1> DEFINE walk == CHOOSE g : IsWalk(bind, g)
<1>7. IsWalk(bind, walk)
  BY <1>6, Zenon
<1>8. \A P : retrieveRootPointer(bind, P) = walk[Cardinality(Values) + 1][P]
  BY DEF retrieveRootPointer, IsWalk
<1> HIDE DEF walk
<1>9. walk[0] = base /\ \A n \in Nat : walk[n + 1] = navigatePointerTreeToRoot(bind, walk[n])
  <2>1. \A n \in Nat : n + 1 \in Nat /\ n + 1 # 0 /\ (n + 1) - 1 = n
    OBVIOUS
  <2>2. \A n \in Nat : walk[n] = IF n = 0 THEN base ELSE navigatePointerTreeToRoot(bind, walk[n - 1])
    BY <1>7 DEF IsWalk, base
  <2> QED
    BY <2>1, <2>2
<1>10. \A n \in Nat : walk[n] \in X
  <2> DEFINE T == {n \in Nat : walk[n] \in X}
  <2>1. ASSUME NEW rest \in X PROVE navigatePointerTreeToRoot(bind, rest) \in X
    BY WaysAreTyped DEF X
  <2>2. 0 \in T /\ \A n \in Nat : n \in T => n + 1 \in T
    BY <1>1, <1>9, <2>1
  <2> HIDE DEF T
  <2>3. \A n \in Nat : n \in T
    BY <2>2, InductionOverNat
  <2> QED
    BY <2>3 DEF T
<1>11. walk \in [Nat -> X]
  BY <1>7, <1>10 DEF IsWalk
<1> QED
  BY <1>7, <1>8, <1>11 DEF X

\* The walk goes on from v to u.
Leads(bind, v, u) ==
  \/ Def[v].kind \in {"gep", "load"} /\ u = Def[v].base
  \/ Def[v].kind = "argument" /\ bind[v] \in Values /\ u = bind[v]

\* A way is endless only because the rest of it is.
LEMMA EndlessLeads ==
  ASSUME NEW bind, NEW rest \in [Values -> Ways], NEW v \in Values,
         navigatePointerTreeToRoot(bind, rest)[v].endless
  PROVE  \E u \in Values : Leads(bind, v, u) /\ rest[u].endless
<1> DEFINE d == Def[v]
           Root == IF d.pointee \in StructTypes THEN v ELSE Null
           way == navigatePointerTreeToRoot(bind, rest)[v]
<1>1. \A r, s : ~Way(r, s).endless
  BY DEF Way
<1>2. CASE d.kind = "gep"
  <2>1. way = [rest[d.base] EXCEPT !.indices = Push(Tail1(d.idx), @)]
    BY <1>2 DEF navigatePointerTreeToRoot
  <2>2. d.base \in Values /\ rest[d.base] \in Ways
    BY <1>2, OperandsAssumption
  <2>3. way.endless = rest[d.base].endless
    BY <2>1, <2>2 DEF Ways
  <2> QED
    BY <1>2, <2>2, <2>3 DEF Leads
<1>3. CASE d.kind = "load"
  <2>1. way = rest[d.base] /\ d.base \in Values
    BY <1>3, OperandsAssumption DEF navigatePointerTreeToRoot
  <2> QED
    BY <1>3, <2>1 DEF Leads
<1>4. CASE d.kind = "argument"
  <2>1. way = IF bind[v] \in Values THEN rest[bind[v]] ELSE Way(Root, <<>>)
    BY <1>4 DEF navigatePointerTreeToRoot
  <2>2. bind[v] \in Values
    BY <1>1, <2>1
  <2> QED
    BY <1>4, <2>1, <2>2 DEF Leads
<1>5. CASE d.kind \notin {"gep", "load", "argument"}
  <2>1. way \in {Way(Root, <<>>), Way(d.base, d.idx), Way(Null, <<>>)}
    BY <1>5 DEF navigatePointerTreeToRoot
  <2> QED
    BY <1>1, <2>1
<1> QED
  BY <1>2, <1>3, <1>4, <1>5

\* u comes before v when its function became active earlier, or when both are of
\* one function and u is defined first.
Earlier(level, u, v) ==
  \/ level[u] < level[v]
  \/ level[u] = level[v] /\ Position[u] < Position[v]

\* A walk that only leads to earlier values ends.
LEMMA WalksBackEnd ==
  ASSUME NEW bind, NEW level \in [Values -> Nat],
         \A v, u \in Values : Leads(bind, v, u) => Earlier(level, u, v),
         NEW P \in Values
  PROVE  ~retrieveRootPointer(bind, P).endless
<1> DEFINE Passed(S, v) == \A w \in S : w = v \/ Earlier(level, w, v)
           Fuel(n, v) == \E S \in SUBSET Values : Cardinality(S) = n /\ Passed(S, v)
           N == Cardinality(Values)
<1>0. Position \in [Values -> Nat] /\ IsFiniteSet(Values) /\ N \in Nat
  BY OperandsAssumption, FS_CardinalityType
<1>1. \A S \in SUBSET Values : IsFiniteSet(S) /\ Cardinality(S) \in Nat /\ Cardinality(S) <= N
  BY <1>0, FS_Subset, FS_CardinalityType
<1>2. PICK walk \in [Nat -> [Values -> Ways]] :
        /\ IsWalk(bind, walk)
        /\ \A Q : retrieveRootPointer(bind, Q) = walk[Cardinality(Values) + 1][Q]
  BY WalkIsDefined
<1>3. \A n \in Nat : walk[n + 1] = navigatePointerTreeToRoot(bind, walk[n])
  <2>1. \A n \in Nat : n + 1 \in Nat /\ n + 1 # 0 /\ (n + 1) - 1 = n
    OBVIOUS
  <2>2. \A n \in Nat : walk[n] = IF n = 0 THEN [v \in Values |-> Endless]
                                 ELSE navigatePointerTreeToRoot(bind, walk[n - 1])
    BY <1>2 DEF IsWalk
  <2> QED
    BY <2>1, <2>2
<1>4. ASSUME NEW n \in Nat, \A v \in Values : walk[n][v].endless => Fuel(n, v),
             NEW v \in Values, walk[n + 1][v].endless
      PROVE  Fuel(n + 1, v)
  <2>1. PICK u \in Values : Leads(bind, v, u) /\ walk[n][u].endless
    BY <1>3, <1>4, EndlessLeads
  <2>2. PICK S \in SUBSET Values : Cardinality(S) = n /\ Passed(S, u)
    BY <1>4, <2>1
  <2>3. Earlier(level, u, v)
    BY <2>1
  <2>4. \A w \in S : Earlier(level, w, v)
    <3> TAKE w \in S
    <3>1. /\ w \in Values /\ level[w] \in Nat /\ level[u] \in Nat /\ level[v] \in Nat
          /\ Position[w] \in Nat /\ Position[u] \in Nat /\ Position[v] \in Nat
      BY <1>0
    <3>2. w = u \/ Earlier(level, w, u)
      BY <2>2
    <3> QED
      BY <2>3, <3>1, <3>2 DEF Earlier
  <2>5. v \notin S
    <3>1. level[v] \in Nat /\ Position[v] \in Nat
      BY <1>0
    <3>2. ~Earlier(level, v, v)
      BY <3>1 DEF Earlier
    <3> QED
      BY <2>4, <3>2
  <2>6. Cardinality(S \cup {v}) = n + 1
    BY <1>1, <2>2, <2>5, FS_AddElement
  <2>7. S \cup {v} \in SUBSET Values /\ Passed(S \cup {v}, v)
    BY <2>4
  <2> QED
    BY <2>6, <2>7
<1>5. \A n \in Nat : \A v \in Values : walk[n][v].endless => Fuel(n, v)
  <2> DEFINE T == {n \in Nat : \A v \in Values : walk[n][v].endless => Fuel(n, v)}
  <2>1. ASSUME NEW v \in Values PROVE Fuel(0, v)
    <3>1. {} \in SUBSET Values /\ Cardinality({}) = 0 /\ Passed({}, v)
      BY FS_EmptySet
    <3> QED
      BY <3>1
  <2> HIDE DEF Fuel
  <2>2. 0 \in T /\ \A n \in Nat : n \in T => n + 1 \in T
    BY <1>4, <2>1
  <2> HIDE DEF T
  <2>3. \A n \in Nat : n \in T
    BY <2>2, InductionOverNat
  <2> QED
    BY <2>3 DEF T
<1>6. ~Fuel(N + 1, P)
  <2>1. \A S \in SUBSET Values : Cardinality(S) # N + 1
    BY <1>0, <1>1
  <2> QED
    BY <2>1
<1>7. ~walk[N + 1][P].endless
  <2>1. N + 1 \in Nat
    BY <1>0
  <2> HIDE DEF N, Fuel
  <2> QED
    BY <1>5, <1>6, <2>1
<1> QED
  BY <1>2, <1>7

\* The first activation of a function among the first d.
First(s, d, f) ==
  IF \E i \in 1 .. d : s[i].f = f
  THEN CHOOSE i \in 1 .. d : s[i].f = f /\ \A j \in 1 .. d : s[j].f = f => i <= j
  ELSE d + 1

\* When the function of a value became active; globals come first of all.
Level(s, d) == [v \in Values |-> IF Def[v].owner = Null THEN 0 ELSE First(s, d, Def[v].owner)]

\* It is what its name says.
LEMMA LevelIsFirst ==
  ASSUME NEW s, NEW d \in Nat
  PROVE  /\ Level(s, d) \in [Values -> Nat]
         /\ \A v \in Values : Def[v].owner # Null => Level(s, d)[v] > 0
         /\ \A v \in Values : \A j \in 1 .. d : s[j].f = Def[v].owner /\ Def[v].owner # Null =>
              /\ Level(s, d)[v] \in 1 .. j
              /\ s[Level(s, d)[v]].f = Def[v].owner
<1>1. ASSUME NEW f, NEW k \in 1 .. d, s[k].f = f
      PROVE  LET i == First(s, d, f)
             IN  i \in 1 .. d /\ s[i].f = f /\ \A j \in 1 .. d : s[j].f = f => i <= j
  <2> DEFINE T == {j \in 1 .. d : s[j].f = f}
  <2>1. T \subseteq Nat /\ T # {}
    BY <1>1
  <2>2. PICK i \in T : \A j \in T : i <= j
    BY <2>1, LeastNumber
  <2>3. i \in 1 .. d /\ s[i].f = f /\ \A j \in 1 .. d : s[j].f = f => i <= j
    BY <2>2
  <2>4. First(s, d, f) = CHOOSE m \in 1 .. d : s[m].f = f /\ \A j \in 1 .. d : s[j].f = f => m <= j
    BY <1>1 DEF First
  <2> QED
    BY <2>3, <2>4
<1>2. ASSUME NEW f PROVE First(s, d, f) \in Nat /\ First(s, d, f) > 0
  <2>1. CASE \E k \in 1 .. d : s[k].f = f
    BY <1>1, <2>1
  <2>2. CASE ~ \E k \in 1 .. d : s[k].f = f
    BY <2>2 DEF First
  <2> QED
    BY <2>1, <2>2
<1>3. \A v \in Values : Level(s, d)[v] = IF Def[v].owner = Null THEN 0 ELSE First(s, d, Def[v].owner)
  BY DEF Level
<1>4. \A v \in Values : Level(s, d)[v] \in Nat /\ (Def[v].owner # Null => Level(s, d)[v] > 0)
  BY <1>2, <1>3
<1>5. Level(s, d) \in [Values -> Nat]
  <2>1. Level(s, d) = [v \in Values |-> Level(s, d)[v]]
    BY DEF Level
  <2> QED
    BY <1>4, <2>1
<1>6. ASSUME NEW v \in Values, NEW j \in 1 .. d, s[j].f = Def[v].owner, Def[v].owner # Null
      PROVE  Level(s, d)[v] \in 1 .. j /\ s[Level(s, d)[v]].f = Def[v].owner
  <2>1. Level(s, d)[v] = First(s, d, Def[v].owner)
    BY <1>3, <1>6
  <2>2. /\ First(s, d, Def[v].owner) \in 1 .. d /\ s[First(s, d, Def[v].owner)].f = Def[v].owner
        /\ First(s, d, Def[v].owner) <= j
    BY <1>1, <1>6
  <2> QED
    BY <2>1, <2>2
<1> QED
  BY <1>4, <1>5, <1>6

\* Unless the outermost function is entered again, every step of a walk leads to
\* an earlier value.
LEMMA StepsLeadBack ==
  ASSUME BindInv, NEW d \in DOMAIN stack, \A e \in 2 .. Depth : stack[e].f # stack[1].f,
         NEW v \in Values, NEW u \in Values, Leads(stack[d].bind, v, u)
  PROVE  Earlier(Level(stack, d), u, v)
<1> DEFINE level == Level(stack, d)
           bind == stack[d].bind
<1> SUFFICES Earlier(level, u, v)
  OBVIOUS
<1>1. d \in Nat /\ Depth \in Nat /\ DOMAIN stack = 1 .. Depth
  <2>1. PICK F, P : stack \in Seq(Activations(F, P))
    BY DEF BindInv, StackShape
  <2> QED
    BY <2>1 DEF Depth
<1>2. /\ level \in [Values -> Nat]
      /\ \A w \in Values : Def[w].owner # Null => level[w] > 0
      /\ \A w \in Values : \A j \in 1 .. d : stack[j].f = Def[w].owner /\ Def[w].owner # Null =>
           level[w] \in 1 .. j /\ stack[level[w]].f = Def[w].owner
  BY <1>1, LevelIsFirst
<1>3. \A w \in Values : level[w] = IF Def[w].owner = Null THEN 0 ELSE First(stack, d, Def[w].owner)
  BY DEF Level
<1> HIDE DEF level
<1>4. CASE Def[v].kind \in {"gep", "load"}
  <2>1. u = Def[v].base /\ Position[u] < Position[v] /\ Def[u].owner \in {Def[v].owner, Null}
    BY <1>4, OperandsAssumption DEF Leads
  <2>2. CASE Def[u].owner = Def[v].owner
    <3>1. level[u] = level[v]
      BY <1>3, <2>2
    <3> QED
      BY <2>1, <3>1 DEF Earlier
  <2>3. CASE Def[u].owner = Null /\ Def[v].owner # Null
    <3>1. level[u] = 0 /\ level[v] > 0
      BY <1>2, <1>3, <2>3
    <3> QED
      BY <3>1 DEF Earlier
  <2> QED
    BY <2>1, <2>2, <2>3
<1>5. CASE Def[v].kind = "argument" /\ bind[v] \in Values /\ u = bind[v]
  <2>1. v \in Parameters /\ bind[v] # Unbound /\ Def[v].owner # Null
    BY <1>5, DefinitionsAssumption, OperandsAssumption DEF Parameters
  <2>2. PICK i \in 2 .. d : stack[i].f = Def[v].owner
    BY <2>1 DEF BindInv, BoundAreActive
  <2>3. i \in 1 .. d /\ i \in 2 .. Depth
    BY <1>1
  <2>4. Def[v].owner # stack[1].f
    BY <2>2, <2>3
  <2>5. level[v] \in 1 .. i /\ stack[level[v]].f = Def[v].owner
    <3> QED
      BY <1>2, <2>1, <2>2, <2>3
  <2>6. Outwards(stack, d, bind, v)
    BY <2>1, OutwardsMeans DEF BindInv
  <2>7. CASE Def[u].owner = Null
    <3>1. level[u] = 0 /\ level[v] > 0
      BY <1>2, <1>3, <2>1, <2>7
    <3> QED
      BY <3>1 DEF Earlier
  <2>8. CASE Def[u].owner # Null
    <3>1. PICK j \in 1 .. d : /\ stack[j].f = Def[u].owner
                              /\ \A k \in 1 .. j : stack[k].f # Def[v].owner
      BY <1>5, <2>4, <2>6, <2>8 DEF Outwards
    <3>2. level[u] \in 1 .. j
      BY <1>2, <2>8, <3>1
    <3>3. level[v] \notin 1 .. j
      BY <2>5, <3>1
    <3>4. level[u] < level[v]
      BY <1>1, <2>5, <3>2, <3>3
    <3> QED
      BY <3>4 DEF Earlier
  <2> QED
    BY <2>7, <2>8
<1> QED
  BY <1>4, <1>5 DEF Leads

\* Every walk through bindings ends, for every program without recursion into the
\* outermost function, and every depth of calls.
THEOREM BoundWalksEnd == Spec => []WalksEnd
<1>1. BindInv => WalksEnd
  <2> SUFFICES ASSUME BindInv, \A e \in 2 .. Depth : stack[e].f # stack[1].f,
                      NEW d \in DOMAIN stack, NEW a \in Parameters
               PROVE  ~retrieveRootPointer(stack[d].bind, a).endless
    BY DEF WalksEnd
  <2> DEFINE bind == stack[d].bind
             level == Level(stack, d)
  <2>1. d \in Nat
    <3>1. PICK F, P : stack \in Seq(Activations(F, P))
      BY DEF BindInv, StackShape
    <3> QED
      BY <3>1
  <2>2. level \in [Values -> Nat]
    BY <2>1, LevelIsFirst
  <2>3. \A v, u \in Values : Leads(bind, v, u) => Earlier(level, u, v)
    BY StepsLeadBack
  <2>4. a \in Values
    BY DEF Parameters
  <2> HIDE DEF bind, level
  <2>5. ~retrieveRootPointer(bind, a).endless
    BY <2>2, <2>3, <2>4, WalksBackEnd
  <2> QED
    BY <2>5 DEF bind
<1> QED
  BY BindInvInit, BindInvStep, <1>1, PTL DEF Spec

-----------------------------------------------------------------------------
(* Types of fields, and the trees of errors.                               *)

Arrays == {T \in Types : Kind[T] = "array"}
Wrapped == {T \in Types : Kind[T] \in {"array", "pointer"}}

\* The type inside an array or pointer; there is no way round in circles.
LEMMA InnerTypes ==
  /\ \A T \in Wrapped : Elements[T][1] \in Types
  /\ [T \in Arrays |-> Elements[T][1]] \in [Arrays -> Types]
  /\ [T \in Wrapped |-> Elements[T][1]] \in [Wrapped -> Types]
  /\ Acyclic(Arrays, [T \in Arrays |-> Elements[T][1]])
  /\ Acyclic(Wrapped, [T \in Wrapped |-> Elements[T][1]])
<1>1. ASSUME NEW T \in Wrapped PROVE Elements[T][1] \in Types
  <2>1. Elements[T] \in Seq(Types) /\ Elements[T] # <<>>
    BY DefinitionsAssumption, TypesAssumption DEF Wrapped
  <2> QED
    BY <2>1
<1>2. Arrays \subseteq Wrapped
  BY DEF Arrays, Wrapped
<1>3. ASSUME NEW D, D \subseteq Wrapped PROVE Acyclic(D, [T \in D |-> Elements[T][1]])
  <2> SUFFICES ASSUME NEW U \in SUBSET D, \A T \in U : [S \in D |-> Elements[S][1]][T] \in U
               PROVE  U = {}
    BY DEF Acyclic
  <2>1. \A T \in U : Kind[T] \in {"array", "pointer"} /\ Elements[T][1] \in U
    BY <1>3 DEF Wrapped
  <2>2. U \in SUBSET Types
    BY <1>3 DEF Wrapped
  <2> QED
    BY <2>1, <2>2, TypesAssumption
<1> QED
  BY <1>1, <1>2, <1>3

\* The number of arrays stripped off a type.
LEMMA SequentialCounts ==
  /\ Sequential \in [Types -> Nat]
  /\ \A T \in Types : Sequential[T] = IF T \in Arrays THEN 1 + Sequential[Elements[T][1]] ELSE 0
<1> DEFINE inner == [T \in Arrays |-> Elements[T][1]]
           step == [T \in Arrays |-> [n \in Nat |-> 1 + n]]
           out == [T \in Types |-> 0]
           Is(f) == f = [T \in Types |-> IF Kind[T] = "array" THEN 1 + f[Elements[T][1]] ELSE 0]
<1>1. /\ Arrays \in SUBSET Types /\ inner \in [Arrays -> Types] /\ Acyclic(Arrays, inner)
      /\ step \in [Arrays -> [Nat -> Nat]] /\ out \in [Types -> Nat]
  BY InnerTypes DEF Arrays
<1>2. PICK f \in [Types -> Nat] : RecursesAlong(f, Types, Arrays, inner, step, out)
  <2> HIDE DEF inner, step, out
  <2> QED
    BY <1>1, ChainRecursion
<1>3. ASSUME NEW T \in Types PROVE f[T] = IF Kind[T] = "array" THEN 1 + f[Elements[T][1]] ELSE 0
  <2>1. T \in Arrays => inner[T] \in Types /\ inner[T] = Elements[T][1]
    BY <1>1
  <2>2. f[T] = IF T \in Arrays THEN step[T][f[inner[T]]] ELSE out[T]
    <3> HIDE DEF inner, step, out
    <3> QED
      BY <1>2 DEF RecursesAlong
  <2> QED
    BY <2>1, <2>2 DEF Arrays
<1>4. Is(f)
  BY <1>3
<1>5. Sequential = CHOOSE g : Is(g)
  BY DEF Sequential
<1>6. Is(Sequential)
  <2> HIDE DEF Is
  <2> QED
    BY <1>4, <1>5, Zenon
<1>7. \A T \in Types : Sequential[T] = IF Kind[T] = "array" THEN 1 + Sequential[Elements[T][1]] ELSE 0
  BY <1>6
<1> DEFINE N == {T \in Types : Sequential[T] \in Nat}
<1>8. Types \ Arrays \subseteq N
  BY <1>7 DEF Arrays
<1>9. \A T \in Arrays : inner[T] \in N => T \in N
  <2> TAKE T \in Arrays
  <2>1. T \in Types /\ Kind[T] = "array" /\ inner[T] = Elements[T][1]
    BY DEF Arrays
  <2> QED
    BY <1>7, <2>1
<1>10. Types \subseteq N
  <2> HIDE DEF N, inner
  <2> QED
    BY <1>1, <1>8, <1>9, ChainInduction
<1>11. \A T \in Types : Sequential[T] = IF T \in Arrays THEN 1 + Sequential[Elements[T][1]] ELSE 0
  BY <1>7 DEF Arrays
<1> QED
  BY <1>6, <1>10, <1>11

\* What is left of a type without arrays, and without pointers too.
LEMMA TypesStripped ==
  /\ ElementType \in [Types -> Types] /\ getElementStructType \in [Types -> Types]
  /\ \A T \in Types : ElementType[T] = IF T \in Arrays THEN ElementType[Elements[T][1]] ELSE T
  /\ \A T \in Types : getElementStructType[T] = IF T \in Wrapped THEN getElementStructType[Elements[T][1]] ELSE T
<1> DEFINE same(D) == [T \in D |-> [S \in Types |-> S]]
           out == [T \in Types |-> T]
           inner(D) == [T \in D |-> Elements[T][1]]
<1>1. ASSUME NEW D \in {Arrays, Wrapped}
      PROVE  \E f \in [Types -> Types] : \A T \in Types : f[T] = IF T \in D THEN f[Elements[T][1]] ELSE T
  <2>1. /\ D \in SUBSET Types /\ inner(D) \in [D -> Types] /\ Acyclic(D, inner(D))
        /\ same(D) \in [D -> [Types -> Types]] /\ out \in [Types -> Types]
    BY InnerTypes DEF Arrays, Wrapped
  <2> DEFINE next == inner(D)
             step == same(D)
  <2>2. PICK f \in [Types -> Types] : RecursesAlong(f, Types, D, next, step, out)
    <3>1. next \in [D -> Types] /\ Acyclic(D, next) /\ step \in [D -> [Types -> Types]]
      BY <2>1
    <3> HIDE DEF next, step, out
    <3> QED
      BY <2>1, <3>1, ChainRecursion
  <2>3. ASSUME NEW T \in Types PROVE f[T] = IF T \in D THEN f[Elements[T][1]] ELSE T
    <3>1. T \in D => next[T] \in Types /\ next[T] = Elements[T][1]
      BY <2>1
    <3>2. f[T] = IF T \in D THEN step[T][f[next[T]]] ELSE out[T]
      <4> HIDE DEF next, step, out
      <4> QED
        BY <2>2 DEF RecursesAlong
    <3>3. T \in D => f[next[T]] \in Types
      BY <2>2, <3>1
    <3> QED
      BY <3>1, <3>2, <3>3
  <2> QED
    BY <2>3
<1> DEFINE IsElement(f) == f = [T \in Types |-> IF Kind[T] = "array" THEN f[Elements[T][1]] ELSE T]
           IsStruct(f) == f = [T \in Types |-> IF Kind[T] \in {"array", "pointer"}
                                               THEN f[Elements[T][1]] ELSE T]
<1>2. \E f : IsElement(f)
  <2>1. PICK f \in [Types -> Types] :
          \A T \in Types : f[T] = IF T \in Arrays THEN f[Elements[T][1]] ELSE T
    BY <1>1
  <2>2. f = [T \in Types |-> IF T \in Arrays THEN f[Elements[T][1]] ELSE T]
    BY <2>1
  <2>3. IsElement(f)
    BY <2>2 DEF Arrays
  <2> QED
    BY <2>3
<1>3. \E f : IsStruct(f)
  <2>1. PICK f \in [Types -> Types] :
          \A T \in Types : f[T] = IF T \in Wrapped THEN f[Elements[T][1]] ELSE T
    BY <1>1
  <2>2. f = [T \in Types |-> IF T \in Wrapped THEN f[Elements[T][1]] ELSE T]
    BY <2>1
  <2>3. IsStruct(f)
    BY <2>2 DEF Wrapped
  <2> QED
    BY <2>3
<1>4. IsElement(ElementType) /\ IsStruct(getElementStructType)
  <2>1. ElementType = CHOOSE f : IsElement(f)
    BY DEF ElementType
  <2>2. getElementStructType = CHOOSE f : IsStruct(f)
    BY DEF getElementStructType
  <2> HIDE DEF IsElement, IsStruct
  <2> QED
    BY <1>2, <1>3, <2>1, <2>2, Zenon
<1>5. \A T \in Types : ElementType[T] = IF T \in Arrays THEN ElementType[Elements[T][1]] ELSE T
  BY <1>4 DEF Arrays
<1>6. \A T \in Types : getElementStructType[T] = IF T \in Wrapped THEN getElementStructType[Elements[T][1]] ELSE T
  BY <1>4 DEF Wrapped
<1>7. ASSUME NEW D \in {Arrays, Wrapped}, NEW f,
             \A T \in Types : f[T] = IF T \in D THEN f[Elements[T][1]] ELSE T
      PROVE  \A T \in Types : f[T] \in Types
  <2> DEFINE N == {T \in Types : f[T] \in Types}
             next == inner(D)
  <2>1. D \in SUBSET Types /\ next \in [D -> Types] /\ Acyclic(D, next)
    BY InnerTypes DEF Arrays, Wrapped
  <2>2. Types \ D \subseteq N
    BY <1>7
  <2>3. \A T \in D : next[T] \in N => T \in N
    BY <1>7, <2>1
  <2>4. Types \subseteq N
    <3> HIDE DEF N, next
    <3> QED
      BY <2>1, <2>2, <2>3, ChainInduction
  <2> QED
    BY <2>4
<1>8. \A T \in Types : ElementType[T] \in Types /\ getElementStructType[T] \in Types
  BY <1>5, <1>6, <1>7
<1> QED
  BY <1>4, <1>5, <1>6, <1>8

\* A struct inside arrays is what the metadata take it for.
LEMMA ElementsAreStructs ==
  \A T \in Types : ElementType[T] \in StructTypes => getElementStructType[T] = ElementType[T]
<1> DEFINE N == {T \in Types : ElementType[T] \in StructTypes => getElementStructType[T] = ElementType[T]}
           inner == [T \in Arrays |-> Elements[T][1]]
<1>1. Arrays \in SUBSET Types /\ inner \in [Arrays -> Types] /\ Acyclic(Arrays, inner)
  BY InnerTypes DEF Arrays
<1>2. Types \ Arrays \subseteq N
  <2> SUFFICES ASSUME NEW T \in Types \ Arrays, ElementType[T] \in StructTypes
               PROVE  getElementStructType[T] = ElementType[T]
    OBVIOUS
  <2>1. ElementType[T] = T /\ T \notin Wrapped
    BY TypesStripped DEF StructTypes, Wrapped
  <2> QED
    BY <2>1, TypesStripped
<1>3. \A T \in Arrays : inner[T] \in N => T \in N
  <2> TAKE T \in Arrays
  <2>1. T \in Types /\ T \in Wrapped /\ inner[T] = Elements[T][1]
    BY DEF Arrays, Wrapped
  <2>2. ElementType[T] = ElementType[Elements[T][1]]
    BY <2>1, TypesStripped
  <2>3. getElementStructType[T] = getElementStructType[Elements[T][1]]
    BY <2>1, TypesStripped
  <2> QED
    BY <2>1, <2>2, <2>3
<1>4. Types \subseteq N
  <2> HIDE DEF N, inner
  <2> QED
    BY <1>1, <1>2, <1>3, ChainInduction
<1> QED
  BY <1>4

\* The ends of a sequence.
LEMMA AppendedEnds ==
  ASSUME NEW p \in Seq(Nat), NEW c \in Nat
  PROVE  /\ Append(p, c) \in Seq(Nat) /\ Append(p, c) # <<>> /\ Len(Append(p, c)) = Len(p) + 1
         /\ Front(Append(p, c)) = p /\ Last(Append(p, c)) = c
<1>1. /\ Append(p, c) \in Seq(Nat) /\ Append(p, c) # <<>> /\ Len(Append(p, c)) = Len(p) + 1
      /\ Append(p, c)[Len(p) + 1] = c
  OBVIOUS
<1>2. Front(Append(p, c)) = SubSeq(Append(p, c), 1, Len(p))
  BY <1>1 DEF Front
<1>3. SubSeq(Append(p, c), 1, Len(p)) = p
  OBVIOUS
<1> QED
  BY <1>1, <1>2, <1>3 DEF Last

LEMMA SequenceEnds ==
  ASSUME NEW s \in Seq(Nat), s # <<>>
  PROVE  Last(s) \in Nat /\ Front(s) \in Seq(Nat)
BY DEF Front, Last

\* What a walk through a tree returns.
Outcomes == [at : Seq(Nat) \cup {Null}, made : SUBSET (Seq(Nat) \X (StructTypes \cup {NoErr})),
             trap : BOOLEAN]

\* x is what a tree may hold at path p, below a node of type Q.
Fits(Q, p, x) ==
  /\ Q \in StructTypes /\ Last(p) < Len(Elements[Q])
  /\ x \in StructTypes => x = getElementStructType[FieldType(Q, Last(p))]
  /\ x \in Entries => FieldType(Q, Last(p)) \notin StructTypes

\* m is a field of a node of type Q.
IsField(m, Q) == Fits(Q, m[1], m[2])

\* The node above m has type Q: the walk began there, or it is in the tree, or
\* made too.
IsAbove(tree, node, made, m, Q) ==
  \/ Front(m[1]) = node.path /\ Q = node.type
  \/ At(tree, Front(m[1])) = Q
  \/ <<Front(m[1]), Q>> \in made

\* A walk makes nodes below its own, one for a path, where the tree has none, and
\* below nodes of struct types that have such a field.
MadeOnce(made) == \A m, k \in made : m[1] = k[1] => m = k
MadeBelow(tree, node, made) ==
  \A m \in made : /\ m[1] # <<>> /\ Len(m[1]) > Len(node.path) /\ At(tree, m[1]) = Absent
                  /\ \E Q : IsField(m, Q) /\ IsAbove(tree, node, made, m, Q)

\* It finds a field that is or becomes a StructError.
FindsError(tree, at, made) ==
  at # Null => /\ at # <<>> /\ At(tree, at) \notin StructTypes
               /\ At(tree, at) # Absent \/ <<at, NoErr>> \in made

Sound(tree, node, way) ==
  MadeOnce(way.made) /\ MadeBelow(tree, node, way.made) /\ FindsError(tree, way.at, way.made)

\* Types of fields.
LEMMA FieldTypes ==
  ASSUME NEW T \in Types, NEW c \in Nat, c < Len(Elements[T])
  PROVE  FieldType(T, c) \in Types
<1>1. Elements[T] \in Seq(Types)
  BY DefinitionsAssumption
<1> QED
  BY <1>1 DEF FieldType

\* A walk that made nothing, and found nothing or an error in the tree.
LEMMA NothingMade ==
  ASSUME NEW tree, NEW node, NEW at \in Seq(Nat) \cup {Null}, NEW trap \in BOOLEAN,
         FindsError(tree, at, {})
  PROVE  LET way == [at |-> at, made |-> {}, trap |-> trap]
         IN  way \in Outcomes /\ Sound(tree, node, way)
BY DEF Outcomes, Sound, MadeOnce, MadeBelow

\* One call of navigateStructTree, if the recursive one is sound.
LEMMA NavigateStep ==
  ASSUME NEW tree \in Trees, NEW Create \in BOOLEAN, NEW rest \in [Nodes -> Outcomes],
         \A node \in Nodes : Sound(tree, node, rest[node]),
         NEW node \in Nodes
  PROVE  LET way == navigateStructTree(tree, Create, rest)[node]
         IN  way \in Outcomes /\ Sound(tree, node, way)
<1> DEFINE way == navigateStructTree(tree, Create, rest)[node]
           c == Last(node.indices)
           left == Front(node.indices)
           child == Append(node.path, c)
           F == FieldType(node.type, c)
           E == ElementType[F]
           arrays == Sequential[F]
           below(T, indices) == [path |-> child, type |-> T, indices |-> indices]
<1> SUFFICES way \in Outcomes /\ Sound(tree, node, way)
  OBVIOUS
<1>0. node.path \in Seq(Nat) /\ node.type \in StructTypes /\ node.indices \in Seq(Nat)
  BY DEF Nodes
<1>1. CASE node.indices = <<>>
  <2>1. way = [at |-> Null, made |-> {}, trap |-> TRUE]
    BY <1>1 DEF navigateStructTree, Trap
  <2> QED
    BY <2>1, NothingMade DEF FindsError
<1>2. CASE node.indices # <<>>
  <2>1. c \in Nat /\ left \in Seq(Nat)
    BY <1>0, <1>2, SequenceEnds
  <2>2. /\ child \in Seq(Nat) /\ child # <<>> /\ Len(child) = Len(node.path) + 1
        /\ Front(child) = node.path /\ Last(child) = c
    BY <1>0, <2>1, AppendedEnds
  <2>3. way = IF At(tree, child) \in StructTypes THEN rest[below(tree[child], left)]
              ELSE IF At(tree, child) # Absent THEN Found(child, {})
              ELSE IF ~Create THEN NotFound({})
              ELSE IF c \notin 0 .. Len(Elements[node.type]) - 1 THEN Trap
              ELSE IF Len(left) < arrays THEN NotFound({})
              ELSE IF E \notin StructTypes THEN Found(child, {<<child, NoErr>>})
              ELSE [rest[below(E, SubSeq(left, 1, Len(left) - arrays))]
                      EXCEPT !.made = @ \cup {<<child, E>>}]
    BY <1>2 DEF navigateStructTree
  <2> HIDE DEF c, left, child
  <2>4. CASE At(tree, child) \in StructTypes
    <3> DEFINE next == below(tree[child], left)
    <3>1. way = rest[next] /\ child \in Paths /\ tree[child] = At(tree, child)
      BY <2>3, <2>4, TypesAssumption DEF At, StructTypes
    <3>2. next \in Nodes
      BY <2>1, <2>2, <2>4, <3>1 DEF Nodes, StructTypes
    <3>3. way \in Outcomes /\ Sound(tree, next, way)
      <4> HIDE DEF next, way
      <4> QED
        BY <3>1, <3>2
    <3>4. next.path = child /\ next.type = At(tree, child)
      BY <3>1
    <3> HIDE DEF next, way
    <3>5. ASSUME NEW m \in way.made PROVE /\ m[1] # <<>> /\ Len(m[1]) > Len(node.path) /\ At(tree, m[1]) = Absent
                                          /\ \E Q : IsField(m, Q) /\ IsAbove(tree, node, way.made, m, Q)
      <4>1. /\ m[1] # <<>> /\ Len(m[1]) > Len(child) /\ At(tree, m[1]) = Absent
            /\ \E Q : IsField(m, Q) /\ IsAbove(tree, next, way.made, m, Q)
        BY <3>3, <3>4 DEF Sound, MadeBelow
      <4>2. m[1] \in Seq(Nat)
        BY <3>3 DEF Outcomes
      <4>3. PICK Q : IsField(m, Q) /\ IsAbove(tree, next, way.made, m, Q)
        BY <4>1
      <4>4. IsAbove(tree, node, way.made, m, Q)
        BY <3>4, <4>3 DEF IsAbove
      <4>5. Len(m[1]) > Len(node.path)
        BY <1>0, <2>2, <4>1, <4>2
      <4> QED
        BY <4>1, <4>3, <4>4, <4>5
    <3>6. Sound(tree, node, way)
      BY <3>3, <3>5 DEF Sound, MadeBelow
    <3> QED
      BY <3>3, <3>6
  <2>5. CASE At(tree, child) \notin StructTypes \cup {Absent}
    <3>1. way = [at |-> child, made |-> {}, trap |-> FALSE]
      BY <2>3, <2>5 DEF Found
    <3> QED
      <4>1. FindsError(tree, child, {})
        BY <2>2, <2>5 DEF FindsError
      <4>2. child \in Seq(Nat) \cup {Null} /\ FALSE \in BOOLEAN
        BY <2>2
      <4> HIDE DEF way
      <4> QED
        BY <3>1, <4>1, <4>2, NothingMade
  <2>6. CASE /\ At(tree, child) = Absent
             /\ \/ ~Create
                \/ c \notin 0 .. Len(Elements[node.type]) - 1
                \/ Len(left) < arrays
    <3>1. Absent \notin StructTypes
      BY TypesAssumption DEF StructTypes
    <3>2. way \in {[at |-> Null, made |-> {}, trap |-> FALSE], [at |-> Null, made |-> {}, trap |-> TRUE]}
      BY <2>3, <2>6, <3>1 DEF NotFound, Trap
    <3> QED
      BY <3>2, NothingMade DEF FindsError
  <2>7. CASE /\ At(tree, child) = Absent /\ Create
             /\ c \in 0 .. Len(Elements[node.type]) - 1 /\ ~(Len(left) < arrays)
    <3>1. F \in Types /\ arrays \in Nat /\ E \in Types /\ Len(left) \in Nat
      <4>1. F \in Types
        BY <1>0, <2>1, <2>7, FieldTypes DEF StructTypes
      <4>2. Len(left) \in Nat
        BY <2>1
      <4> HIDE DEF F
      <4>3. arrays \in Nat
        BY <4>1, SequentialCounts
      <4>4. E \in Types
        BY <4>1, TypesStripped
      <4> QED
        BY <4>1, <4>2, <4>3, <4>4
    <3>2. /\ c < Len(Elements[node.type])
          /\ E \in StructTypes => E = getElementStructType[FieldType(node.type, c)]
          /\ E \notin StructTypes => FieldType(node.type, c) \notin StructTypes
      <4>1. Len(Elements[node.type]) \in Nat
        BY <1>0, DefinitionsAssumption DEF StructTypes
      <4>2. F \in StructTypes => E = F
        BY <3>1, TypesStripped DEF StructTypes, Arrays
      <4> QED
        BY <2>1, <2>7, <3>1, <4>1, <4>2, ElementsAreStructs
    <3>3. NoErr \notin StructTypes /\ Absent \notin StructTypes
      BY TypesAssumption DEF StructTypes, Entries
    <3>4. ASSUME NEW x, x = IF E \in StructTypes THEN E ELSE NoErr
          PROVE  IsField(<<child, x>>, node.type)
      <4>1. x \in StructTypes => x = E
        BY <3>3, <3>4
      <4>2. x \in Entries => E \notin StructTypes
        BY <3>4, TypesAssumption DEF StructTypes
      <4> QED
        BY <1>0, <2>2, <3>2, <4>1, <4>2 DEF IsField, Fits
    <3> HIDE DEF F, E, arrays
    <3>5. CASE E \notin StructTypes
      <4>1. way = [at |-> child, made |-> {<<child, NoErr>>}, trap |-> FALSE]
        BY <2>3, <2>7, <3>3, <3>5 DEF Found
      <4> DEFINE new == {<<child, NoErr>>}
      <4>2. MadeOnce(new) /\ FindsError(tree, child, new)
        BY <2>2, <2>7, <3>3 DEF MadeOnce, FindsError
      <4>3. IsField(<<child, NoErr>>, node.type) /\ IsAbove(tree, node, new, <<child, NoErr>>, node.type)
        BY <2>2, <3>4, <3>5 DEF IsAbove
      <4>4. MadeBelow(tree, node, new)
        <5> SUFFICES ASSUME NEW m \in new
                     PROVE  /\ m[1] # <<>> /\ Len(m[1]) > Len(node.path) /\ At(tree, m[1]) = Absent
                            /\ \E Q : IsField(m, Q) /\ IsAbove(tree, node, new, m, Q)
          BY DEF MadeBelow
        <5>1. m = <<child, NoErr>> /\ m[1] = child
          OBVIOUS
        <5>2. IsField(m, node.type) /\ IsAbove(tree, node, new, m, node.type)
          BY <4>3, <5>1
        <5> QED
          BY <1>0, <2>2, <2>7, <5>1, <5>2
      <4>5. new \in SUBSET (Seq(Nat) \X (StructTypes \cup {NoErr}))
        BY <2>2
      <4> HIDE DEF way, new
      <4> QED
        BY <2>2, <4>1, <4>2, <4>4, <4>5 DEF Outcomes, Sound, new
    <3>6. CASE E \in StructTypes
      <4> DEFINE short == SubSeq(left, 1, Len(left) - arrays)
                 next == below(E, short)
                 more == rest[next]
                 new == more.made \cup {<<child, E>>}
      <4>1. way = [more EXCEPT !.made = @ \cup {<<child, E>>}]
        BY <2>3, <2>7, <3>3, <3>6
      <4>2. short \in Seq(Nat)
        BY <2>1, <2>7, <3>1
      <4>3. next \in Nodes /\ next.path = child /\ next.type = E
        BY <2>2, <3>6, <4>2 DEF Nodes
      <4> HIDE DEF next, short, way
      <4>4. more \in Outcomes /\ Sound(tree, next, more)
        BY <4>3
      <4> HIDE DEF more
      <4>5. way.at = more.at /\ way.made = new /\ way.trap = more.trap /\ way \in Outcomes
        <5>1. <<child, E>> \in Seq(Nat) \X (StructTypes \cup {NoErr})
          BY <2>2, <3>6
        <5> QED
          BY <4>1, <4>4, <5>1 DEF Outcomes
      <4>6. \A m \in more.made : /\ m[1] \in Seq(Nat) /\ m[1] # <<>> /\ Len(m[1]) > Len(child)
                                 /\ At(tree, m[1]) = Absent
                                 /\ \E Q : IsField(m, Q) /\ IsAbove(tree, next, more.made, m, Q)
        BY <4>3, <4>4 DEF Sound, MadeBelow, Outcomes
      <4>7. MadeOnce(new)
        <5>1. \A m \in more.made : m[1] # child
          BY <2>2, <4>6
        <5> QED
          BY <4>4, <5>1 DEF Sound, MadeOnce
      <4>8. MadeBelow(tree, node, new)
        <5>1. ASSUME NEW m \in more.made
              PROVE  \E Q : IsField(m, Q) /\ IsAbove(tree, node, new, m, Q)
          <6>1. PICK Q : IsField(m, Q) /\ IsAbove(tree, next, more.made, m, Q)
            BY <4>6
          <6>2. IsAbove(tree, node, new, m, Q)
            BY <4>3, <6>1 DEF IsAbove
          <6> QED
            BY <6>1, <6>2
        <5>2. IsField(<<child, E>>, node.type) /\ IsAbove(tree, node, new, <<child, E>>, node.type)
          BY <2>2, <3>4, <3>6 DEF IsAbove
        <5>3. \A m \in more.made : m[1] # <<>> /\ Len(m[1]) > Len(node.path) /\ At(tree, m[1]) = Absent
          BY <1>0, <2>2, <4>6
        <5>4. child # <<>> /\ Len(child) > Len(node.path)
          BY <1>0, <2>2
        <5> SUFFICES ASSUME NEW m \in new
                     PROVE  /\ m[1] # <<>> /\ Len(m[1]) > Len(node.path) /\ At(tree, m[1]) = Absent
                            /\ \E Q : IsField(m, Q) /\ IsAbove(tree, node, new, m, Q)
          BY DEF MadeBelow
        <5>5. CASE m \in more.made
          BY <5>1, <5>3, <5>5
        <5>6. CASE m = <<child, E>>
          <6>1. m[1] = child
            BY <5>6
          <6>2. IsField(m, node.type) /\ IsAbove(tree, node, new, m, node.type)
            BY <5>2, <5>6
          <6> QED
            BY <2>7, <5>4, <6>1, <6>2
        <5> QED
          BY <5>5, <5>6
      <4>9. FindsError(tree, way.at, new)
        BY <4>4, <4>5 DEF Sound, FindsError
      <4>10. Sound(tree, node, way)
        BY <4>5, <4>7, <4>8, <4>9 DEF Sound
      <4> QED
        BY <4>5, <4>10
    <3> QED
      BY <3>5, <3>6
  <2> QED
    BY <2>4, <2>5, <2>6, <2>7
<1> QED
  BY <1>1, <1>2

\* The walks of every length through a tree.
WalkDown(tree, Create, from) ==
  /\ \A n \in Nat : /\ from[n] \in [Nodes -> Outcomes]
                    /\ from[n + 1] = navigateStructTree(tree, Create, from[n])
                    /\ \A node \in Nodes : Sound(tree, node, from[n][node])

\* getFieldNode is the last of them, and each is sound.
LEMMA FieldNodeSteps ==
  ASSUME NEW tree \in Trees, NEW Create \in BOOLEAN
  PROVE  \E from : /\ WalkDown(tree, Create, from)
                   /\ \A indices \in Seq(Nat) :
                        getFieldNode(tree, indices, Create) =
                          from[Len(indices)][[path |-> <<>>, type |-> tree[<<>>], indices |-> indices]]
<1> DEFINE SoundWays == {rest \in [Nodes -> Outcomes] : \A node \in Nodes : Sound(tree, node, rest[node])}
           base == [node \in Nodes |-> Trap]
           step == [n \in Nat \ {0} |-> [rest \in SoundWays |-> navigateStructTree(tree, Create, rest)]]
           Is(f) == f = [n \in Nat |-> IF n = 0 THEN base ELSE navigateStructTree(tree, Create, f[n - 1])]
<1>1. base \in SoundWays
  <2>1. Trap = [at |-> Null, made |-> {}, trap |-> TRUE] /\ FindsError(tree, Null, {})
    BY DEF Trap, FindsError
  <2>2. ASSUME NEW node \in Nodes PROVE Trap \in Outcomes /\ Sound(tree, node, Trap)
    BY <2>1, NothingMade
  <2> QED
    BY <2>2
<1>2. ASSUME NEW rest \in SoundWays PROVE navigateStructTree(tree, Create, rest) \in SoundWays
  <2> DEFINE next == navigateStructTree(tree, Create, rest)
  <2>1. rest \in [Nodes -> Outcomes] /\ \A node \in Nodes : Sound(tree, node, rest[node])
    OBVIOUS
  <2>2. \A node \in Nodes : next[node] \in Outcomes /\ Sound(tree, node, next[node])
    BY <2>1, NavigateStep
  <2>3. next = [node \in Nodes |-> next[node]]
    BY DEF navigateStructTree
  <2> HIDE DEF next
  <2>4. next \in SoundWays
    BY <2>2, <2>3
  <2> QED
    BY <2>4 DEF next
<1> HIDE DEF SoundWays, base
<1>3. step \in [Nat \ {0} -> [SoundWays -> SoundWays]]
  BY <1>2
<1>4. \A n \in Nat : \A rest \in SoundWays : step[n + 1][rest] = navigateStructTree(tree, Create, rest)
  OBVIOUS
<1> HIDE DEF step
<1>5. PICK f \in [Nat -> SoundWays] : ComputesOnNat(f, base, step)
  BY <1>1, <1>3, RecursiveFunctionOnNat
<1>6. f[0] = base /\ \A n \in Nat : f[n + 1] = navigateStructTree(tree, Create, f[n])
  BY <1>4, <1>5 DEF ComputesOnNat
<1>7. Is(f)
  <2>1. ASSUME NEW n \in Nat
        PROVE  f[n] = IF n = 0 THEN base ELSE navigateStructTree(tree, Create, f[n - 1])
    <3>1. CASE n # 0
      <4>1. n - 1 \in Nat /\ (n - 1) + 1 = n
        BY <3>1
      <4> QED
        BY <1>6, <3>1, <4>1
    <3> QED
      BY <1>6, <3>1
  <2> QED
    BY <2>1
<1> DEFINE from == CHOOSE g : Is(g)
<1>8. Is(from)
  <2> HIDE DEF Is
  <2> QED
    BY <1>7, Zenon
<1>9. \A indices : getFieldNode(tree, indices, Create) =
                     from[Len(indices)][[path |-> <<>>, type |-> tree[<<>>], indices |-> indices]]
  BY DEF getFieldNode, base
<1> HIDE DEF from
<1>10. from[0] = base /\ \A n \in Nat : from[n + 1] = navigateStructTree(tree, Create, from[n])
  <2>1. \A n \in Nat : n + 1 \in Nat /\ n + 1 # 0 /\ (n + 1) - 1 = n
    OBVIOUS
  <2>2. \A n \in Nat : from[n] = IF n = 0 THEN base ELSE navigateStructTree(tree, Create, from[n - 1])
    BY <1>8
  <2> QED
    BY <2>1, <2>2
<1>11. \A n \in Nat : from[n] \in SoundWays
  <2> DEFINE T == {n \in Nat : from[n] \in SoundWays}
  <2>1. 0 \in T
    BY <1>1, <1>10
  <2>2. ASSUME NEW n \in Nat, n \in T PROVE n + 1 \in T
    <3>1. from[n] \in SoundWays /\ n + 1 \in Nat /\ from[n + 1] = navigateStructTree(tree, Create, from[n])
      BY <1>10, <2>2
    <3>2. from[n + 1] \in SoundWays
      BY <1>2, <3>1
    <3> QED
      BY <3>1, <3>2
  <2> HIDE DEF T
  <2>3. \A n \in Nat : n \in T
    BY <2>1, <2>2, InductionOverNat
  <2> QED
    BY <2>3 DEF T
<1>12. WalkDown(tree, Create, from)
  BY <1>10, <1>11 DEF WalkDown, SoundWays
<1> QED
  BY <1>9, <1>12

\* A walk through a tree is sound, whatever the indices.
LEMMA FieldNodeSound ==
  ASSUME NEW tree \in Trees, tree[<<>>] \in StructTypes, NEW indices \in Seq(Nat),
         NEW Create \in BOOLEAN
  PROVE  LET way == getFieldNode(tree, indices, Create)
         IN  /\ way \in Outcomes
             /\ Sound(tree, [path |-> <<>>, type |-> tree[<<>>], indices |-> indices], way)
<1>1. PICK from : /\ WalkDown(tree, Create, from)
                  /\ \A ind \in Seq(Nat) :
                       getFieldNode(tree, ind, Create) =
                         from[Len(ind)][[path |-> <<>>, type |-> tree[<<>>], indices |-> ind]]
  BY FieldNodeSteps
<1>2. [path |-> <<>>, type |-> tree[<<>>], indices |-> indices] \in Nodes /\ Len(indices) \in Nat
  BY DEF Nodes
<1> DEFINE node == [path |-> <<>>, type |-> tree[<<>>], indices |-> indices]
           n == Len(indices)
<1>3. getFieldNode(tree, indices, Create) = from[n][node]
  BY <1>1
<1>4. node \in Nodes /\ n \in Nat
  BY <1>2
<1> HIDE DEF node, n
<1>5. from[n] \in [Nodes -> Outcomes] /\ Sound(tree, node, from[n][node])
  BY <1>1, <1>4 DEF WalkDown
<1>6. from[n][node] \in Outcomes
  BY <1>4, <1>5
<1> QED
  BY <1>3, <1>5, <1>6 DEF node

\* A tree follows its types, and has a root unless it is none.
FieldsTyped(tree) ==
  \A p \in Paths \ {<<>>} : tree[p] # Absent => Fits(tree[Front(p)], p, tree[p])
IsTree(tree) == tree \in Trees /\ FieldsTyped(tree) /\ (tree # NoTree => tree[<<>>] \in StructTypes)

\* The root is of the object's type.
IsTreeOf(v, tree) == IsTree(tree) /\ (tree # NoTree => tree[<<>>] = getElementStructType[Def[v].pointee])

\* The content of a tree is of one kind.
LEMMA ContentsDiffer ==
  /\ Absent \notin StructTypes /\ NoErr \notin StructTypes /\ Absent \notin Entries
  /\ \A e \in Entries : e \notin StructTypes /\ e # Absent
  /\ <<>> \in Paths /\ Paths \subseteq Seq(Nat) /\ \A p \in Paths \ {<<>>} : Front(p) \in Paths
BY TypesAssumption, BoundsAssumption DEF StructTypes, Entries

\* A tree stays one when a walk adds what it made and the field found is given an
\* error.
LEMMA GrownIsTree ==
  ASSUME NEW tree, IsTree(tree), tree[<<>>] \in StructTypes, NEW indices, NEW way \in Outcomes,
         Sound(tree, [path |-> <<>>, type |-> tree[<<>>], indices |-> indices], way),
         NEW e \in Entries
  PROVE  LET grown == WithNodes(tree, way.made)
         IN  /\ IsTree(grown) /\ grown[<<>>] = tree[<<>>]
             /\ way.at # Null =>
                  LET after == [grown EXCEPT ![way.at] = e]
                  IN  IsTree(after) /\ after[<<>>] = tree[<<>>]
<1> DEFINE made == way.made
           grown == WithNodes(tree, made)
           node == [path |-> <<>>, type |-> tree[<<>>], indices |-> indices]
<1> USE ContentsDiffer
<1>0. made \in SUBSET (Seq(Nat) \X (StructTypes \cup {NoErr})) /\ way.at \in Seq(Nat) \cup {Null}
  BY DEF Outcomes
<1>1. tree \in [Paths -> StructTypes \cup Entries \cup {Absent}] /\ FieldsTyped(tree)
  BY DEF IsTree, Trees
<1>2. ASSUME NEW m \in made, m[1] \in Paths PROVE grown[m[1]] = m[2]
  <2>1. \A n \in made : n[1] = m[1] => n = m
    BY DEF Sound, MadeOnce
  <2>2. (CHOOSE n \in made : n[1] = m[1]) = m
    BY <2>1
  <2>3. grown[m[1]] = (CHOOSE n \in made : n[1] = m[1])[2]
    BY <1>2 DEF WithNodes
  <2> QED
    BY <2>2, <2>3
<1>3. \A p \in Paths : (~ \E m \in made : m[1] = p) => grown[p] = tree[p]
  BY DEF WithNodes
<1>4. \A p \in Paths : tree[p] # Absent => grown[p] = tree[p]
  <2>1. \A m \in made : At(tree, m[1]) = Absent
    BY DEF Sound, MadeBelow
  <2> QED
    BY <1>3, <2>1 DEF At
<1>5. grown \in Trees
  <2>1. ASSUME NEW p \in Paths PROVE grown[p] \in StructTypes \cup Entries \cup {Absent}
    <3>1. CASE \E m \in made : m[1] = p
      <4>1. PICK m \in made : m[1] = p
        BY <3>1
      <4>2. m[2] \in StructTypes \cup {NoErr}
        BY <1>0
      <4> QED
        BY <1>2, <4>1, <4>2 DEF Entries
    <3> QED
      BY <1>1, <1>3, <3>1
  <2>2. grown = [p \in Paths |-> grown[p]]
    BY DEF WithNodes
  <2> HIDE DEF grown
  <2> QED
    BY <2>1, <2>2 DEF Trees
<1>6. grown[<<>>] = tree[<<>>] /\ grown # NoTree
  <2>1. grown[<<>>] = tree[<<>>]
    BY <1>4
  <2> QED
    BY <2>1 DEF NoTree
<1>7. ASSUME NEW p \in Paths \ {<<>>}, grown[p] # Absent
      PROVE  Fits(grown[Front(p)], p, grown[p])
  <2>1. Front(p) \in Paths
    OBVIOUS
  <2>2. CASE \E m \in made : m[1] = p
    <3>1. PICK m \in made : m[1] = p
      BY <2>2
    <3>2. PICK Q : IsField(m, Q) /\ IsAbove(tree, node, made, m, Q)
      BY DEF Sound, MadeBelow
    <3>3. Q \in StructTypes /\ Q # Absent
      BY <3>2 DEF IsField, Fits
    <3>4. grown[Front(p)] = Q
      <4>1. CASE Front(p) = <<>> /\ Q = tree[<<>>]
        BY <1>6, <4>1
      <4>2. CASE At(tree, Front(p)) = Q
        BY <1>4, <2>1, <3>3, <4>2 DEF At
      <4>3. CASE <<Front(p), Q>> \in made
        BY <1>2, <2>1, <4>3
      <4> QED
        BY <3>1, <3>2, <4>1, <4>2, <4>3 DEF IsAbove
    <3>5. grown[p] = m[2]
      BY <1>2, <3>1
    <3> HIDE DEF grown, made, node
    <3> QED
      BY <3>1, <3>2, <3>3, <3>4, <3>5 DEF IsField
  <2>3. CASE ~ \E m \in made : m[1] = p
    <3>1. grown[p] = tree[p]
      BY <1>3, <2>3
    <3>2. Fits(tree[Front(p)], p, tree[p])
      BY <1>1, <1>7, <3>1 DEF FieldsTyped
    <3>3. grown[Front(p)] = tree[Front(p)]
      BY <1>4, <2>1, <3>2 DEF Fits
    <3> HIDE DEF grown
    <3> QED
      BY <3>1, <3>2, <3>3
  <2> QED
    BY <2>2, <2>3
<1>8. IsTree(grown)
  <2> HIDE DEF grown
  <2> QED
    BY <1>5, <1>6, <1>7 DEF IsTree, FieldsTyped
<1>9. ASSUME way.at # Null
      PROVE  LET after == [grown EXCEPT ![way.at] = e]
             IN  IsTree(after) /\ after[<<>>] = tree[<<>>]
  <2> DEFINE at == way.at
             after == [grown EXCEPT ![at] = e]
  <2>1. at # <<>> /\ At(tree, at) \notin StructTypes
        /\ (At(tree, at) # Absent \/ <<at, NoErr>> \in made)
    BY <1>9 DEF Sound, FindsError
  <2>2. CASE at \notin Paths
    <3>1. after = grown
      BY <1>5, <2>2 DEF Trees
    <3> QED
      BY <1>6, <1>8, <3>1
  <2>3. CASE at \in Paths
    <3>1. grown[at] \notin StructTypes
      <4>1. CASE At(tree, at) # Absent
        BY <1>4, <2>1, <2>3, <4>1 DEF At
      <4>2. CASE <<at, NoErr>> \in made
        BY <1>2, <2>3, <4>2
      <4> QED
        BY <2>1, <4>1, <4>2
    <3> HIDE DEF grown, at
    <3>2. /\ after \in Trees /\ after[at] = e /\ \A p \in Paths : p # at => after[p] = grown[p]
      BY <1>5, <2>3 DEF Trees
    <3>3. after[<<>>] = tree[<<>>] /\ after[<<>>] \in StructTypes
      BY <1>6, <2>1, <3>2
    <3>4. ASSUME NEW p \in Paths \ {<<>>}, after[p] # Absent
          PROVE  Fits(after[Front(p)], p, after[p])
      <4>1. grown[p] # Absent
        <5>1. CASE p = at
          <6>1. At(tree, at) # Absent => grown[at] # Absent
            BY <1>4, <2>3 DEF At
          <6>2. <<at, NoErr>> \in made => grown[at] # Absent
            BY <1>2, <2>3 DEF Entries
          <6> QED
            BY <2>1, <5>1, <6>1, <6>2
        <5> QED
          BY <3>2, <3>4, <5>1
      <4>2. Fits(grown[Front(p)], p, grown[p])
        BY <1>7, <4>1
      <4>3. after[Front(p)] = grown[Front(p)]
        BY <3>1, <3>2, <4>2 DEF Fits
      <4>4. after[p] \in StructTypes => after[p] = grown[p]
        BY <3>2
      <4>5. after[p] \in Entries => grown[p] \in Entries
        <5>1. grown[p] \in StructTypes \cup Entries \cup {Absent}
          BY <1>5 DEF Trees
        <5> QED
          BY <3>1, <3>2, <4>1, <5>1
      <4> HIDE DEF after
      <4> QED
        BY <4>2, <4>3, <4>4, <4>5 DEF Fits
    <3> HIDE DEF after
    <3>5. FieldsTyped(after)
      BY <3>4 DEF FieldsTyped
    <3>6. IsTree(after)
      BY <3>2, <3>3, <3>5 DEF IsTree
    <3> QED
      BY <3>3, <3>6 DEF after, at
  <2> QED
    BY <2>2, <2>3
<1> QED
  BY <1>6, <1>8, <1>9

\* Where a walk through pointers ends.
LEMMA WaysToObjects ==
  ASSUME NEW bind, NEW P \in Values
  PROVE  LET way == retrieveRootPointer(bind, P)
         IN  /\ way.root \in Objects \cup {Null} /\ way.indices \in Seq(Nat) /\ way.endless \in BOOLEAN
<1>1. PICK walk \in [Nat -> [Values -> Ways]] :
        \A Q : retrieveRootPointer(bind, Q) = walk[Cardinality(Values) + 1][Q]
  BY WalkIsDefined
<1>2. Cardinality(Values) + 1 \in Nat
  BY OperandsAssumption, FS_CardinalityType
<1>3. retrieveRootPointer(bind, P) \in Ways
  BY <1>1, <1>2
<1> QED
  BY <1>3 DEF Ways

\* Trees that metadata and the first store make, and no tree.
LEMMA MetadataTree ==
  ASSUME NEW v \in DOMAIN Info
  PROVE  IsTreeOf(v, FromMetadata(v)) /\ FromMetadata(v) # NoTree
<1> DEFINE types == CHOOSE types \in NestedTypes(v) : TRUE
           info == Info[v]
           tree == FromMetadata(v)
<1> USE ContentsDiffer
<1>1. /\ DOMAIN info \subseteq Paths \ {<<>>} /\ \A p \in DOMAIN info : Front(p) \in NestedIn(v)
      /\ \A p \in DOMAIN info : info[p] \in Entries \cup {Nested}
      /\ types \in NestedTypes(v)
  BY MetadataAssumption
<1>2. /\ types \in [NestedIn(v) -> StructTypes]
      /\ \A p \in DOMAIN info :
           /\ Last(p) < Len(Elements[types[Front(p)]])
           /\ FieldType(types[Front(p)], Last(p)) \in StructTypes => info[p] = Nested
      /\ types[<<>>] = getElementStructType[Def[v].pointee]
      /\ \A p \in NestedIn(v) : p # <<>> => types[p] = getElementStructType[FieldType(types[Front(p)], Last(p))]
  <2>1. <<>> \in NestedIn(v)
    BY DEF NestedIn
  <2> HIDE DEF types
  <2> QED
    BY <1>1, <2>1 DEF NestedTypes
<1>3. \A p \in Paths : tree[p] = IF p \in NestedIn(v) THEN types[p]
                                 ELSE IF p \in DOMAIN info THEN info[p] ELSE Absent
  BY DEF FromMetadata
<1>4. NestedIn(v) \subseteq Paths /\ <<>> \in NestedIn(v)
  BY <1>1 DEF NestedIn
<1>5. \A p \in DOMAIN info : p \notin NestedIn(v) => info[p] \in Entries
  BY <1>1 DEF NestedIn
<1> HIDE DEF types, info
<1>6. tree \in Trees
  <2>1. \A p \in Paths : tree[p] \in StructTypes \cup Entries \cup {Absent}
    BY <1>2, <1>3, <1>5
  <2>2. tree = [p \in Paths |-> tree[p]]
    BY DEF FromMetadata
  <2> HIDE DEF tree
  <2> QED
    BY <2>1, <2>2 DEF Trees
<1>7. tree[<<>>] \in StructTypes
  BY <1>2, <1>3, <1>4
<1>8. FieldsTyped(tree)
  <2> SUFFICES ASSUME NEW p \in Paths \ {<<>>}, tree[p] # Absent
               PROVE  LET node == tree[Front(p)]
                      IN  Fits(node, p, tree[p])
    BY DEF FieldsTyped
  <2>1. p \in DOMAIN info
    BY <1>3 DEF NestedIn, info
  <2>2. Front(p) \in NestedIn(v) /\ tree[Front(p)] = types[Front(p)]
    BY <1>1, <1>3, <1>4, <2>1
  <2>3. types[Front(p)] \in StructTypes /\ Last(p) < Len(Elements[types[Front(p)]])
    BY <1>2, <2>1, <2>2
  <2>4. ASSUME tree[p] \in StructTypes PROVE tree[p] = getElementStructType[FieldType(types[Front(p)], Last(p))]
    <3>1. p \in NestedIn(v)
      BY <1>3, <1>5, <2>1, <2>4
    <3> QED
      BY <1>2, <1>3, <3>1
  <2>5. ASSUME tree[p] \in Entries PROVE FieldType(types[Front(p)], Last(p)) \notin StructTypes
    <3>1. p \notin NestedIn(v)
      BY <1>2, <1>3, <2>5
    <3>2. info[p] # Nested
      BY <2>1, <3>1 DEF NestedIn, info
    <3> QED
      BY <1>2, <2>1, <3>2
  <2> HIDE DEF tree
  <2> QED
    BY <2>2, <2>3, <2>4, <2>5 DEF Fits
<1>9. tree[<<>>] = getElementStructType[Def[v].pointee]
  BY <1>2, <1>3, <1>4
<1> HIDE DEF tree
<1>10. IsTreeOf(v, tree)
  BY <1>6, <1>7, <1>8, <1>9 DEF IsTree, IsTreeOf
<1>11. tree # NoTree
  BY <1>7 DEF NoTree
<1> QED
  BY <1>10, <1>11 DEF tree

LEMMA BareTrees ==
  /\ IsTree(NoTree) /\ \A v \in Values : IsTreeOf(v, NoTree)
  /\ \A v \in Values : Def[v].pointee \in StructTypes =>
       /\ IsTreeOf(v, makeRoot(v)) /\ makeRoot(v) # NoTree
       /\ makeRoot(v)[<<>>] \in StructTypes
       /\ \A p \in Paths : EntryAt(makeRoot(v), p) = Absent
<1> USE ContentsDiffer
<1>1. IsTree(NoTree) /\ \A v \in Values : IsTreeOf(v, NoTree)
  BY DEF IsTree, IsTreeOf, NoTree, Trees, FieldsTyped
<1>2. ASSUME NEW v \in Values, Def[v].pointee \in StructTypes
      PROVE  /\ IsTreeOf(v, makeRoot(v)) /\ makeRoot(v) # NoTree
             /\ makeRoot(v)[<<>>] \in StructTypes
             /\ \A p \in Paths : EntryAt(makeRoot(v), p) = Absent
  <2>1. /\ makeRoot(v) \in Trees /\ makeRoot(v)[<<>>] = Def[v].pointee
        /\ \A p \in Paths \ {<<>>} : makeRoot(v)[p] = Absent
    BY <1>2 DEF makeRoot, NoTree, Trees
  <2>2. getElementStructType[Def[v].pointee] = Def[v].pointee
    BY <1>2, TypesStripped DEF StructTypes, Wrapped
  <2>3. makeRoot(v) # NoTree
    BY <1>2, <2>1 DEF NoTree
  <2>4. \A p \in Paths : EntryAt(makeRoot(v), p) = Absent
    BY <1>2, <2>1 DEF EntryAt
  <2> QED
    BY <1>2, <2>1, <2>2, <2>3, <2>4 DEF IsTree, IsTreeOf, FieldsTyped
<1> QED
  BY <1>1, <1>2

GoodTrees(trees) == trees \in [Objects -> Trees] /\ \A v \in Objects : IsTreeOf(v, trees[v])

\* A store keeps trees typed.
LEMMA StoreKeepsTrees ==
  ASSUME NEW trees, GoodTrees(trees), NEW bind, NEW P \in Values, NEW e \in Entries
  PROVE  LET result == setFieldError(trees, bind, P, e)
         IN  GoodTrees(result.trees) /\ result.trap \in BOOLEAN
<1> DEFINE way == retrieveRootPointer(bind, P)
           new == way.root # Null /\ trees[way.root] = NoTree
           tree == IF new THEN makeRoot(way.root) ELSE trees[way.root]
           field == getFieldNode(tree, way.indices, TRUE)
           grown == WithNodes(tree, field.made)
           last == IF field.at = Null THEN grown ELSE [grown EXCEPT ![field.at] = e]
           result == setFieldError(trees, bind, P, e)
<1>1. way.root \in Objects \cup {Null} /\ way.indices \in Seq(Nat)
  BY WaysToObjects
<1>2. CASE way.endless \/ (new /\ Def[way.root].kind = "aggregate") \/ way.root = Null
  <2>1. result.trees = trees /\ result.trap \in BOOLEAN
    BY <1>2 DEF setFieldError
  <2> QED
    BY <2>1
<1>3. CASE ~way.endless /\ ~(new /\ Def[way.root].kind = "aggregate") /\ way.root # Null
  <2>1. result = [trees |-> [trees EXCEPT ![way.root] = last], trap |-> field.trap]
    BY <1>3 DEF setFieldError
  <2>2. way.root \in Objects
    BY <1>1, <1>3
  <2>3. /\ IsTree(tree) /\ tree[<<>>] \in StructTypes
        /\ tree[<<>>] = getElementStructType[Def[way.root].pointee]
    <3>1. CASE new
      <4>1. way.root \in Values /\ Def[way.root].pointee \in StructTypes
        BY <1>3, <2>2, <3>1 DEF Objects
      <4> QED
        BY <3>1, <4>1, BareTrees DEF IsTreeOf
    <3>2. CASE ~new
      BY <1>3, <2>2, <3>2 DEF GoodTrees, IsTree, IsTreeOf
    <3> QED
      BY <3>1, <3>2
  <2> HIDE DEF way, tree
  <2>4. field \in Outcomes /\ Sound(tree, [path |-> <<>>, type |-> tree[<<>>], indices |-> way.indices], field)
    BY <1>1, <2>3, FieldNodeSound DEF IsTree
  <2>5. field.trap \in BOOLEAN
    BY <2>4 DEF Outcomes
  <2> HIDE DEF field
  <2>6. IsTreeOf(way.root, last)
    BY <2>3, <2>4, GrownIsTree DEF IsTreeOf
  <2> HIDE DEF last
  <2>7. GoodTrees([trees EXCEPT ![way.root] = last])
    BY <2>2, <2>6 DEF GoodTrees, IsTree, IsTreeOf
  <2> HIDE DEF result
  <2>8. GoodTrees(result.trees) /\ result.trap \in BOOLEAN
    BY <2>1, <2>5, <2>7
  <2> QED
    BY <2>8 DEF result
<1> QED
  BY <1>2, <1>3

\* So do the merge after a call and the metadata of parameters.
LEMMA MergeKeepsTrees ==
  ASSUME NEW trees, GoodTrees(trees), NEW other, GoodTrees(other), NEW bind, NEW Pointers
  PROVE  GoodTrees(updateStructTree(trees, bind, other, Pointers))
<1> DEFINE after == updateStructTree(trees, bind, other, Pointers)
<1>1. \A v \in Objects : after[v] \in {trees[v], other[v]}
  BY DEF updateStructTree
<1>2. after = [v \in Objects |-> after[v]]
  BY DEF updateStructTree
<1> HIDE DEF after
<1>3. GoodTrees(after)
  BY <1>1, <1>2 DEF GoodTrees
<1> QED
  BY <1>3 DEF after

LEMMA ArgumentsKeepTrees ==
  ASSUME NEW trees, GoodTrees(trees), NEW f
  PROVE  GoodTrees(RetrieveArguments(trees, f))
<1> DEFINE after == RetrieveArguments(trees, f)
<1>1. \A v \in Objects : IsTreeOf(v, after[v])
  BY MetadataTree DEF RetrieveArguments, GoodTrees
<1>2. after = [v \in Objects |-> after[v]]
  BY DEF RetrieveArguments
<1> HIDE DEF after
<1>3. GoodTrees(after)
  BY <1>1, <1>2 DEF GoodTrees, IsTree, IsTreeOf
<1> QED
  BY <1>3 DEF after

LEMMA GlobalTreesGood == GoodTrees(GlobalTrees)
<1>1. \A v \in Objects : IsTreeOf(v, GlobalTrees[v])
  BY MetadataTree, BareTrees DEF GlobalTrees, Objects
<1>2. GlobalTrees = [v \in Objects |-> GlobalTrees[v]]
  BY DEF GlobalTrees
<1> QED
  BY <1>1, <1>2 DEF GoodTrees, IsTree, IsTreeOf

\* What the memory holds for a tree.
LEMMA EntriesOfTrees ==
  ASSUME NEW tree \in Trees, NEW p \in Paths
  PROVE  EntryAt(tree, p) \in Entries \cup {Absent}
BY DEF EntryAt, Trees

\* Every activation has trees of the types of its objects.
TreeInv ==
  /\ trapped \in BOOLEAN /\ again \in BOOLEAN /\ stale \subseteq Objects
  /\ memory \in [Objects \X Paths -> Entries \cup {Absent}]
  /\ \A d \in DOMAIN stack : GoodTrees(stack[d].trees)

\* An activation's trees replaced.
LEMMA TreesReplaced ==
  ASSUME NEW F, NEW Q, NEW s \in Seq(Activations(F, Q)), NEW m \in DOMAIN s, NEW t, NEW w
  PROVE  LET after == [s EXCEPT ![m].trees = t, ![m].wrote = w]
         IN  /\ DOMAIN after = DOMAIN s
             /\ \A d \in DOMAIN s : after[d].trees = IF d = m THEN t ELSE s[d].trees
<1> DEFINE x == s[m]
           after == [s EXCEPT ![m].trees = t, ![m].wrote = w]
           new == [x EXCEPT !.trees = t, !.wrote = w]
<1>1. s[m] \in Activations(F, Q)
  OBVIOUS
<1>2. new.trees = t
  BY <1>1 DEF Activations
<1>3. after = [s EXCEPT ![m] = new]
  OBVIOUS
<1> HIDE DEF new
<1>4. DOMAIN after = DOMAIN s /\ \A d \in DOMAIN s : after[d] = IF d = m THEN new ELSE s[d]
  BY <1>3
<1> QED
  BY <1>2, <1>4

\* What is forgotten of an object is typed.
LEMMA ForgetTyped ==
  ASSUME TreeInv, NEW v, NEW tree \in Trees
  PROVE  Forget(v, tree) \in [Objects \X Paths -> Entries \cup {Absent}]
<1>1. ASSUME NEW o \in Objects \X Paths
      PROVE  (IF o[1] = v THEN EntryAt(tree, o[2]) ELSE memory[o]) \in Entries \cup {Absent}
  BY EntriesOfTrees DEF TreeInv
<1> QED
  BY <1>1 DEF Forget

\* Every step keeps the trees typed.
LEMMA TreeInvStep == BindInv /\ TreeInv /\ [Next]_vars => TreeInv'
<1> SUFFICES ASSUME BindInv, TreeInv, [Next]_vars PROVE TreeInv'
  OBVIOUS
<1> DEFINE Memories == [Objects \X Paths -> Entries \cup {Absent}]
<1>0. /\ trapped \in BOOLEAN /\ again \in BOOLEAN /\ stale \subseteq Objects /\ memory \in Memories
      /\ \A d \in DOMAIN stack : GoodTrees(stack[d].trees)
  BY DEF TreeInv
<1>1. PICK F, Q : stack \in Seq(Activations(F, Q))
  BY DEF BindInv, StackShape
<1>2. Running => /\ Depth \in DOMAIN stack /\ DOMAIN stack = 1 .. Depth /\ Depth \in Nat
                 /\ Top = stack[Depth] /\ GoodTrees(Top.trees)
  BY <1>0, <1>1 DEF Running, Depth, Top
<1>3. NoTree \in Trees /\ [o \in Objects \X Paths |-> Absent] \in Memories
  BY BareTrees DEF IsTree
<1>4. ASSUME NEW f \in Functions, Visit(f) PROVE TreeInv'
  <2> DEFINE trees == RetrieveArguments(GlobalTrees, f)
  <2>1. GoodTrees(trees)
    BY GlobalTreesGood, ArgumentsKeepTrees
  <2>2. /\ stack' = <<[f |-> f, args |-> <<>>, trees |-> trees,
                       bind |-> [v \in Parameters |-> Unbound], places |-> <<>>, wrote |-> {}]>>
        /\ memory' = [o \in Objects \X Paths |-> EntryAt(trees[o[1]], o[2])]
        /\ trapped' = trapped /\ stale' = stale /\ again' = again
    BY <1>4 DEF Visit
  <2> HIDE DEF trees
  <2>3. memory' \in Memories
    <3>1. ASSUME NEW o \in Objects \X Paths PROVE EntryAt(trees[o[1]], o[2]) \in Entries \cup {Absent}
      BY <2>1, EntriesOfTrees DEF GoodTrees
    <3> QED
      BY <2>2, <3>1
  <2>4. DOMAIN stack' = {1} /\ stack'[1].trees = trees
    BY <2>2
  <2> QED
    BY <1>0, <2>1, <2>2, <2>3, <2>4 DEF TreeInv
<1>5. ASSUME NEW v \in Objects, Evaluate(v) PROVE TreeInv'
  <2> DEFINE t == [Top.trees EXCEPT ![v] = FromMetadata(v)]
  <2>1. IsTreeOf(v, FromMetadata(v)) /\ FromMetadata(v) \in Trees
    BY <1>5, MetadataTree DEF Evaluate, IsTree, IsTreeOf
  <2>2. Running
    BY <1>5 DEF Evaluate
  <2>3. GoodTrees(t)
    BY <1>2, <2>1, <2>2 DEF GoodTrees
  <2>4. stack' = [stack EXCEPT ![Depth].trees = t]
    <3>1. stack' = [stack EXCEPT ![Depth].trees[v] = FromMetadata(v)]
      BY <1>5 DEF Evaluate
    <3> QED
      BY <1>2, <2>2, <3>1
  <2> HIDE DEF t
  <2>5. stack[Depth] \in Activations(F, Q)
    BY <1>1, <1>2, <2>2
  <2>6. DOMAIN stack' = DOMAIN stack /\ \A d \in DOMAIN stack : stack'[d].trees = IF d = Depth THEN t ELSE stack[d].trees
    <3> DEFINE new == [stack[Depth] EXCEPT !.trees = t]
    <3>1. new.trees = t
      BY <2>5 DEF Activations
    <3>2. stack' = [stack EXCEPT ![Depth] = new]
      BY <2>4
    <3> HIDE DEF new
    <3> QED
      BY <1>1, <1>2, <2>2, <3>1, <3>2
  <2>7. memory' \in Memories
    BY <1>5, <2>1, ForgetTyped DEF Evaluate
  <2>8. trapped' = trapped /\ again' = again /\ stale' \subseteq stale
    BY <1>5 DEF Evaluate
  <2> HIDE DEF Memories
  <2> QED
    BY <1>0, <2>3, <2>6, <2>7, <2>8 DEF TreeInv, Memories
<1>6. ASSUME NEW P \in Accessed, NEW e \in Errors, Store(P, e) PROVE TreeInv'
  <2> DEFINE result == setFieldError(Top.trees, Top.bind, P, e)
             place == PlaceOf(Top, P)
             w == Top.wrote \cup ({place[1]} \cap Objects)
  <2>1. Running /\ P \in Values /\ e \in Entries
    BY <1>6, DefinitionsAssumption DEF Store, Entries
  <2>2. GoodTrees(result.trees) /\ result.trap \in BOOLEAN
    BY <1>2, <2>1, StoreKeepsTrees
  <2>3. stack' = [stack EXCEPT ![Depth].trees = result.trees,
                               ![Depth].wrote = @ \cup ({place[1]} \cap Objects)]
    BY <1>6 DEF Store
  <2>4. stack' = [stack EXCEPT ![Depth].trees = result.trees, ![Depth].wrote = w]
    <3>1. stack[Depth] \in Activations(F, Q)
      BY <1>1, <1>2, <2>1
    <3>2. [stack[Depth] EXCEPT !.trees = result.trees].wrote = stack[Depth].wrote
      BY <3>1 DEF Activations
    <3> HIDE DEF result, place
    <3> QED
      BY <1>1, <1>2, <2>1, <2>3, <3>2
  <2>5. /\ trapped' = result.trap /\ again' = again
        /\ memory' = IF ~Plain(P) THEN Forget(place[1], NoTree)
                     ELSE IF place[1] \in Objects \ stale THEN [memory EXCEPT ![place] = e]
                     ELSE memory
        /\ stale' = IF Plain(P) THEN stale ELSE stale \cup TakenFor(Top, P)
    BY <1>6 DEF Store
  <2> DEFINE t == result.trees
  <2> HIDE DEF w, place
  <2>6. DOMAIN stack' = DOMAIN stack /\ \A d \in DOMAIN stack : stack'[d].trees = IF d = Depth THEN t ELSE stack[d].trees
    <3>1. stack' = [stack EXCEPT ![Depth].trees = t, ![Depth].wrote = w] /\ Depth \in DOMAIN stack
      BY <1>2, <2>1, <2>4
    <3> HIDE DEF t
    <3> QED
      BY <1>1, <3>1, TreesReplaced
  <2> HIDE DEF result
  <2>7. memory' \in Memories
    <3>1. Forget(place[1], NoTree) \in Memories
      BY <1>3, ForgetTyped
    <3>2. [memory EXCEPT ![place] = e] \in Memories
      BY <1>0, <2>1
    <3> QED
      BY <1>0, <2>5, <3>1, <3>2
  <2>8. stale' \subseteq Objects
    BY <1>0, <2>5 DEF TakenFor
  <2> QED
    BY <1>0, <2>2, <2>5, <2>6, <2>7, <2>8 DEF TreeInv
<1>7. ASSUME NEW P, LoadTraps(P) PROVE TreeInv'
  BY <1>7 DEF LoadTraps, TreeInv
<1>8. ASSUME NEW c \in Calls, Call(c) PROVE TreeInv'
  <2> DEFINE trees == RetrieveArguments(Top.trees, c.callee)
             new == [f |-> c.callee, args |-> c.args, trees |-> trees,
                     bind |-> initArgumentBindings(Top.bind, c.callee, c.args),
                     places |-> [k \in DOMAIN c.args |-> PlaceOf(Top, c.args[k])], wrote |-> {}]
  <2>1. Running
    BY <1>8 DEF Call
  <2>2. GoodTrees(trees)
    BY <1>2, <2>1, ArgumentsKeepTrees
  <2>3. stack' = Append(stack, new) /\ new.trees = trees
    BY <1>8 DEF Call
  <2> HIDE DEF new, trees
  <2>4. /\ DOMAIN stack' = 1 .. Depth + 1 /\ stack'[Depth + 1] = new
        /\ \A d \in 1 .. Depth : stack'[d] = stack[d]
    BY <1>1, <1>2, <2>1, <2>3 DEF Depth
  <2>5. \A d \in DOMAIN stack' : GoodTrees(stack'[d].trees)
    BY <1>0, <1>2, <2>1, <2>2, <2>3, <2>4
  <2>6. memory' \in Memories
    BY <1>0, <1>8 DEF Call
  <2>7. trapped' = trapped /\ stale' \subseteq Objects /\ again' \in BOOLEAN
    BY <1>0, <1>8 DEF Call, TakenFor
  <2> QED
    BY <1>0, <2>5, <2>6, <2>7 DEF TreeInv
<1>9. CASE Return
  <2> DEFINE caller == stack[Depth - 1]
             low == SubSeq(stack, 1, Depth - 1)
             t == updateStructTree(caller.trees, caller.bind, Top.trees, Range(Top.args))
             w == caller.wrote \cup Top.wrote
  <2>1. Running /\ Depth \in Nat /\ Depth > 1 /\ DOMAIN stack = 1 .. Depth
    BY <1>2, <1>9 DEF Return
  <2>2. /\ low \in Seq(Activations(F, Q)) /\ DOMAIN low = 1 .. Depth - 1
        /\ \A d \in 1 .. Depth - 1 : low[d] = stack[d]
    BY <1>1, <2>1 DEF Depth
  <2>3. stack' = [low EXCEPT ![Depth - 1].trees = t, ![Depth - 1].wrote = w]
    BY <1>9, <2>1, <2>2 DEF Return
  <2>4. GoodTrees(t)
    <3>1. GoodTrees(caller.trees) /\ GoodTrees(Top.trees)
      BY <1>0, <1>2, <2>1
    <3> QED
      BY <3>1, MergeKeepsTrees
  <2> DEFINE m == Depth - 1
  <2>5. m \in DOMAIN low /\ stack' = [low EXCEPT ![m].trees = t, ![m].wrote = w]
    BY <2>1, <2>2, <2>3
  <2>6. \A d \in 1 .. m : GoodTrees(low[d].trees)
    BY <1>0, <2>1, <2>2
  <2>7. DOMAIN low = 1 .. m
    BY <2>2
  <2> HIDE DEF low, t, w, m
  <2>8. DOMAIN stack' = DOMAIN low /\ \A d \in DOMAIN low : stack'[d].trees = IF d = m THEN t ELSE low[d].trees
    BY <2>2, <2>5, TreesReplaced
  <2>9. trapped' \in BOOLEAN /\ again' = again /\ memory' = memory
    BY <1>9 DEF Return
  <2>10. stale' \subseteq Objects
    <3>1. Top.wrote \subseteq Objects
      <4>1. Top \in Activations(F, Q)
        BY <1>1, <1>2, <2>1
      <4> QED
        BY <4>1 DEF Activations
    <3>2. stale' = stale \cup {v \in Top.wrote \ Handed(Top) : Def[v].kind = "global"}
      BY <1>9 DEF Return
    <3> QED
      BY <1>0, <3>1, <3>2
  <2> QED
    BY <1>0, <2>4, <2>6, <2>7, <2>8, <2>9, <2>10 DEF TreeInv
<1>10. CASE Leave
  <2>1. /\ DOMAIN stack' = {} /\ stale' = {} /\ again' = FALSE /\ trapped' = trapped
        /\ memory' = [o \in Objects \X Paths |-> Absent]
    BY <1>10 DEF Leave
  <2>2. memory' \in Memories
    BY <1>3, <2>1
  <2> QED
    BY <1>0, <2>1, <2>2 DEF TreeInv
<1>11. CASE UNCHANGED vars
  BY <1>11 DEF vars, TreeInv
<1> QED
  BY <1>4, <1>5, <1>6, <1>7, <1>8, <1>9, <1>10, <1>11 DEF Next

\* The initial state has no trees.
LEMMA TreeInvInit == Init => TreeInv
<1> SUFFICES ASSUME Init PROVE TreeInv
  OBVIOUS
<1>1. /\ DOMAIN stack = {} /\ stale = {} /\ again = FALSE /\ trapped = FALSE
      /\ memory = [o \in Objects \X Paths |-> Absent]
  BY DEF Init
<1>2. memory \in [Objects \X Paths -> Entries \cup {Absent}]
  BY <1>1
<1> QED
  BY <1>1, <1>2 DEF TreeInv

\* Every tree follows the type of its object in every reachable state, for every
\* program, metadata, and sequence of stores and calls.
THEOREM TypeCorrect == Spec => []TypeOK
<1>1. BindInv /\ TreeInv => TypeOK
  <2> SUFFICES ASSUME BindInv, TreeInv PROVE TypeOK
    OBVIOUS
  <2>1. PICK F, Q : stack \in Seq(Activations(F, Q))
    BY DEF BindInv, StackShape
  <2>2. ASSUME NEW d \in DOMAIN stack
        PROVE  /\ stack[d].f \in Functions /\ stack[d].args \in Seq(Values)
               /\ stack[d].bind \in [Parameters -> Values \cup {Unbound}]
    <3>1. stack[d] \in Activations(F, Q)
      BY <2>1
    <3> QED
      BY <3>1 DEF Activations
  <2>3. ASSUME NEW d \in DOMAIN stack
        PROVE  /\ stack[d].trees \in [Objects -> Trees]
               /\ \A v \in Objects : FieldsTyped(stack[d].trees[v])
               /\ \A v \in Objects : stack[d].trees[v] # NoTree =>
                    stack[d].trees[v][<<>>] = getElementStructType[Def[v].pointee]
    BY DEF TreeInv, GoodTrees, IsTree, IsTreeOf
  <2> QED
    BY <2>2, <2>3 DEF TreeInv, TypeOK, FieldsTyped, Fits
<1> QED
  BY BindInvInit, BindInvStep, TreeInvInit, TreeInvStep, <1>1, PTL DEF Spec

-----------------------------------------------------------------------------
(* A load finds what was last stored: the walker takes a direct pointer    *)
(* for what it is (PlacesAreRight), by induction over the activations and  *)
(* over the pointers in each; the index walk in the object's tree gets to  *)
(* the field (RoutesReach); and the tree says what was stored there last   *)
(* (TreesTell), whichever activation stored it.                            *)

\* The walks of every length, and the longest.
WalkOf(bind, walk) ==
  /\ walk \in [Nat -> [Values -> Ways]]
  /\ walk[0] = [v \in Values |-> Endless]
  /\ \A n \in Nat : walk[n + 1] = navigatePointerTreeToRoot(bind, walk[n])
  /\ \A P : retrieveRootPointer(bind, P) = walk[Cardinality(Values) + 1][P]

\* Each walk is made of the one before it.
LEMMA WalkSteps ==
  ASSUME NEW bind
  PROVE  /\ \E walk : WalkOf(bind, walk)
         /\ Cardinality(Values) \in Nat /\ Cardinality(Values) + 1 \in Nat
<1>1. PICK walk \in [Nat -> [Values -> Ways]] :
        /\ IsWalk(bind, walk)
        /\ \A P : retrieveRootPointer(bind, P) = walk[Cardinality(Values) + 1][P]
  BY WalkIsDefined
<1>2. \A n \in Nat : walk[n] = IF n = 0 THEN [v \in Values |-> Endless]
                               ELSE navigatePointerTreeToRoot(bind, walk[n - 1])
  BY <1>1 DEF IsWalk
<1>3. \A n \in Nat : n + 1 \in Nat /\ n + 1 # 0 /\ (n + 1) - 1 = n
  OBVIOUS
<1>4. walk[0] = [v \in Values |-> Endless]
  BY <1>2
<1>5. \A n \in Nat : walk[n + 1] = navigatePointerTreeToRoot(bind, walk[n])
  BY <1>2, <1>3
<1>6. Cardinality(Values) \in Nat
  BY OperandsAssumption, FS_CardinalityType
<1>7. WalkOf(bind, walk)
  BY <1>1, <1>4, <1>5 DEF WalkOf
<1> QED
  BY <1>6, <1>7

\* One call of navigatePointerTreeToRoot looks at the binding of its value, and at
\* where the walk goes on.
LEMMA NavigateSame ==
  ASSUME NEW bind, NEW other, NEW rest, NEW more, NEW v \in Values,
         Def[v].kind = "argument" => bind[v] = other[v],
         \A u \in Values : Leads(bind, v, u) => rest[u] = more[u]
  PROVE  navigatePointerTreeToRoot(bind, rest)[v] = navigatePointerTreeToRoot(other, more)[v]
<1>1. CASE Def[v].kind \in {"gep", "load"}
  <2>1. Def[v].base \in Values /\ rest[Def[v].base] = more[Def[v].base]
    BY <1>1, OperandsAssumption DEF Leads
  <2> QED
    BY <1>1, <2>1 DEF navigatePointerTreeToRoot
<1>2. CASE Def[v].kind = "argument"
  <2>1. bind[v] \in Values => rest[bind[v]] = more[bind[v]]
    BY <1>2 DEF Leads
  <2> QED
    BY <1>2, <2>1 DEF navigatePointerTreeToRoot
<1>3. CASE Def[v].kind \notin {"gep", "load", "argument"}
  BY <1>3 DEF navigatePointerTreeToRoot
<1> QED
  BY <1>1, <1>2, <1>3

\* The way from v is endless if the rest of it is.
LEMMA EndlessBefore ==
  ASSUME NEW bind, NEW rest \in [Values -> Ways], NEW v \in Values, NEW u \in Values,
         Leads(bind, v, u), rest[u].endless
  PROVE  navigatePointerTreeToRoot(bind, rest)[v].endless
<1>1. rest[u] \in Ways
  OBVIOUS
<1>2. CASE Def[v].kind = "gep"
  <2>1. navigatePointerTreeToRoot(bind, rest)[v] = [rest[u] EXCEPT !.indices = Push(Tail1(Def[v].idx), @)]
    BY <1>2 DEF navigatePointerTreeToRoot, Leads
  <2> QED
    BY <1>1, <2>1 DEF Ways
<1>3. CASE Def[v].kind = "load"
  BY <1>3 DEF navigatePointerTreeToRoot, Leads
<1>4. CASE Def[v].kind = "argument"
  BY <1>4 DEF navigatePointerTreeToRoot, Leads
<1> QED
  BY <1>2, <1>3, <1>4 DEF Leads

LeadsBack(bind, level) ==
  level \in [Values -> Nat] /\ \A v, u \in Values : Leads(bind, v, u) => Earlier(level, u, v)

RootWays(bind) == [v \in Values |-> retrieveRootPointer(bind, v)]

\* Where walks end, retrieveRootPointer returns what its recursion does.
LEMMA WaysUnfold ==
  ASSUME NEW bind, NEW level, LeadsBack(bind, level)
  PROVE  /\ RootWays(bind) \in [Values -> Ways]
         /\ RootWays(bind) = navigatePointerTreeToRoot(bind, RootWays(bind))
         /\ \A v \in Values : ~RootWays(bind)[v].endless
<1>0. PICK walk : WalkOf(bind, walk)
  BY WalkSteps
<1>1. /\ walk \in [Nat -> [Values -> Ways]]
      /\ walk[0] = [v \in Values |-> Endless]
      /\ \A n \in Nat : walk[n + 1] = navigatePointerTreeToRoot(bind, walk[n])
      /\ \A P : retrieveRootPointer(bind, P) = walk[Cardinality(Values) + 1][P]
  BY <1>0 DEF WalkOf
<1> DEFINE N == Cardinality(Values)
           T == {n \in Nat : \A v \in Values : ~walk[n][v].endless => walk[n + 1][v] = walk[n][v]}
<1>2. 0 \in T
  <2>1. \A v \in Values : walk[0][v].endless
    BY <1>1 DEF Endless
  <2> QED
    BY <2>1
<1> HIDE DEF N
<1>3. ASSUME NEW n \in Nat, n \in T PROVE n + 1 \in T
  <2>1. n + 1 \in Nat /\ walk[n + 1] = navigatePointerTreeToRoot(bind, walk[n])
        /\ walk[(n + 1) + 1] = navigatePointerTreeToRoot(bind, walk[n + 1])
    BY <1>1
  <2> SUFFICES ASSUME NEW v \in Values, ~walk[n + 1][v].endless
               PROVE  walk[(n + 1) + 1][v] = walk[n + 1][v]
    BY <2>1
  <2> DEFINE r == walk[n]
             m == walk[n + 1]
  <2>2. r \in [Values -> Ways] /\ ~navigatePointerTreeToRoot(bind, r)[v].endless
    BY <1>1, <2>1
  <2>3. ASSUME NEW u \in Values, Leads(bind, v, u) PROVE r[u] = m[u]
    <3>1. ~r[u].endless
      <4> HIDE DEF r
      <4> QED
        BY <2>2, <2>3, EndlessBefore
    <3> QED
      BY <1>3, <3>1
  <2>4. navigatePointerTreeToRoot(bind, r)[v] = navigatePointerTreeToRoot(bind, m)[v]
    <3> HIDE DEF r, m
    <3> QED
      BY <2>3, NavigateSame
  <2> QED
    BY <2>1, <2>4
<1>4. \A n \in Nat : n \in T
  <2> HIDE DEF T
  <2> QED
    BY <1>2, <1>3, InductionOverNat
<1>5. N \in Nat /\ \A P : retrieveRootPointer(bind, P) = walk[N + 1][P]
  BY <1>1, WalkSteps DEF N
<1>6. \A v \in Values : ~retrieveRootPointer(bind, v).endless
  <2>1. level \in [Values -> Nat] /\ \A v, u \in Values : Leads(bind, v, u) => Earlier(level, u, v)
    BY DEF LeadsBack
  <2> QED
    BY <2>1, WalksBackEnd
<1>7. N + 1 \in Nat /\ walk[N + 1] \in [Values -> Ways]
  BY <1>1, <1>5
<1>8. walk[N + 1] = RootWays(bind)
  BY <1>5, <1>7 DEF RootWays
<1>9. walk[(N + 1) + 1] = navigatePointerTreeToRoot(bind, walk[N + 1])
  BY <1>1, <1>7
<1>10. \A v \in Values : walk[(N + 1) + 1][v] = walk[N + 1][v]
  BY <1>4, <1>5, <1>6, <1>7
<1>11. (N + 1) + 1 \in Nat
  BY <1>5
<1>12. walk[(N + 1) + 1] = walk[N + 1]
  <2>1. walk[(N + 1) + 1] \in [Values -> Ways]
    BY <1>1, <1>11
  <2> QED
    BY <1>7, <1>10, <2>1
<1> QED
  BY <1>6, <1>7, <1>8, <1>9, <1>12 DEF RootWays

\* A set of values that the walk does not leave.
Closed(bind, S) == \A v \in S : \A u \in Values : Leads(bind, v, u) => u \in S

\* Bindings that agree on such a set give the same ways from it, and a way from
\* it ends in it, or at an aggregate.
LEMMA WaysInside ==
  ASSUME NEW bind, NEW S \in SUBSET Values, Closed(bind, S), NEW other,
         \A v \in S : Def[v].kind = "argument" => bind[v] = other[v],
         NEW v \in S
  PROVE  /\ retrieveRootPointer(bind, v) = retrieveRootPointer(other, v)
         /\ LET root == retrieveRootPointer(bind, v).root
            IN  root \in S \cup {Null} \/ Def[root].kind = "aggregate"
<1> DEFINE Inside(root) == root \in S \cup {Null} \/ Def[root].kind = "aggregate"
<1>1. PICK walk : WalkOf(bind, walk)
  BY WalkSteps
<1>2. PICK walk2 : WalkOf(other, walk2)
  BY WalkSteps
<1> DEFINE T == {n \in Nat : \A u \in S : walk[n][u] = walk2[n][u] /\ Inside(walk[n][u].root)}
<1>3. 0 \in T
  <2>1. \A u \in S : walk[0][u] = Endless /\ walk2[0][u] = Endless
    BY <1>1, <1>2 DEF WalkOf
  <2> QED
    BY <2>1 DEF Endless
<1>4. ASSUME NEW n \in Nat, n \in T PROVE n + 1 \in T
  <2> SUFFICES ASSUME NEW u \in S
               PROVE  walk[n + 1][u] = walk2[n + 1][u] /\ Inside(walk[n + 1][u].root)
    OBVIOUS
  <2>1. /\ walk[n + 1] = navigatePointerTreeToRoot(bind, walk[n]) /\ walk[n] \in [Values -> Ways]
        /\ walk2[n + 1] = navigatePointerTreeToRoot(other, walk2[n])
    BY <1>1, <1>2 DEF WalkOf
  <2>2. \A w \in Values : Leads(bind, u, w) => w \in S
    BY DEF Closed
  <2>3. \A w \in Values : Leads(bind, u, w) => walk[n][w] = walk2[n][w] /\ Inside(walk[n][w].root)
    BY <1>4, <2>2
  <2>4. walk[n + 1][u] = walk2[n + 1][u]
    <3> DEFINE r == walk[n]
               m == walk2[n]
    <3>1. \A w \in Values : Leads(bind, u, w) => r[w] = m[w]
      BY <2>3
    <3>2. u \in Values /\ (Def[u].kind = "argument" => bind[u] = other[u])
      OBVIOUS
    <3> HIDE DEF r, m
    <3>3. navigatePointerTreeToRoot(bind, r)[u] = navigatePointerTreeToRoot(other, m)[u]
      BY <3>1, <3>2, NavigateSame
    <3> QED
      BY <2>1, <3>3 DEF r, m
  <2>5. Inside(walk[n + 1][u].root)
    <3> DEFINE d == Def[u]
               Root == IF d.pointee \in StructTypes THEN u ELSE Null
               way == navigatePointerTreeToRoot(bind, walk[n])[u]
    <3> SUFFICES Inside(way.root)
      BY <2>1
    <3>1. \A r, s : Way(r, s).root = r
      BY DEF Way
    <3>0. Inside(Root) /\ Inside(Null)
      OBVIOUS
    <3>2. CASE d.kind \in {"gep", "load"}
      <4>1. d.base \in Values /\ Leads(bind, u, d.base) /\ walk[n][d.base] \in Ways
        BY <2>1, <3>2, OperandsAssumption DEF Leads
      <4>2. way.root = walk[n][d.base].root
        <5>1. CASE d.kind = "gep"
          <6>1. way = [walk[n][d.base] EXCEPT !.indices = Push(Tail1(d.idx), @)]
            BY <5>1 DEF navigatePointerTreeToRoot
          <6> QED
            BY <4>1, <6>1 DEF Ways
        <5>2. CASE d.kind = "load"
          BY <5>2 DEF navigatePointerTreeToRoot
        <5> QED
          BY <3>2, <5>1, <5>2
      <4> QED
        BY <2>3, <4>1, <4>2
    <3>3. CASE d.kind = "argument"
      <4>1. way = IF bind[u] \in Values THEN walk[n][bind[u]] ELSE Way(Root, <<>>)
        BY <3>3 DEF navigatePointerTreeToRoot
      <4>2. CASE bind[u] \in Values
        <5>1. Leads(bind, u, bind[u])
          BY <3>3, <4>2 DEF Leads
        <5> QED
          BY <2>3, <4>1, <4>2, <5>1
      <4>3. CASE bind[u] \notin Values
        <5>1. way.root = Root
          BY <3>1, <4>1, <4>3
        <5> HIDE DEF way, Root
        <5> QED
          BY <3>0, <5>1
      <4> QED
        BY <4>2, <4>3
    <3>4. CASE d.kind \in {"alloca", "global"}
      <4>1. way.root = Root
        BY <3>1, <3>4 DEF navigatePointerTreeToRoot
      <4> HIDE DEF way, Root
      <4> QED
        BY <3>0, <4>1
    <3>5. CASE d.kind = "extractvalue"
      <4>1. Def[d.base].kind = "aggregate"
        BY <3>5, OperandsAssumption
      <4>2. way.root = d.base
        BY <3>1, <3>5 DEF navigatePointerTreeToRoot
      <4> QED
        BY <4>1, <4>2
    <3>6. CASE d.kind \notin {"gep", "load", "argument", "alloca", "global", "extractvalue"}
      <4>1. way.root = Null
        BY <3>1, <3>6 DEF navigatePointerTreeToRoot
      <4> QED
        BY <3>0, <4>1
    <3> QED
      BY <3>2, <3>3, <3>4, <3>5, <3>6
  <2> QED
    BY <2>4, <2>5
<1>5. \A n \in Nat : n \in T
  <2> HIDE DEF T
  <2> QED
    BY <1>3, <1>4, InductionOverNat
<1>6. Cardinality(Values) + 1 \in Nat
  BY WalkSteps
<1> QED
  BY <1>1, <1>2, <1>5, <1>6 DEF WalkOf

Geps == {v \in Values : Def[v].kind = "gep"}

\* From a pointer to the one it is computed from, there is no way round in circles.
LEMMA GepChains ==
  LET base == [v \in Geps |-> Def[v].base]
  IN  Geps \in SUBSET Values /\ base \in [Geps -> Values] /\ Acyclic(Geps, base)
<1> DEFINE base == [v \in Geps |-> Def[v].base]
<1>1. Geps \in SUBSET Values /\ base \in [Geps -> Values]
  BY OperandsAssumption DEF Geps
<1>2. ASSUME NEW U \in SUBSET Geps, \A v \in U : base[v] \in U, U # {} PROVE FALSE
  <2> DEFINE T == {Position[v] : v \in U}
  <2>1. T \subseteq Nat /\ T # {}
    BY <1>1, <1>2, OperandsAssumption
  <2>2. PICK x \in T : \A y \in T : x <= y
    BY <2>1, LeastNumber
  <2>3. PICK v \in U : Position[v] = x
    BY <2>2
  <2>4. Def[v].base \in U /\ Position[Def[v].base] < Position[v]
    BY <1>2, OperandsAssumption DEF Geps
  <2>5. Position[Def[v].base] \in T
    BY <2>4
  <2>6. Position[Def[v].base] \in Nat /\ Position[v] \in Nat
    BY <2>1, <2>3, <2>5
  <2> QED
    BY <2>2, <2>3, <2>4, <2>5, <2>6
<1>3. Acyclic(Geps, base)
  BY <1>2 DEF Acyclic
<1> QED
  BY <1>1, <1>3

\* Indices of a gep after the first, with 0 for the variable ones.
LEMMA Tail1Typed == \A v \in Geps : Tail1(Def[v].idx) \in Seq(Nat)
<1> SUFFICES ASSUME NEW v \in Geps PROVE Tail1(Def[v].idx) \in Seq(Nat)
  OBVIOUS
<1> DEFINE idx == Def[v].idx
           m == IF Len(idx) = 0 THEN 0 ELSE Len(idx) - 1
<1>1. Len(idx) \in Nat /\ \A k \in 1 .. Len(idx) : idx[k] \in Indices
  BY DefinitionsAssumption DEF Geps
<1>2. \A k \in 1 .. Len(idx) - 1 : k + 1 \in 1 .. Len(idx)
  BY <1>1
<1>3. \A k \in 1 .. Len(idx) - 1 : parseIndex(idx[k + 1]) \in Nat
  BY <1>1, <1>2 DEF parseIndex, Indices
<1>4. m \in Nat /\ 1 .. Len(idx) - 1 = 1 .. m
  BY <1>1
<1>5. Tail1(idx) \in [1 .. m -> Nat]
  BY <1>3, <1>4 DEF Tail1
<1> QED
  BY <1>4, <1>5

PlacesTyped(a) == \A k \in DOMAIN a.places : a.places[k] \in Values \X Seq(Nat)

\* The position of parameter v of activation a, if it was passed.
Passing(a, v) == {k \in DOMAIN a.places : Formals[a.f][k] = v}

\* The place of v, given that of its base.
PlaceFrom(a, v, through) ==
  IF Def[v].kind = "gep"
  THEN IF Kind[Def[Def[v].base].pointee] = "struct"
       THEN <<through[1], through[2] \o Tail1(Def[v].idx)>> ELSE through
  ELSE IF Def[v].kind = "argument" /\ Passing(a, v) # {}
       THEN a.places[CHOOSE k \in Passing(a, v) : TRUE]
  ELSE <<v, <<>>>>

\* PlaceOf is its recursion.
LEMMA PlacesUnfold ==
  ASSUME NEW a, PlacesTyped(a)
  PROVE  \A v \in Values : /\ PlaceOf(a, v) \in Values \X Seq(Nat)
                           /\ PlaceOf(a, v) = PlaceFrom(a, v, PlaceOf(a, Def[v].base))
<1> DEFINE R == Values \X Seq(Nat)
           base == [v \in Geps |-> Def[v].base]
           step == [v \in Geps |-> [r \in R |-> PlaceFrom(a, v, r)]]
           out == [v \in Values |-> IF v \in Geps THEN <<v, <<>>>> ELSE PlaceFrom(a, v, 0)]
           E(f, v) ==
             CASE Def[v].kind = "gep" /\ Kind[Def[Def[v].base].pointee] = "struct" ->
                     <<f[Def[v].base][1], f[Def[v].base][2] \o Tail1(Def[v].idx)>>
               [] Def[v].kind = "gep" /\ Kind[Def[Def[v].base].pointee] # "struct" -> f[Def[v].base]
               [] Def[v].kind = "argument" /\ {k \in DOMAIN a.places : Formals[a.f][k] = v} # {} ->
                     a.places[CHOOSE k \in {k \in DOMAIN a.places : Formals[a.f][k] = v} : TRUE]
               [] OTHER -> <<v, <<>>>>
           Is(f) == f = [v \in Values |-> E(f, v)]
<1>0. \A v \in Values : <<v, <<>>>> \in R
  <2>1. <<>> \in Seq(Nat)
    OBVIOUS
  <2> QED
    BY <2>1
<1>1. ASSUME NEW v \in Geps, NEW r \in R PROVE PlaceFrom(a, v, r) \in R
  <2>1. PlaceFrom(a, v, r) \in {<<r[1], r[2] \o Tail1(Def[v].idx)>>, r}
    BY DEF PlaceFrom, Geps
  <2>2. r[1] \in Values /\ r[2] \o Tail1(Def[v].idx) \in Seq(Nat)
    BY Tail1Typed
  <2>3. <<r[1], r[2] \o Tail1(Def[v].idx)>> \in R
    BY <2>2
  <2> HIDE DEF R
  <2> QED
    BY <2>1, <2>3
<1>2. ASSUME NEW v \in Values \ Geps, NEW r PROVE PlaceFrom(a, v, r) \in R /\ PlaceFrom(a, v, r) = PlaceFrom(a, v, 0)
  <2>1. Def[v].kind # "gep"
    BY DEF Geps
  <2>2. PlaceFrom(a, v, r) = PlaceFrom(a, v, 0)
    BY <2>1 DEF PlaceFrom
  <2>3. CASE Def[v].kind = "argument" /\ Passing(a, v) # {}
    <3> DEFINE k == CHOOSE k \in Passing(a, v) : TRUE
    <3>1. k \in DOMAIN a.places
      BY <2>3 DEF Passing
    <3>2. PlaceFrom(a, v, r) = a.places[k]
      BY <2>1, <2>3 DEF PlaceFrom
    <3> HIDE DEF k
    <3>3. a.places[k] \in R
      BY <3>1 DEF PlacesTyped
    <3> HIDE DEF R
    <3> QED
      BY <2>2, <3>2, <3>3
  <2>4. CASE ~(Def[v].kind = "argument" /\ Passing(a, v) # {})
    <3>1. PlaceFrom(a, v, r) = <<v, <<>>>>
      BY <2>1, <2>4 DEF PlaceFrom
    <3> HIDE DEF R
    <3> QED
      BY <1>0, <2>2, <3>1
  <2> QED
    BY <2>3, <2>4
<1>3. /\ step \in [Geps -> [R -> R]] /\ out \in [Values -> R]
  <2>1. \A v \in Geps : step[v] \in [R -> R]
    BY <1>1
  <2>2. ASSUME NEW v \in Values PROVE out[v] \in R
    <3>1. <<v, <<>>>> \in R
      BY <1>0
    <3>2. v \notin Geps => PlaceFrom(a, v, 0) \in R
      BY <1>2
    <3> HIDE DEF R
    <3> QED
      BY <3>1, <3>2
  <2> HIDE DEF R
  <2> QED
    BY <2>1, <2>2
<1>4. Geps \in SUBSET Values /\ base \in [Geps -> Values] /\ Acyclic(Geps, base)
  BY GepChains
<1>5. PICK f \in [Values -> R] : RecursesAlong(f, Values, Geps, base, step, out)
  <2> HIDE DEF R, base, step, out
  <2> QED
    BY <1>3, <1>4, ChainRecursion
<1>6. ASSUME NEW v \in Values PROVE f[v] = PlaceFrom(a, v, f[Def[v].base])
  <2>1. f[v] = IF v \in Geps THEN step[v][f[base[v]]] ELSE out[v]
    <3> HIDE DEF R, base, step, out
    <3> QED
      BY <1>5 DEF RecursesAlong
  <2>2. CASE v \in Geps
    <3>1. base[v] = Def[v].base /\ Def[v].base \in Values
      BY <1>4, <2>2
    <3>2. f[Def[v].base] \in R
      BY <1>5, <3>1
    <3> HIDE DEF R
    <3> QED
      BY <2>1, <2>2, <3>1, <3>2
  <2>3. CASE v \notin Geps
    BY <1>2, <2>1, <2>3
  <2> QED
    BY <2>2, <2>3
<1>7. ASSUME NEW v \in Values, NEW g PROVE E(g, v) = PlaceFrom(a, v, g[Def[v].base])
  BY DEF PlaceFrom, Passing
<1> HIDE DEF E
<1>8. Is(f)
  <2>1. \A v \in Values : f[v] = E(f, v)
    BY <1>6, <1>7
  <2> HIDE DEF R
  <2> QED
    BY <1>5, <2>1
<1> DEFINE place == CHOOSE g : Is(g)
<1>9. Is(place)
  <2> HIDE DEF Is
  <2> QED
    BY <1>8, Zenon
<1>10. \A P : PlaceOf(a, P) = place[P]
  BY DEF PlaceOf, E
<1> HIDE DEF place
<1>11. \A v \in Values : place[v] = PlaceFrom(a, v, place[Def[v].base])
  BY <1>7, <1>9
<1> DEFINE T == {v \in Values : place[v] \in R}
<1>12. Values \ Geps \subseteq T
  BY <1>2, <1>11
<1>13. \A v \in Geps : base[v] \in T => v \in T
  <2> SUFFICES ASSUME NEW v \in Geps, place[Def[v].base] \in R PROVE v \in T
    OBVIOUS
  <2> QED
    BY <1>1, <1>4, <1>11
<1>14. Values \subseteq T
  <2> HIDE DEF T, base
  <2> QED
    BY <1>4, <1>12, <1>13, ChainInduction
<1> QED
  BY <1>10, <1>11, <1>14

\* It looks at nothing but the function and the places passed to it.
LEMMA SamePlaces ==
  ASSUME NEW a, NEW b, a.f = b.f, a.places = b.places, NEW P
  PROVE  PlaceOf(a, P) = PlaceOf(b, P)
<1> DEFINE Place(f, places, Q) ==
             LET place[v \in Values] ==
                   LET d == Def[v]
                       through == place[d.base]
                       parameter == {k \in DOMAIN places : Formals[f][k] = v}
                   IN  CASE d.kind = "gep" /\ Kind[Def[d.base].pointee] = "struct" ->
                              <<through[1], through[2] \o Tail1(d.idx)>>
                         [] d.kind = "gep" /\ Kind[Def[d.base].pointee] # "struct" -> through
                         [] d.kind = "argument" /\ parameter # {} ->
                              places[CHOOSE k \in parameter : TRUE]
                         [] OTHER -> <<v, <<>>>>
             IN  place[Q]
<1>1. \A c : PlaceOf(c, P) = Place(c.f, c.places, P)
  BY DEF PlaceOf
<1> HIDE DEF Place
<1> QED
  BY <1>1

\* The values a gep can be built from directly.
DirectRoot(v) == Def[v].kind \in {"alloca", "global", "argument"} /\ Kind[Def[v].pointee] = "struct"
DirectStep(v) ==
  /\ Len(Def[v].idx) = 2
  /\ Kind[Def[v].pointee] = "struct" => Kind[Def[Def[v].base].pointee] = "struct"
  /\ Kind[Def[v].pointee] = "array" => ElementType[Def[v].pointee] \notin StructTypes

\* Direct is its recursion.
LEMMA DirectUnfolds ==
  \A v \in Values : Direct[v] <=> \/ DirectRoot(v)
                                  \/ v \in Geps /\ Direct[Def[v].base] /\ DirectStep(v)
<1> DEFINE base == [v \in Geps |-> Def[v].base]
           step == [v \in Geps |-> [b \in BOOLEAN |-> b /\ DirectStep(v)]]
           out == [v \in Values |-> DirectRoot(v)]
           E(f, v) ==
             LET d == Def[v]
             IN  \/ d.kind \in {"alloca", "global", "argument"} /\ Kind[d.pointee] = "struct"
                 \/ /\ d.kind = "gep" /\ f[d.base] /\ Len(d.idx) = 2
                    /\ Kind[d.pointee] = "struct" => Kind[Def[d.base].pointee] = "struct"
                    /\ Kind[d.pointee] = "array" => ElementType[d.pointee] \notin StructTypes
           Is(f) == f = [v \in Values |-> E(f, v)]
<1>1. Geps \in SUBSET Values /\ base \in [Geps -> Values] /\ Acyclic(Geps, base)
  BY GepChains
<1>2. step \in [Geps -> [BOOLEAN -> BOOLEAN]]
  BY Zenon DEF DirectStep
<1>3. out \in [Values -> BOOLEAN]
  BY Zenon DEF DirectRoot
<1>4. PICK f \in [Values -> BOOLEAN] : RecursesAlong(f, Values, Geps, base, step, out)
  <2> HIDE DEF base, step, out
  <2> QED
    BY <1>1, <1>2, <1>3, ChainRecursion
<1>5. ASSUME NEW v \in Values, NEW g
      PROVE  E(g, v) <=> DirectRoot(v) \/ (v \in Geps /\ g[Def[v].base] /\ DirectStep(v))
  BY Zenon DEF DirectRoot, DirectStep, Geps
<1>6. ASSUME NEW v \in Values PROVE f[v] = E(f, v)
  <2>1. f[v] = IF v \in Geps THEN step[v][f[base[v]]] ELSE out[v]
    <3> HIDE DEF base, step, out
    <3> QED
      BY <1>4, Zenon DEF RecursesAlong
  <2>2. CASE v \in Geps
    <3>1. base[v] = Def[v].base /\ Def[v].base \in Values /\ f[Def[v].base] \in BOOLEAN
      BY <1>1, <1>4, <2>2
    <3>2. step[v][f[Def[v].base]] = (f[Def[v].base] /\ DirectStep(v))
      BY <2>2, <3>1, Zenon
    <3>3. ~DirectRoot(v)
      BY <2>2 DEF DirectRoot, Geps
    <3> QED
      BY <1>5, <2>1, <2>2, <3>1, <3>2, <3>3, Zenon
  <2>3. CASE v \notin Geps
    <3>1. f[v] = DirectRoot(v)
      BY <2>1, <2>3, Zenon
    <3> QED
      BY <1>5, <2>3, <3>1, Zenon
  <2> QED
    BY <2>2, <2>3
<1> HIDE DEF E
<1>7. Is(f)
  BY <1>4, <1>6
<1>8. Direct = CHOOSE g : Is(g)
  BY DEF Direct, E
<1>9. Is(Direct)
  <2> HIDE DEF Is
  <2> QED
    BY <1>7, <1>8, Zenon
<1>10. \A v \in Values : Direct[v] = E(Direct, v)
  BY <1>9, Zenon
<1> QED
  BY <1>5, <1>10, Zenon

\* What PathsAssumption says of the nodes on the paths.
Describes(nodes) ==
  /\ \A v \in Objects : Def[v].pointee \in StructTypes => <<<<>>, Def[v].pointee>> \in nodes
  /\ \A node \in nodes : \A c \in 0 .. Len(Elements[node[2]]) - 1 :
       LET F == FieldType(node[2], c)
       IN  /\ Append(node[1], c) \in Paths
           /\ F \in StructTypes => <<Append(node[1], c), F>> \in nodes
PathNodes == CHOOSE nodes \in SUBSET (Paths \X StructTypes) : Describes(nodes)

\* There are such nodes.
LEMMA PathNodesDescribe ==
  PathNodes \in SUBSET (Paths \X StructTypes) /\ Describes(PathNodes)
<1>1. \E nodes \in SUBSET (Paths \X StructTypes) : Describes(nodes)
  BY PathsAssumption DEF Describes
<1> QED
  BY <1>1, Zenon DEF PathNodes

\* The first i fields of a path, and all but the last i indices.
Upto(path, i) == SubSeq(path, 1, i)
But(indices, i) == SubSeq(indices, 1, Len(indices) - i)

\* The first part of a path grows by one field at a time.
LEMMA PathsUpto ==
  ASSUME NEW path \in Seq(Nat)
  PROVE  /\ Upto(path, 0) = <<>> /\ Upto(path, Len(path)) = path
         /\ \A i \in 0 .. Len(path) : Upto(path, i) \in Seq(Nat)
         /\ \A i \in 0 .. Len(path) - 1 : /\ Upto(path, i + 1) = Append(Upto(path, i), path[i + 1])
                                          /\ path[i + 1] \in Nat
BY DEF Upto

\* The elements of the first part of a sequence.
LEMMA CutShort ==
  ASSUME NEW s \in Seq(Nat), NEW k \in 0 .. Len(s)
  PROVE  /\ SubSeq(s, 1, k) \in Seq(Nat) /\ Len(SubSeq(s, 1, k)) = k
         /\ \A j \in 1 .. k : SubSeq(s, 1, k)[j] = s[j]
OBVIOUS

\* Taking indices off the back, one or more at a time.
LEMMA IndicesBut ==
  ASSUME NEW s \in Seq(Nat)
  PROVE  /\ But(s, 0) = s
         /\ \A i \in 0 .. Len(s) : But(s, i) \in Seq(Nat) /\ Len(But(s, i)) = Len(s) - i
         /\ \A i \in 0 .. Len(s) - 1 : /\ But(s, i) # <<>> /\ Last(But(s, i)) = s[Len(s) - i]
                                       /\ Front(But(s, i)) = But(s, i + 1)
<1>1. But(s, 0) = s
  BY DEF But
<1>2. \A i \in 0 .. Len(s) : But(s, i) \in Seq(Nat) /\ Len(But(s, i)) = Len(s) - i
  BY DEF But
<1>3. ASSUME NEW i \in 0 .. Len(s) - 1
      PROVE  /\ But(s, i) # <<>> /\ Last(But(s, i)) = s[Len(s) - i]
             /\ Front(But(s, i)) = But(s, i + 1)
  <2>1. Len(But(s, i)) = Len(s) - i /\ Len(s) - i >= 1 /\ But(s, i) \in Seq(Nat)
    BY <1>2
  <2>2. Last(But(s, i)) = But(s, i)[Len(s) - i]
    BY <2>1 DEF Last
  <2>3. But(s, i)[Len(s) - i] = s[Len(s) - i]
    BY DEF But
  <2>4. Front(But(s, i)) = SubSeq(But(s, i), 1, Len(s) - i - 1)
    BY <2>1 DEF Front
  <2>5. SubSeq(But(s, i), 1, Len(s) - i - 1) = SubSeq(s, 1, Len(s) - (i + 1))
    <3> DEFINE a == SubSeq(But(s, i), 1, Len(s) - i - 1)
               b == SubSeq(s, 1, Len(s) - (i + 1))
               n == Len(s) - i - 1
               c == But(s, i)
    <3>1. /\ n \in 0 .. Len(s) /\ n \in 0 .. Len(s) - i /\ n = Len(s) - (i + 1)
          /\ Len(c) = Len(s) - i /\ c \in Seq(Nat)
      BY <2>1
    <3>2. /\ a \in Seq(Nat) /\ Len(a) = n /\ \A k \in 1 .. n : a[k] = c[k]
          /\ b \in Seq(Nat) /\ Len(b) = n /\ \A k \in 1 .. n : b[k] = s[k]
      <4> HIDE DEF n, c
      <4>1. SubSeq(c, 1, n) \in Seq(Nat) /\ Len(SubSeq(c, 1, n)) = n /\ \A k \in 1 .. n : SubSeq(c, 1, n)[k] = c[k]
        BY <3>1, CutShort
      <4>2. SubSeq(s, 1, n) \in Seq(Nat) /\ Len(SubSeq(s, 1, n)) = n /\ \A k \in 1 .. n : SubSeq(s, 1, n)[k] = s[k]
        BY <3>1, CutShort
      <4> QED
        BY <3>1, <4>1, <4>2 DEF n, c
    <3>3. \A k \in 1 .. Len(s) - i : c[k] = s[k]
      <4>1. Len(s) - i \in 0 .. Len(s)
        OBVIOUS
      <4> QED
        BY <4>1, CutShort DEF But
    <3>4. \A k \in 1 .. n : k \in 1 .. Len(s) - i
      OBVIOUS
    <3> HIDE DEF a, b, n, c
    <3>5. \A k \in 1 .. n : a[k] = b[k]
      BY <3>2, <3>3, <3>4
    <3>6. a = b
      BY <3>2, <3>5
    <3> QED
      BY <3>6 DEF a, b
  <2> QED
    BY <2>1, <2>2, <2>3, <2>4, <2>5 DEF But
<1> QED
  BY <1>1, <1>2, <1>3

\* The types along a path of fields in object v.
Passes(v, path, t) ==
  /\ path \in Seq(Nat) /\ t \in [0 .. Len(path) -> Types] /\ t[0] = Def[v].pointee
  /\ \A i \in 0 .. Len(path) - 1 : /\ <<Upto(path, i), t[i]>> \in PathNodes
                                   /\ path[i + 1] < Len(Elements[t[i]])
                                   /\ t[i + 1] = FieldType(t[i], path[i + 1])
  /\ t[Len(path)] \in StructTypes => <<path, t[Len(path)]>> \in PathNodes

\* The indices that lead along it, and then through arrays to a T.
Selects(indices, path, last, T) ==
  /\ indices \in Seq(Nat) /\ Len(path) <= Len(indices)
  /\ \A i \in 0 .. Len(path) - 1 : indices[Len(indices) - i] = path[i + 1]
  /\ Sequential[last] = (Len(indices) - Len(path)) + Sequential[T]
  /\ ElementType[last] = ElementType[T]
  /\ ElementType[T] \in StructTypes => last = T /\ T \in StructTypes /\ Len(indices) = Len(path)

\* They lead from object v to a T.
Route(v, path, indices, T) ==
  \E t : Passes(v, path, t) /\ Selects(indices, path, t[Len(path)], T)

\* An object of a struct type is at the start of every route in it.
LEMMA RouteStarts ==
  ASSUME NEW v \in Objects, Def[v].pointee \in StructTypes
  PROVE  Route(v, <<>>, <<>>, Def[v].pointee)
<1> DEFINE T == Def[v].pointee
           t == [i \in 0 .. 0 |-> T]
<1>1. Len(<<>>) = 0 /\ <<>> \in Seq(Nat) /\ 0 .. 0 - 1 = {} /\ T \in Types
  BY DEF StructTypes
<1>2. Passes(v, <<>>, t)
  BY <1>1, PathNodesDescribe DEF Passes, Describes
<1>3. Selects(<<>>, <<>>, t[0], T)
  BY <1>1, SequentialCounts DEF Selects
<1> QED
  BY <1>1, <1>2, <1>3 DEF Route

\* A path does not leave Paths.
LEMMA PassesPaths ==
  ASSUME NEW v, NEW path, NEW t, Passes(v, path, t)
  PROVE  /\ path \in Paths
         /\ \A i \in 0 .. Len(path) : Upto(path, i) \in Paths
<1>1. path \in Seq(Nat) /\ Len(path) \in Nat
  BY DEF Passes
<1>2. ASSUME NEW i \in 0 .. Len(path) - 1 PROVE Upto(path, i) \in Paths /\ Upto(path, i + 1) \in Paths
  <2>1. <<Upto(path, i), t[i]>> \in PathNodes /\ path[i + 1] < Len(Elements[t[i]])
    BY DEF Passes
  <2>2. Upto(path, i + 1) = Append(Upto(path, i), path[i + 1]) /\ path[i + 1] \in Nat
    BY <1>1, PathsUpto
  <2>3. t[i] \in StructTypes /\ Upto(path, i) \in Paths
    BY <2>1, PathNodesDescribe
  <2>4. Len(Elements[t[i]]) \in Nat
    BY <2>3, DefinitionsAssumption DEF StructTypes
  <2>5. path[i + 1] \in 0 .. Len(Elements[t[i]]) - 1
    BY <2>1, <2>2, <2>4
  <2>6. Append(Upto(path, i), path[i + 1]) \in Paths
    BY <2>1, <2>5, PathNodesDescribe DEF Describes
  <2> QED
    BY <2>2, <2>3, <2>6
<1>3. Upto(path, 0) \in Paths
  BY <1>1, PathsUpto, BoundsAssumption
<1>4. ASSUME NEW i \in 0 .. Len(path) PROVE Upto(path, i) \in Paths
  <2>1. CASE i = 0
    BY <1>3, <2>1
  <2>2. CASE i # 0
    <3>1. i - 1 \in 0 .. Len(path) - 1 /\ (i - 1) + 1 = i
      BY <1>1, <2>2
    <3> QED
      BY <1>2, <3>1
  <2> QED
    BY <2>1, <2>2
<1> QED
  BY <1>1, <1>4, PathsUpto

\* The one index of a gep that is direct.
LEMMA OneIndex ==
  ASSUME NEW v \in Geps, Len(Def[v].idx) = 2
  PROVE  /\ Tail1(Def[v].idx) = <<parseIndex(Def[v].idx[2])>>
         /\ parseIndex(Def[v].idx[2]) \in Nat
<1>1. 1 .. Len(Def[v].idx) - 1 = {1}
  OBVIOUS
<1>2. Tail1(Def[v].idx) = [k \in 1 .. 1 |-> parseIndex(Def[v].idx[k + 1])]
  BY DEF Tail1
<1>3. Def[v].idx \in Seq(Indices)
  BY DefinitionsAssumption DEF Geps
<1>4. Def[v].idx[2] \in Indices
  BY <1>3
<1> QED
  BY <1>2, <1>4 DEF parseIndex, Indices

\* A gep that is direct goes on along the route to its base.
LEMMA RouteGoesOn ==
  ASSUME NEW o, NEW path, NEW indices, NEW v \in Geps, DirectStep(v),
         Route(o, path, indices, Def[Def[v].base].pointee)
  PROVE  LET new == Tail1(Def[v].idx)
         IN  Route(o, IF Kind[Def[Def[v].base].pointee] = "struct" THEN path \o new ELSE path,
                   new \o indices, Def[v].pointee)
<1> DEFINE T == Def[Def[v].base].pointee
           U == Def[v].pointee
           x == parseIndex(Def[v].idx[2])
           m == Len(path)
<1>1. PICK t : Passes(o, path, t) /\ Selects(indices, path, t[m], T)
  BY DEF Route
<1>2. Tail1(Def[v].idx) = <<x>> /\ x \in Nat
  BY OneIndex DEF DirectStep
<1>3. /\ path \in Seq(Nat) /\ m \in Nat /\ indices \in Seq(Nat) /\ Len(indices) \in Nat
      /\ t \in [0 .. m -> Types] /\ T \in Types /\ U \in Types
  <2>1. v \in Values /\ Def[v].base \in Values
    BY OperandsAssumption DEF Geps
  <2>2. \A w \in Values : Def[w].pointee \in Types
    BY DefinitionsAssumption
  <2>3. path \in Seq(Nat) /\ indices \in Seq(Nat) /\ t \in [0 .. m -> Types]
    BY <1>1 DEF Passes, Selects
  <2> QED
    BY <2>1, <2>2, <2>3
<1>4. \/ /\ Kind[T] = "struct" /\ Def[v].idx[2] \in 0 .. Len(Elements[T]) - 1
         /\ U = FieldType(T, Def[v].idx[2])
      \/ Kind[T] = "array" /\ U = Elements[T][1]
  BY OperandsAssumption DEF Geps, DirectStep
<1> DEFINE ind == <<x>> \o indices
<1>5. /\ ind \in Seq(Nat) /\ Len(ind) = Len(indices) + 1 /\ ind[1] = x
      /\ \A i \in 0 .. Len(indices) - 1 : ind[Len(ind) - i] = indices[Len(indices) - i]
  BY <1>2, <1>3
<1> HIDE DEF x, T, U, m, ind
<1>6. CASE Kind[T] = "struct"
  <2> DEFINE n == m + 1
             longer == path \o <<x>>
             s == [i \in 0 .. n |-> IF i = n THEN U ELSE t[i]]
  <2>1. T \in StructTypes /\ ElementType[T] = T
    BY <1>3, <1>6, TypesStripped DEF StructTypes, Arrays
  <2>2. t[m] = T /\ Len(indices) = m /\ <<path, T>> \in PathNodes
    BY <1>1, <2>1 DEF Selects, Passes, m
  <2>3. x \in 0 .. Len(Elements[T]) - 1 /\ U = FieldType(T, x)
    <3>1. Def[v].idx[2] # Variable
      BY <1>4, <1>6, DefinitionsAssumption
    <3> QED
      BY <1>4, <1>6, <3>1 DEF x, parseIndex
  <2>4. /\ longer \in Seq(Nat) /\ Len(longer) = n /\ longer = Append(path, x)
        /\ longer[n] = x /\ \A i \in 1 .. m : longer[i] = path[i]
    BY <1>2, <1>3 DEF m
  <2>5. /\ Append(path, x) \in Paths
        /\ U \in StructTypes => <<Append(path, x), U>> \in PathNodes
    BY <2>2, <2>3, PathNodesDescribe DEF Describes
  <2>6. /\ s \in [0 .. n -> Types] /\ s[n] = U /\ s[0] = t[0]
        /\ \A i \in 0 .. m : s[i] = t[i]
    BY <1>3
  <2>7. Upto(longer, m) = path /\ \A i \in 0 .. m - 1 : Upto(longer, i) = Upto(path, i)
    <3>1. Upto(longer, m) = path
      BY <1>2, <1>3 DEF Upto, m
    <3>2. ASSUME NEW i \in 0 .. m - 1 PROVE Upto(longer, i) = Upto(path, i)
      BY <1>2, <1>3, <2>4 DEF Upto, m
    <3> QED
      BY <3>1, <3>2
  <2> HIDE DEF longer, s, n
  <2>n. n = m + 1
    BY DEF n
  <2>8. Passes(o, longer, s)
    <3>1. ASSUME NEW i \in 0 .. n - 1
          PROVE  /\ <<Upto(longer, i), s[i]>> \in PathNodes
                 /\ longer[i + 1] < Len(Elements[s[i]])
                 /\ s[i + 1] = FieldType(s[i], longer[i + 1])
      <4>1. CASE i = m
        <5>1. s[i] = T /\ longer[i + 1] = x /\ s[i + 1] = U /\ Upto(longer, i) = path
          BY <1>3, <2>2, <2>4, <2>6, <2>7, <2>n, <4>1
        <5>2. x < Len(Elements[T])
          <6>1. Len(Elements[T]) \in Nat
            BY <1>3, DefinitionsAssumption
          <6> QED
            BY <2>3, <6>1
        <5> QED
          BY <2>2, <2>3, <5>1, <5>2
      <4>2. CASE i # m
        <5>1. i \in 0 .. m - 1 /\ i \in 0 .. m /\ i + 1 \in 0 .. m /\ i + 1 \in 1 .. m
          BY <1>3, <2>n, <4>2
        <5>2. /\ <<Upto(path, i), t[i]>> \in PathNodes
              /\ path[i + 1] < Len(Elements[t[i]])
              /\ t[i + 1] = FieldType(t[i], path[i + 1])
          BY <1>1, <5>1 DEF Passes, m
        <5> QED
          BY <2>4, <2>6, <2>7, <5>1, <5>2
      <4> QED
        BY <4>1, <4>2
    <3>2. s[0] = Def[o].pointee
      BY <1>1, <2>6 DEF Passes
    <3> QED
      BY <2>4, <2>5, <2>6, <3>1, <3>2 DEF Passes
  <2>9. Selects(ind, longer, U, U)
    <3>1. Len(ind) = n /\ Len(longer) = n
      BY <1>5, <2>2, <2>4, <2>n
    <3>2. ASSUME NEW i \in 0 .. n - 1 PROVE ind[n - i] = longer[i + 1]
      <4>1. CASE i = m
        BY <1>3, <1>5, <2>4, <2>n, <4>1
      <4>2. CASE i # m
        <5>1. i \in 0 .. m - 1 /\ i + 1 \in 1 .. m
          BY <1>3, <2>n, <4>2
        <5>2. ind[n - i] = indices[m - i]
          BY <1>5, <2>2, <3>1, <5>1
        <5>3. indices[m - i] = path[i + 1]
          BY <1>1, <2>2, <5>1 DEF Selects, m
        <5> QED
          BY <2>4, <5>1, <5>2, <5>3
      <4> QED
        BY <4>1, <4>2
    <3>3. Sequential[U] = (n - n) + Sequential[U]
      <4>1. Sequential[U] \in Nat /\ n \in Nat
        BY <1>3, <2>n, SequentialCounts
      <4> QED
        BY <4>1
    <3>4. ElementType[U] \in StructTypes => U \in StructTypes
      <4>1. Kind[U] = "array" => ElementType[U] \notin StructTypes
        BY DEF DirectStep, U
      <4>2. Kind[U] # "array" => ElementType[U] = U
        BY <1>3, TypesStripped DEF Arrays
      <4> QED
        BY <4>1, <4>2
    <3>5. n <= n /\ n \in Nat
      BY <1>3, <2>n
    <3> QED
      BY <1>5, <3>1, <3>2, <3>3, <3>4, <3>5 DEF Selects
  <2>10. Route(o, longer, ind, U)
    BY <2>4, <2>6, <2>8, <2>9 DEF Route
  <2> QED
    BY <1>2, <1>6, <2>10 DEF longer, ind, T, U
<1>7. CASE Kind[T] = "array"
  <2>1. Kind[T] # "struct" /\ T \in Arrays /\ U = Elements[T][1]
    BY <1>3, <1>4, <1>7 DEF Arrays
  <2>2. Sequential[T] = 1 + Sequential[U] /\ ElementType[T] = ElementType[U]
    BY <1>3, <1>7, <2>1, TypesStripped, SequentialCounts
  <2>3. ElementType[U] \notin StructTypes
    <3>1. T \notin StructTypes
      BY <2>1 DEF StructTypes
    <3> QED
      BY <1>1, <2>2, <3>1 DEF Selects
  <2>4. Selects(ind, path, t[m], U)
    <3>1. m <= Len(indices) /\ \A i \in 0 .. m - 1 : indices[Len(indices) - i] = path[i + 1]
      BY <1>1 DEF Selects, m
    <3>2. /\ Sequential[t[m]] = (Len(indices) - m) + Sequential[T]
          /\ ElementType[t[m]] = ElementType[T]
      BY <1>1 DEF Selects, m
    <3>3. Sequential[U] \in Nat /\ Sequential[T] \in Nat
      BY <1>3, SequentialCounts
    <3>4. Sequential[t[m]] = (Len(ind) - m) + Sequential[U]
      BY <1>3, <1>5, <2>2, <3>2, <3>3
    <3>5. ASSUME NEW i \in 0 .. m - 1 PROVE ind[Len(ind) - i] = path[i + 1]
      <4>1. i \in 0 .. Len(indices) - 1
        BY <1>3, <3>1
      <4> QED
        BY <1>5, <3>1, <4>1
    <3>6. m <= Len(ind)
      BY <1>3, <1>5, <3>1
    <3> QED
      BY <1>5, <2>2, <2>3, <3>2, <3>4, <3>5, <3>6 DEF Selects, m
  <2>5. Route(o, path, ind, U)
    BY <1>1, <2>4 DEF Route, m
  <2> QED
    BY <1>2, <2>1, <2>5 DEF ind, T, U
<1> QED
  BY <1>4, <1>6, <1>7

\* A number inside arrays is what the metadata take it for.
LEMMA ElementsAreNumbers ==
  \A T \in Types : Kind[ElementType[T]] = "scalar" => getElementStructType[T] = ElementType[T]
<1> DEFINE N == {T \in Types : Kind[ElementType[T]] = "scalar" => getElementStructType[T] = ElementType[T]}
           inner == [T \in Arrays |-> Elements[T][1]]
<1>1. Arrays \in SUBSET Types /\ inner \in [Arrays -> Types] /\ Acyclic(Arrays, inner)
  BY InnerTypes DEF Arrays
<1>2. Types \ Arrays \subseteq N
  <2> SUFFICES ASSUME NEW T \in Types \ Arrays, Kind[ElementType[T]] = "scalar"
               PROVE  getElementStructType[T] = ElementType[T]
    OBVIOUS
  <2>1. ElementType[T] = T
    BY TypesStripped
  <2>2. T \notin Wrapped
    BY <2>1 DEF Wrapped
  <2> QED
    BY <2>1, <2>2, TypesStripped
<1>3. \A T \in Arrays : inner[T] \in N => T \in N
  <2> TAKE T \in Arrays
  <2>1. T \in Types /\ T \in Wrapped /\ inner[T] = Elements[T][1]
    BY DEF Arrays, Wrapped
  <2>2. ElementType[T] = ElementType[Elements[T][1]]
    BY <2>1, TypesStripped
  <2>3. getElementStructType[T] = getElementStructType[Elements[T][1]]
    BY <2>1, TypesStripped
  <2> QED
    BY <2>1, <2>2, <2>3
<1>4. Types \subseteq N
  <2> HIDE DEF N, inner
  <2> QED
    BY <1>1, <1>2, <1>3, ChainInduction
<1> QED
  BY <1>4

\* A tree of object v holds the types along a path down to a number, as far as it
\* goes, and at the end no StructNode.
LEMMA TreeAlongPath ==
  ASSUME NEW v, NEW path, NEW t, Passes(v, path, t), Kind[ElementType[t[Len(path)]]] = "scalar",
         NEW tree, IsTree(tree), tree[<<>>] = Def[v].pointee, Def[v].pointee \in StructTypes
  PROVE  /\ Len(path) \in Nat \ {0}
         /\ \A i \in 0 .. Len(path) - 1 :
              /\ t[i] \in StructTypes
              /\ tree[Upto(path, i)] \in {t[i], Absent}
              /\ tree[Upto(path, i)] = Absent => tree[path] = Absent
         /\ tree[path] \in Entries \cup {Absent}
<1> DEFINE m == Len(path)
<1> USE ContentsDiffer
<1>1. path \in Seq(Nat) /\ m \in Nat /\ t \in [0 .. m -> Types] /\ t[0] = Def[v].pointee
  BY DEF Passes
<1>2. m # 0
  <2> SUFFICES ASSUME m = 0 PROVE FALSE
    OBVIOUS
  <2>1. t[m] \in StructTypes
    BY <1>1
  <2>2. ElementType[t[m]] = t[m]
    BY <2>1, TypesStripped DEF StructTypes, Arrays
  <2> QED
    BY <2>1, <2>2 DEF StructTypes
<1>3. \A i \in 0 .. m - 1 : /\ t[i] \in StructTypes /\ path[i + 1] < Len(Elements[t[i]])
                            /\ t[i + 1] = FieldType(t[i], path[i + 1])
  BY PathNodesDescribe DEF Passes
<1>4. \A i \in 0 .. m : Upto(path, i) \in Paths
  BY PassesPaths
<1>5. \A i \in 0 .. m - 1 : /\ Upto(path, i + 1) \in Paths \ {<<>>}
                            /\ Front(Upto(path, i + 1)) = Upto(path, i)
                            /\ Last(Upto(path, i + 1)) = path[i + 1]
  <2> TAKE i \in 0 .. m - 1
  <2>0. i + 1 \in 0 .. m /\ i \in 0 .. m
    BY <1>1
  <2>1. /\ Upto(path, i + 1) = Append(Upto(path, i), path[i + 1]) /\ path[i + 1] \in Nat
        /\ i + 1 \in 0 .. m
    BY <1>1, <2>0, PathsUpto
  <2>2. Upto(path, i) \in Seq(Nat)
    BY <1>1, <2>0, PathsUpto
  <2> QED
    BY <1>4, <2>1, <2>2, AppendedEnds
<1>6. ASSUME NEW i \in 0 .. m - 1
      PROVE  tree[Upto(path, i + 1)] # Absent =>
               /\ tree[Upto(path, i)] \in StructTypes
               /\ tree[Upto(path, i)] = t[i] =>
                    /\ tree[Upto(path, i + 1)] \in StructTypes =>
                         tree[Upto(path, i + 1)] = getElementStructType[t[i + 1]]
                    /\ tree[Upto(path, i + 1)] \in Entries => t[i + 1] \notin StructTypes
  <2> HAVE tree[Upto(path, i + 1)] # Absent
  <2>1. Fits(tree[Front(Upto(path, i + 1))], Upto(path, i + 1), tree[Upto(path, i + 1)])
    BY <1>5 DEF IsTree, FieldsTyped
  <2>2. Fits(tree[Upto(path, i)], Upto(path, i + 1), tree[Upto(path, i + 1)])
    BY <1>5, <2>1
  <2> QED
    BY <1>3, <1>5, <2>2 DEF Fits
<1>7. \A p \in Paths : tree[p] \in StructTypes \cup Entries \cup {Absent}
  BY DEF IsTree, Trees
<1> DEFINE S == {i \in 0 .. m - 1 : tree[Upto(path, i)] \in {t[i], Absent}}
<1>8. \A i \in 0 .. m - 1 : i \in S
  <2>1. 0 \in S
    BY <1>1, <1>2, PathsUpto
  <2>2. ASSUME NEW i \in 0 .. m - 1, i + 1 \in 0 .. m - 1, i \in S PROVE i + 1 \in S
    <3> SUFFICES ASSUME tree[Upto(path, i + 1)] # Absent PROVE tree[Upto(path, i + 1)] = t[i + 1]
      BY <2>2
    <3>1. /\ tree[Upto(path, i)] = t[i]
          /\ tree[Upto(path, i + 1)] \in StructTypes => tree[Upto(path, i + 1)] = getElementStructType[t[i + 1]]
          /\ tree[Upto(path, i + 1)] \in Entries => t[i + 1] \notin StructTypes
      BY <1>6, <2>2
    <3>2. t[i + 1] \in StructTypes /\ Upto(path, i + 1) \in Paths
      BY <1>3, <1>5, <2>2
    <3>3. getElementStructType[t[i + 1]] = t[i + 1]
      BY <3>2, TypesStripped DEF StructTypes, Wrapped
    <3> QED
      BY <1>7, <3>1, <3>2, <3>3
  <2>3. m - 1 \in Nat
    BY <1>1, <1>2
  <2> HIDE DEF S, m
  <2> QED
    BY <2>1, <2>2, <2>3, InductionUpTo
<1> DEFINE A == {i \in 0 .. m : \A h \in 0 .. i : tree[Upto(path, h)] = Absent => tree[Upto(path, i)] = Absent}
<1>9. \A i \in 0 .. m : i \in A
  <2>1. 0 \in A
    BY <1>1
  <2>2. ASSUME NEW i \in 0 .. m, i + 1 \in 0 .. m, i \in A PROVE i + 1 \in A
    <3> SUFFICES ASSUME NEW h \in 0 .. i + 1, tree[Upto(path, h)] = Absent
                 PROVE  tree[Upto(path, i + 1)] = Absent
      BY <2>2
    <3>1. CASE h = i + 1
      BY <3>1
    <3>2. CASE h \in 0 .. i
      <4>1. tree[Upto(path, i)] = Absent /\ i \in 0 .. m - 1
        BY <1>1, <2>2, <3>2
      <4> QED
        BY <1>6, <4>1
    <3> QED
      BY <1>1, <3>1, <3>2
  <2> HIDE DEF A, m
  <2> QED
    BY <1>1, <2>1, <2>2, InductionUpTo
<1>10. Upto(path, m) = path /\ m \in 0 .. m
  BY <1>1, PathsUpto
<1>11. tree[path] \notin StructTypes
  <2> SUFFICES ASSUME tree[path] \in StructTypes PROVE FALSE
    OBVIOUS
  <2>1. m - 1 \in 0 .. m - 1 /\ (m - 1) + 1 = m
    BY <1>1, <1>2
  <2>2. tree[Upto(path, (m - 1) + 1)] # Absent
    BY <1>10, <2>1
  <2>3. tree[Upto(path, m - 1)] = t[m - 1]
    BY <1>6, <1>8, <2>1, <2>2
  <2>4. tree[path] = getElementStructType[t[m]]
    BY <1>6, <1>10, <2>1, <2>2, <2>3
  <2>5. t[m] \in Types
    BY <1>1
  <2>6. tree[path] = ElementType[t[m]]
    BY <2>4, <2>5, ElementsAreNumbers
  <2> QED
    BY <2>6 DEF StructTypes
<1>12. path \in Paths
  BY PassesPaths
<1>13. \A i \in 0 .. m - 1 : tree[Upto(path, i)] = Absent => tree[path] = Absent
  <2> TAKE i \in 0 .. m - 1
  <2>1. m \in A
    <3> HIDE DEF A, m
    <3> QED
      BY <1>9, <1>10
  <2>2. \A h \in 0 .. m : tree[Upto(path, h)] = Absent => tree[Upto(path, m)] = Absent
    BY <2>1
  <2>3. i \in 0 .. m
    <3> HIDE DEF m
    <3> QED
      BY <1>1
  <2>4. tree[Upto(path, i)] = Absent => tree[Upto(path, m)] = Absent
    BY <2>2, <2>3
  <2> QED
    BY <1>10, <2>4
<1> QED
  BY <1>1, <1>2, <1>3, <1>7, <1>8, <1>11, <1>12, <1>13

\* What a walk to a number does: it fails nowhere, finds the field at the end of
\* the path or nothing there, and makes only nodes above it.
Reaches(tree, path, Create, way) ==
  /\ way.trap = FALSE
  /\ way.at = IF ~Create /\ tree[path] = Absent THEN Null ELSE path
  /\ \A x \in way.made : x[2] \in StructTypes \/ x[1] = path

\* One step of it.
LEMMA StepsAlong ==
  ASSUME NEW v, NEW path, NEW t, Passes(v, path, t), NEW T \in Types, Kind[T] = "scalar",
         NEW indices, Selects(indices, path, t[Len(path)], T),
         NEW tree, IsTree(tree), tree[<<>>] = Def[v].pointee, Def[v].pointee \in StructTypes,
         NEW Create \in BOOLEAN, NEW rest \in [Nodes -> Outcomes], NEW i \in 0 .. Len(path) - 1,
         i + 1 < Len(path) =>
           Reaches(tree, path, Create,
                   rest[[path |-> Upto(path, i + 1), type |-> t[i + 1], indices |-> But(indices, i + 1)]])
  PROVE  LET node == [path |-> Upto(path, i), type |-> t[i], indices |-> But(indices, i)]
         IN  node \in Nodes /\ Reaches(tree, path, Create, navigateStructTree(tree, Create, rest)[node])
<1> DEFINE m == Len(path)
           node == [path |-> Upto(path, i), type |-> t[i], indices |-> But(indices, i)]
           way == navigateStructTree(tree, Create, rest)[node]
           c == Last(node.indices)
           left == Front(node.indices)
           child == Append(node.path, c)
           F == FieldType(node.type, c)
           E == ElementType[F]
           arrays == Sequential[F]
           below(S, ind) == [path |-> child, type |-> S, indices |-> ind]
<1> USE ContentsDiffer
<1>1. /\ path \in Seq(Nat) /\ m \in Nat /\ t \in [0 .. m -> Types] /\ indices \in Seq(Nat)
      /\ Len(indices) \in Nat /\ m <= Len(indices) /\ i \in Nat /\ i < m
  <2>1. path \in Seq(Nat) /\ t \in [0 .. m -> Types]
    BY DEF Passes
  <2>2. indices \in Seq(Nat) /\ m <= Len(indices)
    BY DEF Selects
  <2>3. m \in Nat /\ Len(indices) \in Nat
    BY <2>1, <2>2
  <2>4. i \in 0 .. m - 1
    OBVIOUS
  <2> HIDE DEF m
  <2>5. i \in Nat /\ i < m
    BY <2>3, <2>4
  <2> QED
    BY <2>1, <2>2, <2>3, <2>5
<1>2. Kind[ElementType[t[m]]] = "scalar" /\ Sequential[t[m]] = Len(indices) - m
  <2>1. ElementType[T] = T /\ Sequential[T] = 0
    BY TypesStripped, SequentialCounts DEF Arrays
  <2> QED
    BY <1>1, <2>1 DEF Selects
<1>3. /\ \A h \in 0 .. m - 1 : /\ t[h] \in StructTypes /\ tree[Upto(path, h)] \in {t[h], Absent}
                               /\ tree[Upto(path, h)] = Absent => tree[path] = Absent
      /\ tree[path] \in Entries \cup {Absent}
  BY <1>2, TreeAlongPath
<1>4. /\ c = path[i + 1] /\ left = But(indices, i + 1) /\ child = Upto(path, i + 1)
      /\ node.indices # <<>> /\ node \in Nodes /\ left \in Seq(Nat) /\ Len(left) = Len(indices) - (i + 1)
  <2>1. i \in 0 .. Len(indices) - 1 /\ i \in 0 .. Len(indices) /\ i + 1 \in 0 .. Len(indices) /\ i \in 0 .. m
    <3> DEFINE n == Len(indices)
    <3>1. n \in Nat /\ m \in Nat /\ m <= n /\ i \in Nat /\ i < m
      BY <1>1
    <3> HIDE DEF n, m
    <3>2. i \in 0 .. n - 1 /\ i \in 0 .. n /\ i + 1 \in 0 .. n /\ i \in 0 .. m
      BY <3>1
    <3> QED
      BY <3>2 DEF n
  <2>2. /\ But(indices, i) # <<>> /\ Last(But(indices, i)) = indices[Len(indices) - i]
        /\ Front(But(indices, i)) = But(indices, i + 1)
        /\ But(indices, i) \in Seq(Nat) /\ But(indices, i + 1) \in Seq(Nat)
        /\ Len(But(indices, i + 1)) = Len(indices) - (i + 1)
    BY <1>1, <2>1, IndicesBut
  <2>3. indices[Len(indices) - i] = path[i + 1]
    BY DEF Selects
  <2>4. Upto(path, i + 1) = Append(Upto(path, i), path[i + 1]) /\ Upto(path, i) \in Seq(Nat)
    BY <1>1, <2>1, PathsUpto
  <2>5. node \in Nodes
    BY <1>3, <2>2, <2>4 DEF Nodes
  <2> QED
    BY <2>2, <2>3, <2>4, <2>5
<1>5. F = t[i + 1] /\ c \in 0 .. Len(Elements[node.type]) - 1
  <2>1. path[i + 1] < Len(Elements[t[i]]) /\ t[i + 1] = FieldType(t[i], path[i + 1])
    BY DEF Passes
  <2>2. Len(Elements[t[i]]) \in Nat
    <3>1. i \in 0 .. m
      BY <1>1
    <3>2. t[i] \in Types
      BY <1>1, <3>1
    <3> QED
      BY <3>2, DefinitionsAssumption
  <2>3. path[i + 1] \in Nat
    BY <1>1, PathsUpto
  <2> QED
    BY <1>4, <2>1, <2>2, <2>3
<1>6. way = IF At(tree, child) \in StructTypes THEN rest[below(tree[child], left)]
            ELSE IF At(tree, child) # Absent THEN Found(child, {})
            ELSE IF ~Create THEN NotFound({})
            ELSE IF c \notin 0 .. Len(Elements[node.type]) - 1 THEN Trap
            ELSE IF Len(left) < arrays THEN NotFound({})
            ELSE IF E \notin StructTypes THEN Found(child, {<<child, NoErr>>})
            ELSE [rest[below(E, SubSeq(left, 1, Len(left) - arrays))]
                    EXCEPT !.made = @ \cup {<<child, E>>}]
  BY <1>4 DEF navigateStructTree
<1>7. At(tree, child) = tree[child]
  <2>1. i + 1 \in 0 .. m
    BY <1>1
  <2>2. child \in Paths
    BY <1>4, <2>1, PassesPaths
  <2> QED
    BY <2>2 DEF At
<1> SUFFICES Reaches(tree, path, Create, way)
  BY <1>4
<1>8. CASE i + 1 = m
  <2>1. child = path
    BY <1>1, <1>4, <1>8, PathsUpto
  <2>2. /\ arrays = Len(left) /\ ~(Len(left) < arrays)
    <3>1. Len(left) = Len(indices) - m /\ arrays = Len(indices) - m
      BY <1>2, <1>4, <1>5, <1>8
    <3>2. Len(indices) - m \in Nat
      BY <1>1
    <3> HIDE DEF left, arrays
    <3> QED
      BY <3>1, <3>2
  <2>3. E \notin StructTypes
    BY <1>2, <1>5, <1>8 DEF StructTypes
  <2>4. tree[path] \notin StructTypes
    BY <1>3
  <2> HIDE DEF way, child, c, left, arrays, E
  <2>5. way = IF tree[path] # Absent THEN Found(path, {})
              ELSE IF ~Create THEN NotFound({})
              ELSE Found(path, {<<path, NoErr>>})
    BY <1>5, <1>6, <1>7, <2>1, <2>2, <2>3, <2>4
  <2> QED
    BY <2>5 DEF Reaches, Found, NotFound
<1>9. CASE i + 1 < m
  <2> DEFINE next == [path |-> Upto(path, i + 1), type |-> t[i + 1], indices |-> But(indices, i + 1)]
  <2>1. i + 1 \in 0 .. m - 1
    <3>1. m \in Nat /\ i \in Nat /\ i + 1 < m
      BY <1>1, <1>9
    <3> HIDE DEF m
    <3> QED
      BY <3>1
  <2>2. t[i + 1] \in StructTypes /\ tree[child] \in {t[i + 1], Absent}
        /\ (tree[child] = Absent => tree[path] = Absent)
    BY <1>3, <1>4, <2>1
  <2>3. E = t[i + 1] /\ arrays = 0
    <3>1. t[i + 1] \in Types /\ t[i + 1] \notin Arrays
      BY <2>2 DEF StructTypes, Arrays
    <3> QED
      BY <1>5, <3>1, TypesStripped, SequentialCounts
  <2>4. SubSeq(left, 1, Len(left) - arrays) = left /\ ~(Len(left) < arrays)
    <3>1. Len(left) \in Nat /\ left \in Seq(Nat)
      BY <1>4
    <3>2. SubSeq(left, 1, Len(left)) = left
      BY <3>1
    <3>3. Len(left) - 0 = Len(left)
      BY <3>1
    <3> HIDE DEF left, arrays
    <3> QED
      BY <2>3, <3>1, <3>2, <3>3
  <2>5. next = below(t[i + 1], left)
    BY <1>4
  <2>6. Reaches(tree, path, Create, rest[next])
    BY <1>9
  <2>7. next \in Nodes
    BY <1>1, <1>4, <2>2, AppendedEnds, PathsUpto DEF Nodes
  <2> DEFINE more == rest[next]
  <2>8. more \in Outcomes
    BY <2>7
  <2>9. way = IF tree[child] # Absent THEN more
              ELSE IF ~Create THEN NotFound({})
              ELSE [more EXCEPT !.made = @ \cup {<<child, t[i + 1]>>}]
    <3> HIDE DEF way, child, c, left, arrays, E, next
    <3> QED
      BY <1>5, <1>6, <1>7, <2>2, <2>3, <2>4, <2>5
  <2> HIDE DEF way, child, more
  <2>10. CASE tree[child] # Absent
    BY <2>6, <2>9, <2>10 DEF more
  <2>11. CASE tree[child] = Absent /\ ~Create
    BY <2>2, <2>9, <2>11 DEF Reaches, NotFound
  <2>12. CASE tree[child] = Absent /\ Create
    <3>1. /\ way.trap = more.trap /\ way.at = more.at
          /\ way.made = more.made \cup {<<child, t[i + 1]>>}
      BY <2>8, <2>9, <2>12 DEF Outcomes
    <3>2. Reaches(tree, path, Create, more)
      BY <2>6 DEF more
    <3> QED
      BY <2>2, <3>1, <3>2 DEF Reaches
  <2> QED
    BY <2>10, <2>11, <2>12
<1> QED
  BY <1>1, <1>8, <1>9

\* A tree with a root of the type of object v.
RootedTree(v, tree) == IsTree(tree) /\ tree[<<>>] = Def[v].pointee /\ Def[v].pointee \in StructTypes

Arrives(tree, path, indices, Create) ==
  /\ Reaches(tree, path, Create, getFieldNode(tree, indices, Create))
  /\ path \in Paths \ {<<>>} /\ tree[path] \in Entries \cup {Absent}

\* A walk along the route to a number gets there.
LEMMA RoutesReach ==
  ASSUME NEW v, NEW path, NEW T, T \in Types, Kind[T] = "scalar", NEW indices, Route(v, path, indices, T),
         NEW tree, RootedTree(v, tree), NEW Create \in BOOLEAN
  PROVE  Arrives(tree, path, indices, Create)
<1>0. IsTree(tree) /\ tree[<<>>] = Def[v].pointee /\ Def[v].pointee \in StructTypes
  BY DEF RootedTree
<1>1. PICK t : Passes(v, path, t) /\ Selects(indices, path, t[Len(path)], T)
  BY DEF Route
<1> DEFINE m == Len(path)
           Node(i) == [path |-> Upto(path, i), type |-> t[i], indices |-> But(indices, i)]
<1>2. Kind[ElementType[t[m]]] = "scalar"
  <2>1. ElementType[T] = T
    BY TypesStripped DEF Arrays
  <2> QED
    BY <1>1, <2>1 DEF Selects
<1>3. m \in Nat \ {0} /\ tree[path] \in Entries \cup {Absent}
  BY <1>0, <1>1, <1>2, TreeAlongPath
<1>4. PICK from : /\ WalkDown(tree, Create, from)
                  /\ \A ind \in Seq(Nat) :
                       getFieldNode(tree, ind, Create) =
                         from[Len(ind)][[path |-> <<>>, type |-> tree[<<>>], indices |-> ind]]
  BY <1>0, FieldNodeSteps DEF IsTree
<1> DEFINE S == {n \in Nat : \A i \in 0 .. m - 1 : m - i <= n => Reaches(tree, path, Create, from[n][Node(i)])}
<1>5. 0 \in S
  BY <1>3
<1>6. ASSUME NEW n \in Nat, n \in S PROVE n + 1 \in S
  <2> SUFFICES ASSUME NEW i \in 0 .. m - 1, m - i <= n + 1
               PROVE  Reaches(tree, path, Create, from[n + 1][Node(i)])
    OBVIOUS
  <2>1. from[n] \in [Nodes -> Outcomes] /\ from[n + 1] = navigateStructTree(tree, Create, from[n])
    BY <1>4 DEF WalkDown
  <2>2. i + 1 < m => i + 1 \in 0 .. m - 1 /\ m - (i + 1) <= n
    BY <1>3
  <2>3. i + 1 < m => Reaches(tree, path, Create, from[n][Node(i + 1)])
    BY <1>6, <2>2
  <2> DEFINE rest == from[n]
  <2>4. Reaches(tree, path, Create, navigateStructTree(tree, Create, rest)[Node(i)])
    <3>1. rest \in [Nodes -> Outcomes]
      BY <2>1
    <3> HIDE DEF rest
    <3> QED
      BY <1>0, <1>1, <2>3, <3>1, StepsAlong DEF rest
  <2> QED
    BY <2>1, <2>4
<1>7. \A n \in Nat : n \in S
  <2> HIDE DEF S
  <2> QED
    BY <1>5, <1>6, InductionOverNat
<1>8. indices \in Seq(Nat) /\ Len(indices) \in Nat /\ m <= Len(indices) /\ path \in Seq(Nat) /\ t[0] = Def[v].pointee
  BY <1>1 DEF Selects, Passes
<1>9. Node(0) = [path |-> <<>>, type |-> tree[<<>>], indices |-> indices]
  BY <1>0, <1>8, PathsUpto, IndicesBut
<1>10. Reaches(tree, path, Create, from[Len(indices)][Node(0)])
  <2>1. 0 \in 0 .. m - 1 /\ m - 0 <= Len(indices) /\ Len(indices) \in S
    BY <1>3, <1>7, <1>8
  <2> QED
    BY <2>1
<1>11. path \in Paths /\ path # <<>>
  BY <1>1, <1>3, PassesPaths
<1> QED
  BY <1>3, <1>4, <1>8, <1>9, <1>10, <1>11 DEF Arrives

\* The walker finds the object that place says, and the way to the field there.
Finds(bind, place, P) ==
  LET way == retrieveRootPointer(bind, P)
  IN  /\ way.root = place[1] /\ ~way.endless /\ place[1] \in Values /\ DirectRoot(place[1])
      /\ Route(place[1], place[2], way.indices, Def[P].pointee)

LEMMA RootsAreObjects ==
  ASSUME NEW v \in Values, DirectRoot(v)
  PROVE  /\ v \in Objects /\ Def[v].pointee \in StructTypes /\ Def[v].kind # "aggregate" /\ v # Null
         /\ getElementStructType[Def[v].pointee] = Def[v].pointee
<1>1. Def[v].pointee \in Types /\ v # Null
  BY DefinitionsAssumption
<1>2. Def[v].pointee \in StructTypes
  BY <1>1 DEF DirectRoot, StructTypes
<1>3. Def[v].pointee \notin Wrapped
  BY DEF DirectRoot, Wrapped
<1> QED
  BY <1>1, <1>2, <1>3, TypesStripped DEF DirectRoot, Objects

\* A load of a number on its way finds what the tree says, and does not fail.
LEMMA LoadFinds ==
  ASSUME NEW trees, GoodTrees(trees), NEW bind, NEW place, NEW P \in Values, Finds(bind, place, P),
         Kind[Def[P].pointee] = "scalar"
  PROVE  /\ getFieldError(trees, bind, P) = [entry |-> EntryAt(trees[place[1]], place[2]), trap |-> FALSE]
         /\ place[2] \in Paths
<1> DEFINE way == retrieveRootPointer(bind, P)
           o == place[1]
           path == place[2]
           T == Def[P].pointee
           tree == trees[o]
           field == getFieldNode(tree, way.indices, FALSE)
<1> USE ContentsDiffer
<1>1. way.root = o /\ ~way.endless /\ o \in Values /\ DirectRoot(o) /\ Route(o, path, way.indices, T)
  BY DEF Finds
<1>2. o \in Objects /\ Def[o].pointee \in StructTypes /\ o # Null
      /\ getElementStructType[Def[o].pointee] = Def[o].pointee
  BY <1>1, RootsAreObjects
<1>3. T \in Types /\ Kind[T] = "scalar"
  BY DefinitionsAssumption
<1>4. ASSUME NEW bare, RootedTree(o, bare), NEW Create \in BOOLEAN
      PROVE  Arrives(bare, path, way.indices, Create)
  <2> DEFINE ind == way.indices
  <2>1. Route(o, path, ind, T)
    BY <1>1
  <2> HIDE DEF way, ind, o, path, T
  <2>2. Arrives(bare, path, ind, Create)
    BY <1>3, <1>4, <2>1, RoutesReach
  <2> QED
    BY <2>2 DEF ind
<1>5. path \in Paths
  <2>1. RootedTree(o, makeRoot(o))
    BY <1>1, <1>2, BareTrees DEF IsTreeOf, RootedTree
  <2> HIDE DEF path
  <2> QED
    BY <1>4, <2>1 DEF Arrives
<1>6. CASE tree = NoTree
  <2>1. EntryAt(tree, path) = Absent
    BY <1>5, <1>6 DEF EntryAt, NoTree
  <2>2. getFieldError(trees, bind, P) = [entry |-> Absent, trap |-> FALSE]
    BY <1>1, <1>6 DEF getFieldError
  <2> QED
    BY <1>5, <2>1, <2>2
<1>7. CASE tree # NoTree
  <2>1. RootedTree(o, tree)
    BY <1>2, <1>7 DEF GoodTrees, IsTreeOf, RootedTree
  <2> HIDE DEF tree, path
  <2>2. Reaches(tree, path, FALSE, field) /\ tree[path] \in Entries \cup {Absent}
    BY <1>4, <2>1 DEF Arrives
  <2>3. field.trap = FALSE /\ field.at = IF tree[path] = Absent THEN Null ELSE path
    BY <2>2 DEF Reaches
  <2>4. path # Null /\ tree[path] \notin StructTypes
    BY <1>5, <2>2, BoundsAssumption
  <2>5. getFieldError(trees, bind, P) =
          [entry |-> IF field.at = Null THEN Absent ELSE tree[field.at], trap |-> field.trap]
    BY <1>1, <1>2, <1>7 DEF getFieldError, tree
  <2> HIDE DEF field
  <2>6. (IF field.at = Null THEN Absent ELSE tree[field.at]) = tree[path]
    BY <2>3, <2>4
  <2>7. EntryAt(tree, path) = tree[path]
    BY <2>4 DEF EntryAt
  <2>8. getFieldError(trees, bind, P) = [entry |-> EntryAt(tree, path), trap |-> FALSE]
    BY <2>3, <2>5, <2>6, <2>7
  <2> QED
    BY <1>5, <2>8 DEF tree, path
<1> QED
  BY <1>6, <1>7

\* The tree that a store works on.
TreeFor(trees, o) == IF trees[o] = NoTree THEN makeRoot(o) ELSE trees[o]

\* Only the tree of one object differs, and no tree got lost.
OthersKept(after, trees, root) ==
  \A v \in Objects : /\ v # root => after[v] = trees[v]
                     /\ after[v] = NoTree => trees[v] = NoTree

\* Whatever a store does, it does to the object it finds.
LEMMA StoreElsewhere ==
  ASSUME NEW trees, GoodTrees(trees), NEW bind, NEW P \in Values, NEW e \in Entries
  PROVE  OthersKept(setFieldError(trees, bind, P, e).trees, trees, retrieveRootPointer(bind, P).root)
<1> DEFINE way == retrieveRootPointer(bind, P)
           o == way.root
           tree == TreeFor(trees, o)
           field == getFieldNode(tree, way.indices, TRUE)
           grown == WithNodes(tree, field.made)
           last == IF field.at = Null THEN grown ELSE [grown EXCEPT ![field.at] = e]
           result == setFieldError(trees, bind, P, e)
<1> USE ContentsDiffer
<1>1. o \in Objects \cup {Null} /\ way.indices \in Seq(Nat) /\ trees \in [Objects -> Trees]
  BY WaysToObjects DEF GoodTrees
<1>2. CASE way.endless \/ (o # Null /\ trees[o] = NoTree /\ Def[o].kind = "aggregate") \/ o = Null
  BY <1>2 DEF setFieldError, OthersKept
<1>3. CASE ~way.endless /\ ~(o # Null /\ trees[o] = NoTree /\ Def[o].kind = "aggregate") /\ o # Null
  <2>1. result.trees = [trees EXCEPT ![o] = last]
    BY <1>3 DEF setFieldError, TreeFor
  <2>2. o \in Objects
    BY <1>1, <1>3
  <2>3. IsTree(tree) /\ tree[<<>>] \in StructTypes
    <3>1. CASE trees[o] = NoTree
      <4>1. o \in Values /\ Def[o].pointee \in StructTypes
        BY <1>3, <2>2, <3>1 DEF Objects
      <4> QED
        BY <3>1, <4>1, BareTrees DEF IsTreeOf, TreeFor
    <3>2. CASE trees[o] # NoTree
      BY <2>2, <3>2 DEF GoodTrees, IsTree, IsTreeOf, TreeFor
    <3> QED
      BY <3>1, <3>2
  <2> HIDE DEF way, o, tree
  <2>4. field \in Outcomes /\ Sound(tree, [path |-> <<>>, type |-> tree[<<>>], indices |-> way.indices], field)
    BY <1>1, <2>3, FieldNodeSound DEF IsTree
  <2> HIDE DEF field
  <2>5. last[<<>>] = tree[<<>>]
    BY <2>3, <2>4, GrownIsTree
  <2>6. last # NoTree
    BY <2>3, <2>5 DEF NoTree
  <2> HIDE DEF last
  <2>7. \A v \in Objects : result.trees[v] = IF v = o THEN last ELSE trees[v]
    BY <1>1, <2>1, <2>2
  <2> QED
    BY <2>6, <2>7 DEF o, way, OthersKept
<1> QED
  BY <1>2, <1>3

\* What a tree says of a field was changed, and nothing else.
Tells(result, trees, place, e) ==
  /\ result.trap = FALSE
  /\ result.trees[place[1]] # NoTree
  /\ \A p \in Paths : EntryAt(result.trees[place[1]], p) =
                      IF p = place[2] THEN e ELSE EntryAt(trees[place[1]], p)

\* A store of a number on its way changes what the tree says of that field, and
\* nothing else.
LEMMA StoreTells ==
  ASSUME NEW trees, GoodTrees(trees), NEW bind, NEW place, NEW P \in Values, Finds(bind, place, P),
         Kind[Def[P].pointee] = "scalar", NEW e \in Nat
  PROVE  Tells(setFieldError(trees, bind, P, e), trees, place, e)
<1> DEFINE way == retrieveRootPointer(bind, P)
           o == place[1]
           path == place[2]
           T == Def[P].pointee
           tree == TreeFor(trees, o)
           ind == way.indices
           field == getFieldNode(tree, ind, TRUE)
           made == field.made
           grown == WithNodes(tree, made)
           last == [grown EXCEPT ![path] = e]
           result == setFieldError(trees, bind, P, e)
<1> USE ContentsDiffer
<1>1. way.root = o /\ ~way.endless /\ o \in Values /\ DirectRoot(o) /\ Route(o, path, ind, T)
  BY DEF Finds
<1>2. o \in Objects /\ Def[o].pointee \in StructTypes /\ Def[o].kind # "aggregate" /\ o # Null
      /\ getElementStructType[Def[o].pointee] = Def[o].pointee
  BY <1>1, RootsAreObjects
<1>3. T \in Types /\ Kind[T] = "scalar" /\ ind \in Seq(Nat) /\ trees \in [Objects -> Trees]
  BY DefinitionsAssumption, WaysToObjects DEF GoodTrees
<1>4. RootedTree(o, tree) /\ \A p \in Paths : EntryAt(tree, p) = EntryAt(trees[o], p)
  <2>1. CASE trees[o] = NoTree
    <3>1. \A p \in Paths : EntryAt(NoTree, p) = Absent
      BY DEF EntryAt, NoTree
    <3> QED
      BY <1>1, <1>2, <2>1, <3>1, BareTrees DEF IsTreeOf, RootedTree, TreeFor
  <2>2. CASE trees[o] # NoTree
    BY <1>2, <2>2 DEF GoodTrees, IsTreeOf, RootedTree, TreeFor
  <2> QED
    BY <2>1, <2>2
<1>5. result = [trees |-> [trees EXCEPT ![o] = IF field.at = Null THEN grown ELSE [grown EXCEPT ![field.at] = e]],
                trap |-> field.trap]
  BY <1>1, <1>2 DEF setFieldError, TreeFor
<1> HIDE DEF o, path, T, tree, way, ind, result
<1>6. Arrives(tree, path, ind, TRUE)
  BY <1>1, <1>3, <1>4, RoutesReach
<1>7. /\ field.trap = FALSE /\ field.at = path /\ path # Null /\ path \in Paths \ {<<>>}
      /\ \A x \in made : x[2] \in StructTypes \/ x[1] = path
      /\ tree[path] \in Entries \cup {Absent}
  BY <1>6, BoundsAssumption DEF Arrives, Reaches
<1>8. field \in Outcomes /\ Sound(tree, [path |-> <<>>, type |-> tree[<<>>], indices |-> ind], field)
  <2>1. tree \in Trees /\ tree[<<>>] \in StructTypes
    BY <1>4 DEF RootedTree, IsTree
  <2> QED
    BY <1>3, <2>1, FieldNodeSound
<1>9. \A x \in made : At(tree, x[1]) = Absent
  BY <1>8 DEF Sound, MadeBelow
<1>10. result.trap = FALSE /\ result.trees[o] = last
  BY <1>2, <1>3, <1>5, <1>7
<1>11. ASSUME NEW p \in Paths PROVE EntryAt(last, p) = IF p = path THEN e ELSE EntryAt(tree, p)
  <2>1. last[p] = IF p = path THEN e ELSE grown[p]
    BY <1>7 DEF WithNodes
  <2>2. CASE p = path
    <3>1. last[p] \notin StructTypes
      BY <2>1, <2>2 DEF Entries
    <3> QED
      BY <2>1, <2>2, <3>1 DEF EntryAt
  <2>3. CASE p # path /\ \E x \in made : x[1] = p
    <3> DEFINE x == CHOOSE x \in made : x[1] = p
    <3>1. x \in made /\ x[1] = p
      BY <2>3
    <3>2. grown[p] = x[2]
      BY <2>3 DEF WithNodes
    <3> HIDE DEF x
    <3>3. x[2] \in StructTypes
      BY <1>7, <2>3, <3>1
    <3>4. tree[p] = Absent
      BY <1>9, <3>1 DEF At
    <3>5. EntryAt(last, p) = Absent /\ EntryAt(tree, p) = Absent
      BY <2>1, <2>3, <3>2, <3>3, <3>4 DEF EntryAt
    <3> QED
      BY <2>3, <3>5
  <2>4. CASE p # path /\ ~ \E x \in made : x[1] = p
    <3>1. last[p] = tree[p]
      BY <2>1, <2>4 DEF WithNodes
    <3> QED
      BY <2>4, <3>1 DEF EntryAt
  <2> QED
    BY <2>2, <2>3, <2>4
<1>12. last # NoTree
  <2>1. last[path] = e
    BY <1>7 DEF WithNodes
  <2>2. e # Absent
    BY DEF Entries
  <2> QED
    BY <1>7, <2>1, <2>2 DEF NoTree
<1> HIDE DEF last
<1> QED
  BY <1>4, <1>10, <1>11, <1>12 DEF result, o, path, Tells

\* The functions of the first d activations, and the values they can use.
Scope(d) == {stack[i].f : i \in 1 .. d}
InScope(d) == {v \in Values : Def[v].owner \in Scope(d) \cup {Null}}

\* Without recursion every function is active once.
Distinct == \A d, e \in DOMAIN stack : stack[d].f = stack[e].f => d = e

\* The parameters of an activation that are structs, by position.
StructParams(a) == {k \in DOMAIN a.args : Def[Formals[a.f][k]].pointee \in StructTypes}

\* What an activation has from the call that began it.
Passed(caller, a) ==
  \E c \in Calls :
    /\ c.caller = caller.f /\ c.callee = a.f /\ c.args = a.args
    /\ a.bind = initArgumentBindings(caller.bind, c.callee, c.args)
    /\ a.places = [k \in DOMAIN c.args |-> PlaceOf(caller, c.args[k])]

PassedInv ==
  /\ stack # <<>> => stack[1].places = <<>>
  /\ \A d \in 2 .. Depth : Passed(stack[d - 1], stack[d])

\* Parameters point to objects of the functions below.
OwnersInv ==
  \A d \in 2 .. Depth : \A k \in DOMAIN stack[d].places :
    /\ stack[d].places[k] \in Values \X Seq(Nat)
    /\ Def[stack[d].places[k][1]].owner \in Scope(d - 1) \cup {Null}

\* A struct parameter that was passed an expression the walker may misread is of
\* objects that are stale.
Misread ==
  \A d \in 2 .. Depth : \A k \in StructParams(stack[d]) :
    ~Direct[stack[d].args[k]] => TakenFor(stack[d - 1], stack[d].args[k]) \subseteq stale

\* What the stack is made of.
LEMMA StackFacts ==
  ASSUME BindInv
  PROVE  /\ Depth \in Nat /\ DOMAIN stack = 1 .. Depth /\ (stack # <<>> => Depth > 0)
         /\ \A d \in DOMAIN stack :
              /\ stack[d].f \in Functions /\ stack[d].args \in Seq(Values)
              /\ stack[d].bind \in [Parameters -> Values \cup {Unbound}]
              /\ stack[d].wrote \in SUBSET Objects
<1>1. PICK F, Q : stack \in Seq(Activations(F, Q))
  BY DEF BindInv, StackShape
<1>2. ASSUME NEW d \in DOMAIN stack
      PROVE  /\ stack[d].f \in Functions /\ stack[d].args \in Seq(Values)
             /\ stack[d].bind \in [Parameters -> Values \cup {Unbound}]
             /\ stack[d].wrote \in SUBSET Objects
  <2>1. stack[d] \in Activations(F, Q)
    BY <1>1
  <2> QED
    BY <2>1 DEF Activations
<1>3. Depth \in Nat /\ DOMAIN stack = 1 .. Depth /\ (stack # <<>> => Depth > 0)
  BY <1>1 DEF Depth
<1> QED
  BY <1>2, <1>3

\* No function is null, so what belongs to a function is not global.
LEMMA ScopeFacts ==
  ASSUME BindInv
  PROVE  /\ Null \notin Functions
         /\ \A d \in 0 .. Depth : Null \notin Scope(d) /\ Scope(d) \subseteq Functions
         /\ \A d \in 1 .. Depth : stack[d].f \in Scope(d) /\ Scope(d) = Scope(d - 1) \cup {stack[d].f}
<1>1. /\ Depth \in Nat /\ DOMAIN stack = 1 .. Depth
      /\ \A d \in DOMAIN stack : stack[d].f \in Functions
  BY StackFacts
<1>2. Null \notin Functions
  BY DefinitionsAssumption
<1>3. \A d \in 0 .. Depth : Scope(d) \subseteq Functions
  BY <1>1 DEF Scope
<1>4. \A d \in 1 .. Depth : 1 .. d = (1 .. d - 1) \cup {d}
  BY <1>1
<1>5. \A d \in 1 .. Depth : stack[d].f \in Scope(d) /\ Scope(d) = Scope(d - 1) \cup {stack[d].f}
  BY <1>4 DEF Scope
<1> QED
  BY <1>2, <1>3, <1>5

\* Without recursion no function is in the scope below its activation.
LEMMA NotBelow ==
  ASSUME BindInv, Distinct, NEW d \in DOMAIN stack
  PROVE  stack[d].f \notin Scope(d - 1)
<1>1. Depth \in Nat /\ DOMAIN stack = 1 .. Depth
  BY StackFacts
<1>2. \A i \in 1 .. d - 1 : i \in DOMAIN stack /\ i # d
  BY <1>1
<1> QED
  BY <1>2 DEF Scope, Distinct

\* A walk does not leave the scope of its activation.
LEMMA ScopeClosed ==
  ASSUME BindInv, Distinct, NEW d \in DOMAIN stack
  PROVE  Closed(stack[d].bind, InScope(d))
<1> SUFFICES ASSUME NEW v \in InScope(d), NEW u \in Values, Leads(stack[d].bind, v, u)
             PROVE  u \in InScope(d)
  BY DEF Closed
<1>1. /\ Depth \in Nat /\ DOMAIN stack = 1 .. Depth /\ d \in 1 .. Depth
  BY StackFacts
<1>2. v \in Values /\ Def[v].owner \in Scope(d) \cup {Null}
  BY DEF InScope
<1>3. CASE Def[v].kind \in {"gep", "load"} /\ u = Def[v].base
  BY <1>2, <1>3, OperandsAssumption DEF InScope
<1>4. CASE Def[v].kind = "argument" /\ stack[d].bind[v] \in Values /\ u = stack[d].bind[v]
  <2>1. v \in Parameters /\ stack[d].bind[v] # Unbound
    BY <1>2, <1>4, DefinitionsAssumption DEF Parameters
  <2>2. PICK i \in 2 .. d : stack[i].f = Def[v].owner
    BY <2>1 DEF BindInv, BoundAreActive
  <2>3. i \in DOMAIN stack /\ 1 \in DOMAIN stack /\ i # 1
    BY <1>1
  <2>4. Def[v].owner # stack[1].f
    BY <2>2, <2>3 DEF Distinct
  <2>5. Outwards(stack, d, stack[d].bind, v)
    BY <2>1, OutwardsMeans DEF BindInv
  <2>6. Def[u].owner = Null \/ \E j \in 1 .. d : stack[j].f = Def[u].owner
    BY <1>4, <2>4, <2>5 DEF Outwards
  <2> QED
    BY <2>6 DEF InScope, Scope
<1> QED
  BY <1>3, <1>4 DEF Leads

\* And it ends.
LEMMA ScopeLeadsBack ==
  ASSUME BindInv, Distinct, NEW d \in DOMAIN stack
  PROVE  LeadsBack(stack[d].bind, Level(stack, d))
<1>1. Depth \in Nat /\ DOMAIN stack = 1 .. Depth /\ d \in Nat
  BY StackFacts
<1>2. \A e \in 2 .. Depth : e \in DOMAIN stack /\ 1 \in DOMAIN stack /\ e # 1
  BY <1>1
<1>3. \A e \in 2 .. Depth : stack[e].f # stack[1].f
  BY <1>2 DEF Distinct
<1>4. Level(stack, d) \in [Values -> Nat]
  BY <1>1, LevelIsFirst
<1>5. \A v, u \in Values : Leads(stack[d].bind, v, u) => Earlier(Level(stack, d), u, v)
  BY <1>3, StepsLeadBack
<1> QED
  BY <1>4, <1>5 DEF LeadsBack

\* What the parameters of an activation stand for.
LEMMA ParametersStandFor ==
  ASSUME BindInv, Distinct, PassedInv, NEW d \in 2 .. Depth, NEW v \in Values,
         Def[v].kind = "argument", Def[v].owner = stack[d].f, Def[v].pointee \in StructTypes
  PROVE  \E k \in StructParams(stack[d]) :
           LET arg == stack[d].args[k]
           IN  /\ arg \in Values /\ Def[arg].owner \in {stack[d - 1].f, Null}
               /\ Def[arg].pointee = Def[v].pointee
               /\ k \in DOMAIN stack[d].places /\ Formals[stack[d].f][k] = v
               /\ PlaceFrom(stack[d], v, 0) = PlaceOf(stack[d - 1], arg)
               /\ stack[d].places[k] = PlaceOf(stack[d - 1], arg)
               /\ retrieveRootPointer(stack[d].bind, v) = retrieveRootPointer(stack[d - 1].bind, arg)
<1>0. /\ Depth \in Nat /\ DOMAIN stack = 1 .. Depth /\ d \in DOMAIN stack /\ d - 1 \in DOMAIN stack
      /\ stack[d].f \in Functions /\ stack[d].args \in Seq(Values)
  <2>1. Depth \in Nat /\ DOMAIN stack = 1 .. Depth
    BY StackFacts
  <2>2. d \in DOMAIN stack /\ d - 1 \in DOMAIN stack
    BY <2>1
  <2> QED
    BY <2>1, <2>2, StackFacts
<1>1. PICK c \in Calls :
        /\ c.caller = stack[d - 1].f /\ c.callee = stack[d].f /\ c.args = stack[d].args
        /\ stack[d].bind = initArgumentBindings(stack[d - 1].bind, c.callee, c.args)
        /\ stack[d].places = [k \in DOMAIN c.args |-> PlaceOf(stack[d - 1], c.args[k])]
  BY DEF PassedInv, Passed
<1> DEFINE f == stack[d].f
           args == stack[d].args
           lower == stack[d - 1].bind
           upper == stack[d].bind
<1>2. DOMAIN args = DOMAIN Formals[f]
      /\ \A k \in DOMAIN args : /\ Def[args[k]].owner \in {stack[d - 1].f, Null}
                                /\ Def[args[k]].pointee = Def[Formals[f][k]].pointee
  BY <1>1, CallsAssumption
<1>3. v \in Parameters
  BY DEF Parameters
<1>4. PICK k \in DOMAIN Formals[f] : Formals[f][k] = v
  <2>1. v \in Range(Formals[f])
    BY <1>3, FormalsAssumption
  <2> QED
    BY <2>1 DEF Range
<1>5. \A j \in DOMAIN Formals[f] : Formals[f][j] = v => j = k
  BY <1>0, <1>4, FormalsAssumption
<1>6. k \in DOMAIN args /\ k \in StructParams(stack[d]) /\ args[k] \in Values
  BY <1>0, <1>2, <1>4 DEF StructParams
<1>7. /\ Def[args[k]].owner \in {stack[d - 1].f, Null} /\ Def[args[k]].pointee = Def[v].pointee
      /\ DOMAIN stack[d].places = DOMAIN args /\ stack[d].places[k] = PlaceOf(stack[d - 1], args[k])
  BY <1>1, <1>2, <1>4, <1>6
<1>8. PlaceFrom(stack[d], v, 0) = PlaceOf(stack[d - 1], args[k])
  <2>1. Passing(stack[d], v) = {k}
    BY <1>2, <1>4, <1>5, <1>6, <1>7 DEF Passing
  <2>2. (CHOOSE j \in {k} : TRUE) = k
    OBVIOUS
  <2> QED
    BY <1>7, <2>1, <2>2 DEF PlaceFrom
<1>9. lower[v] = Unbound
  <2> SUFFICES ASSUME lower[v] # Unbound PROVE FALSE
    OBVIOUS
  <2>1. PICK i \in 2 .. d - 1 : stack[i].f = f
    BY <1>0, <1>3 DEF BindInv, BoundAreActive
  <2>2. i \in DOMAIN stack /\ i # d
    BY <1>0
  <2> QED
    BY <1>0, <2>1, <2>2 DEF Distinct
<1>10. upper[v] = args[k]
  <2>1. \E j \in DOMAIN args : Formals[f][j] = v /\ Def[v].pointee \in StructTypes
    BY <1>4, <1>6
  <2>2. upper[v] = args[CHOOSE j \in DOMAIN args : Formals[f][j] = v]
    BY <1>1, <1>3, <1>9, <2>1 DEF initArgumentBindings
  <2>3. (CHOOSE j \in DOMAIN args : Formals[f][j] = v) = k
    BY <1>2, <1>4, <1>5, <1>6
  <2> QED
    BY <2>2, <2>3
<1>11. retrieveRootPointer(upper, v) = retrieveRootPointer(upper, args[k])
  <2> DEFINE level == Level(stack, d)
  <2>1. LeadsBack(upper, level)
    BY <1>0, ScopeLeadsBack
  <2> HIDE DEF upper, level
  <2>2. RootWays(upper) = navigatePointerTreeToRoot(upper, RootWays(upper))
    BY <2>1, WaysUnfold
  <2>3. navigatePointerTreeToRoot(upper, RootWays(upper))[v] = RootWays(upper)[args[k]]
    BY <1>6, <1>10 DEF navigatePointerTreeToRoot
  <2>4. RootWays(upper)[v] = RootWays(upper)[args[k]]
    BY <2>2, <2>3
  <2> QED
    BY <1>6, <2>4 DEF RootWays
<1>12. retrieveRootPointer(lower, args[k]) = retrieveRootPointer(upper, args[k])
  <2> DEFINE S == InScope(d - 1)
             arg == args[k]
  <2>1. Closed(lower, S) /\ S \in SUBSET Values
    BY <1>0, ScopeClosed DEF InScope
  <2>2. arg \in S
    <3>1. stack[d - 1].f \in Scope(d - 1)
      BY <1>0, ScopeFacts
    <3> QED
      BY <1>6, <1>7, <3>1 DEF InScope
  <2>3. ASSUME NEW w \in S, Def[w].kind = "argument" PROVE lower[w] = upper[w]
    <3>1. w \in Parameters /\ Def[w].owner \in Scope(d - 1)
      BY <2>3, OperandsAssumption DEF InScope, Parameters
    <3>2. f \notin Scope(d - 1)
      BY <1>0, NotBelow
    <3>3. ~ \E j \in DOMAIN args : Formals[f][j] = w
      <4>1. \A j \in DOMAIN args : Def[Formals[f][j]].owner = f
        BY <1>0, <1>2, DefinitionsAssumption
      <4> QED
        BY <3>1, <3>2, <4>1
    <3> QED
      BY <1>1, <3>1, <3>3 DEF initArgumentBindings
  <2> HIDE DEF S, lower, upper, arg
  <2>4. retrieveRootPointer(lower, arg) = retrieveRootPointer(upper, arg)
    BY <2>1, <2>2, <2>3, WaysInside
  <2> QED
    BY <2>4 DEF arg
<1> QED
  BY <1>4, <1>6, <1>7, <1>8, <1>11, <1>12

\* Pointers point to objects of the functions in scope.
LEMMA PlaceOwned ==
  ASSUME BindInv, PassedInv, OwnersInv, NEW d \in DOMAIN stack
  PROVE  /\ PlacesTyped(stack[d])
         /\ \A v \in InScope(d) : /\ PlaceOf(stack[d], v) \in Values \X Seq(Nat)
                                  /\ PlaceOf(stack[d], v)[1] \in InScope(d)
<1>0. /\ Depth \in Nat /\ DOMAIN stack = 1 .. Depth /\ (stack # <<>> => Depth > 0)
  BY StackFacts
<1>1. \A k \in DOMAIN stack[d].places :
        /\ stack[d].places[k] \in Values \X Seq(Nat)
        /\ Def[stack[d].places[k][1]].owner \in Scope(d) \cup {Null}
  <2>1. CASE d = 1
    <3>1. stack[d].places = <<>>
      BY <1>0, <2>1 DEF PassedInv
    <3> QED
      BY <3>1
  <2>2. CASE d # 1
    <3>1. d \in 2 .. Depth /\ d \in 1 .. Depth
      BY <1>0, <2>2
    <3>2. Scope(d - 1) \subseteq Scope(d)
      BY <3>1, ScopeFacts
    <3> QED
      BY <3>1, <3>2 DEF OwnersInv
  <2> QED
    BY <2>1, <2>2
<1>2. PlacesTyped(stack[d])
  BY <1>1 DEF PlacesTyped
<1> DEFINE a == stack[d]
           base == [v \in Geps |-> Def[v].base]
           T == {v \in Values : v \in InScope(d) => PlaceOf(a, v)[1] \in InScope(d)}
<1>3. Geps \in SUBSET Values /\ base \in [Geps -> Values] /\ Acyclic(Geps, base)
  BY GepChains
<1>4. \A v \in Values : /\ PlaceOf(a, v) \in Values \X Seq(Nat)
                        /\ PlaceOf(a, v) = PlaceFrom(a, v, PlaceOf(a, Def[v].base))
  <2> HIDE DEF a
  <2> QED
    BY <1>2, PlacesUnfold DEF a
<1>5. ASSUME NEW v \in Values \ Geps PROVE v \in T
  <2> SUFFICES ASSUME v \in InScope(d) PROVE PlaceOf(a, v)[1] \in InScope(d)
    OBVIOUS
  <2>1. Def[v].kind # "gep"
    BY DEF Geps
  <2>2. CASE Def[v].kind = "argument" /\ Passing(a, v) # {}
    <3> DEFINE k == CHOOSE k \in Passing(a, v) : TRUE
    <3>1. k \in DOMAIN a.places
      BY <2>2 DEF Passing
    <3>2. PlaceOf(a, v) = a.places[k]
      BY <1>4, <2>1, <2>2 DEF PlaceFrom
    <3> HIDE DEF k
    <3>3. PlaceOf(a, v)[1] \in Values
      BY <1>4
    <3> QED
      BY <1>1, <3>1, <3>2, <3>3 DEF InScope
  <2>3. CASE ~(Def[v].kind = "argument" /\ Passing(a, v) # {})
    <3>1. PlaceOf(a, v) = <<v, <<>>>>
      BY <1>4, <2>1, <2>3 DEF PlaceFrom
    <3> QED
      BY <3>1
  <2> QED
    BY <2>2, <2>3
<1>6. ASSUME NEW v \in Geps, base[v] \in T PROVE v \in T
  <2>1. v \in Values /\ Def[v].kind = "gep" /\ base[v] = Def[v].base /\ Def[v].base \in Values
    BY <1>3 DEF Geps
  <2>2. v \in InScope(d) => Def[v].base \in InScope(d)
    BY <2>1, OperandsAssumption DEF InScope
  <2>3. PlaceOf(a, v)[1] = PlaceOf(a, Def[v].base)[1]
    <3> DEFINE from == PlaceOf(a, Def[v].base)
    <3>1. PlaceOf(a, v) = PlaceFrom(a, v, from)
      BY <1>4, <2>1
    <3>2. PlaceFrom(a, v, from)[1] = from[1]
      BY <2>1 DEF PlaceFrom
    <3> QED
      BY <3>1, <3>2
  <2> QED
    BY <1>6, <2>1, <2>2, <2>3
<1>7. Values \subseteq T
  <2> HIDE DEF T, base
  <2> QED
    BY <1>3, <1>5, <1>6, ChainInduction
<1> QED
  BY <1>2, <1>4, <1>7 DEF InScope

\* An object whose tree an activation keeps: a global, or of a function below or
\* its own; a parameter only where nothing is bound to it.
Relevant(d, v) ==
  \/ Def[v].kind = "global"
  \/ Def[v].kind = "alloca" /\ Def[v].owner \in Scope(d)
  \/ Def[v].kind = "argument" /\ Def[v].owner = stack[1].f

\* The walker finds what a pointer denotes: an object of the activation's own, a
\* global, or one that it was given.
Known(d, v) ==
  LET place == PlaceOf(stack[d], v)
      o == place[1]
  IN  /\ Finds(stack[d].bind, place, v) /\ Relevant(d, o)
      /\ Def[o].kind = "global" \/ Def[o].owner = stack[d].f \/ o \in Handed(stack[d])

\* Or else nothing is said of it.
Right(d, v) == Known(d, v) \/ TakenFor(stack[d], v) \subseteq stale

RightBelow(d) == \A v \in Values : Direct[v] /\ Uses(stack[d].f, v) => Right(d, v)

\* From a pointer to a gep.
LEMMA GepIsRight ==
  ASSUME BindInv, Distinct, PassedInv, OwnersInv, NEW d \in DOMAIN stack,
         NEW v \in Geps, DirectStep(v), Right(d, Def[v].base)
  PROVE  Right(d, v)
<1> DEFINE a == stack[d]
           b == Def[v].base
           bind == stack[d].bind
           new == Tail1(Def[v].idx)
           way == retrieveRootPointer(bind, v)
           before == retrieveRootPointer(bind, b)
           place == PlaceOf(a, v)
           from == PlaceOf(a, b)
           level == Level(stack, d)
<1>1. v \in Values /\ b \in Values /\ Def[v].kind = "gep"
  BY OperandsAssumption DEF Geps
<1>2. place = PlaceFrom(a, v, from) /\ from \in Values \X Seq(Nat)
  <2>1. PlacesTyped(a)
    BY PlaceOwned
  <2> HIDE DEF a
  <2> QED
    BY <1>1, <2>1, PlacesUnfold
<1>3. place[1] = from[1]
      /\ place[2] = IF Kind[Def[b].pointee] = "struct" THEN from[2] \o new ELSE from[2]
  BY <1>1, <1>2 DEF PlaceFrom
<1>4. way.root = before.root /\ way.endless = before.endless /\ way.indices = new \o before.indices
  <2>1. LeadsBack(bind, level)
    BY ScopeLeadsBack
  <2> HIDE DEF bind, level
  <2>2. /\ RootWays(bind) \in [Values -> Ways]
        /\ RootWays(bind) = navigatePointerTreeToRoot(bind, RootWays(bind))
    BY <2>1, WaysUnfold
  <2>3. navigatePointerTreeToRoot(bind, RootWays(bind))[v] =
          [RootWays(bind)[b] EXCEPT !.indices = Push(new, @)]
    BY <1>1 DEF navigatePointerTreeToRoot
  <2>4. RootWays(bind)[v] = way /\ RootWays(bind)[b] = before /\ before \in Ways
    BY <1>1, <2>2 DEF RootWays
  <2> HIDE DEF way, before, new
  <2> QED
    BY <2>2, <2>3, <2>4 DEF Ways, Push
<1>5. TakenFor(a, v) = TakenFor(a, b)
  BY <1>3, <1>4 DEF TakenFor
<1>6. CASE TakenFor(a, b) \subseteq stale
  BY <1>5, <1>6 DEF Right
<1>7. CASE Known(d, b)
  <2>1. Finds(bind, from, b) /\ Relevant(d, from[1])
        /\ (Def[from[1]].kind = "global" \/ Def[from[1]].owner = stack[d].f \/ from[1] \in Handed(stack[d]))
    BY <1>7 DEF Known
  <2>2. /\ before.root = from[1] /\ ~before.endless /\ from[1] \in Values /\ DirectRoot(from[1])
        /\ Route(from[1], from[2], before.indices, Def[b].pointee)
    BY <2>1 DEF Finds
  <2>3. Route(from[1], place[2], way.indices, Def[v].pointee)
    <3> DEFINE o == from[1]
               path == from[2]
               indices == before.indices
    <3>1. Route(o, path, indices, Def[Def[v].base].pointee)
      BY <2>2
    <3> HIDE DEF o, path, indices
    <3>2. LET n == Tail1(Def[v].idx)
          IN  Route(o, IF Kind[Def[Def[v].base].pointee] = "struct" THEN path \o n ELSE path,
                    n \o indices, Def[v].pointee)
      BY <3>1, RouteGoesOn
    <3> QED
      BY <1>3, <1>4, <3>2 DEF o, path, indices
  <2>4. Finds(bind, place, v)
    <3> HIDE DEF place, from
    <3> QED
      BY <1>3, <1>4, <2>2, <2>3 DEF Finds
  <2> QED
    BY <1>3, <2>1, <2>4 DEF Right, Known
<1> QED
  BY <1>6, <1>7 DEF Right

\* A struct of the function's own, or a global, is where it is.
LEMMA OwnIsRight ==
  ASSUME BindInv, Distinct, PassedInv, OwnersInv, NEW d \in DOMAIN stack,
         NEW v \in Values, DirectRoot(v), Def[v].owner \in {stack[d].f, Null},
         Def[v].kind = "argument" => d = 1
  PROVE  Right(d, v)
<1> DEFINE a == stack[d]
           bind == stack[d].bind
           level == Level(stack, d)
<1>0. /\ Depth \in Nat /\ DOMAIN stack = 1 .. Depth /\ d \in 1 .. Depth /\ stack # <<>>
      /\ bind \in [Parameters -> Values \cup {Unbound}]
  BY StackFacts
<1>1. v \in Objects /\ Def[v].pointee \in StructTypes
  BY RootsAreObjects
<1>2. PlaceOf(a, v) = <<v, <<>>>>
  <2>1. PlacesTyped(a)
    BY PlaceOwned
  <2>2. PlaceOf(a, v) = PlaceFrom(a, v, PlaceOf(a, Def[v].base))
    <3> HIDE DEF a
    <3> QED
      BY <2>1, PlacesUnfold
  <2>3. ~(Def[v].kind = "argument" /\ Passing(a, v) # {})
    BY <1>0 DEF Passing, PassedInv
  <2> QED
    BY <2>2, <2>3 DEF PlaceFrom, DirectRoot
<1>3. retrieveRootPointer(bind, v) = Way(v, <<>>)
  <2>1. LeadsBack(bind, level)
    BY ScopeLeadsBack
  <2>2. Def[v].kind = "argument" => bind[v] \notin Values
    <3> SUFFICES ASSUME Def[v].kind = "argument", bind[v] \in Values PROVE FALSE
      OBVIOUS
    <3>1. v \in Parameters /\ bind[v] # Unbound
      BY DefinitionsAssumption DEF Parameters
    <3>2. PICK i \in 2 .. d : stack[i].f = Def[v].owner
      BY <3>1 DEF BindInv, BoundAreActive
    <3> QED
      BY <3>2
  <2> HIDE DEF bind, level
  <2>3. RootWays(bind) = navigatePointerTreeToRoot(bind, RootWays(bind))
    BY <2>1, WaysUnfold
  <2>4. navigatePointerTreeToRoot(bind, RootWays(bind))[v] = Way(v, <<>>)
    BY <1>1, <2>2 DEF navigatePointerTreeToRoot, DirectRoot
  <2>5. RootWays(bind)[v] = Way(v, <<>>)
    BY <2>3, <2>4
  <2> QED
    BY <2>5 DEF RootWays
<1>4. Finds(bind, <<v, <<>>>>, v)
  BY <1>1, <1>3, RouteStarts DEF Finds, Way
<1>5. Relevant(d, v) /\ (Def[v].kind = "global" \/ Def[v].owner = stack[d].f)
  <2>1. Def[v].kind # "global" => Def[v].kind \in {"argument", "alloca"} /\ Def[v].owner = stack[d].f
    BY OperandsAssumption DEF DirectRoot
  <2>2. stack[d].f \in Scope(d)
    BY <1>0, ScopeFacts
  <2> QED
    BY <2>1, <2>2 DEF Relevant
<1> QED
  BY <1>2, <1>4, <1>5 DEF Right, Known

\* A struct parameter is what the caller passed.
LEMMA ParameterIsRight ==
  ASSUME BindInv, Distinct, PassedInv, OwnersInv, Misread, NEW d \in 2 .. Depth,
         RightBelow(d - 1), NEW v \in Values, DirectRoot(v), Def[v].kind = "argument",
         Def[v].owner = stack[d].f
  PROVE  Right(d, v)
<1>0. /\ Depth \in Nat /\ DOMAIN stack = 1 .. Depth /\ d \in DOMAIN stack /\ d - 1 \in DOMAIN stack
  <2>1. Depth \in Nat /\ DOMAIN stack = 1 .. Depth
    BY StackFacts
  <2> QED
    BY <2>1
<1>1. Def[v].pointee \in StructTypes
  BY RootsAreObjects
<1>2. PICK k \in StructParams(stack[d]) :
           LET arg == stack[d].args[k]
           IN  /\ arg \in Values /\ Def[arg].owner \in {stack[d - 1].f, Null}
               /\ Def[arg].pointee = Def[v].pointee
               /\ k \in DOMAIN stack[d].places /\ Formals[stack[d].f][k] = v
               /\ PlaceFrom(stack[d], v, 0) = PlaceOf(stack[d - 1], arg)
               /\ stack[d].places[k] = PlaceOf(stack[d - 1], arg)
               /\ retrieveRootPointer(stack[d].bind, v) = retrieveRootPointer(stack[d - 1].bind, arg)
  BY <1>1, ParametersStandFor
<1> DEFINE a == stack[d]
           c == stack[d - 1]
           arg == a.args[k]
<1>3. PlaceOf(a, v) = PlaceOf(c, arg)
  <2>1. PlacesTyped(a)
    BY <1>0, PlaceOwned
  <2>2. PlaceOf(a, v) = PlaceFrom(a, v, PlaceOf(a, Def[v].base))
    <3> HIDE DEF a
    <3> QED
      BY <2>1, PlacesUnfold
  <2>3. PlaceOf(a, v) = PlaceFrom(a, v, 0)
    BY <2>2 DEF PlaceFrom
  <2> QED
    BY <1>2, <2>3
<1>4. retrieveRootPointer(a.bind, v) = retrieveRootPointer(c.bind, arg)
  BY <1>2
<1>5. TakenFor(a, v) = TakenFor(c, arg)
  BY <1>3, <1>4 DEF TakenFor
<1>6. CASE ~Direct[arg]
  BY <1>2, <1>5, <1>6 DEF Misread, Right
<1>7. CASE Direct[arg]
  <2>1. Right(d - 1, arg)
    BY <1>2, <1>7 DEF RightBelow, Uses
  <2>2. CASE TakenFor(c, arg) \subseteq stale
    BY <1>5, <2>2 DEF Right
  <2>3. CASE Known(d - 1, arg)
    <3> DEFINE place == PlaceOf(c, arg)
    <3>1. Finds(c.bind, place, arg) /\ Relevant(d - 1, place[1])
      BY <2>3 DEF Known
    <3>2. Finds(a.bind, place, v)
      BY <1>2, <1>4, <3>1 DEF Finds
    <3>3. Relevant(d, place[1])
      <4>1. Scope(d - 1) \subseteq Scope(d)
        BY <1>0, ScopeFacts
      <4> QED
        BY <3>1, <4>1 DEF Relevant
    <3>4. place[1] \in Handed(a)
      BY <1>1, <1>2 DEF Handed
    <3> QED
      BY <1>3, <3>2, <3>3, <3>4 DEF Right, Known
  <2> QED
    BY <2>1, <2>2, <2>3 DEF Right
<1> QED
  BY <1>6, <1>7

\* So every direct pointer is what the walker takes it for, or nothing is said of it.
LEMMA PlacesAreRight ==
  ASSUME BindInv, Distinct, PassedInv, OwnersInv, Misread
  PROVE  \A d \in DOMAIN stack : RightBelow(d)
<1>0. Depth \in Nat /\ DOMAIN stack = 1 .. Depth
  BY StackFacts
<1> DEFINE N == Depth
           D == {d \in 0 .. N : d = 0 \/ RightBelow(d)}
<1>1. 0 \in D
  BY <1>0
<1>2. ASSUME NEW n \in 0 .. N, n + 1 \in 0 .. N, n \in D PROVE n + 1 \in D
  <2> DEFINE d == n + 1
  <2>0. d \in DOMAIN stack /\ d \in 1 .. Depth /\ d - 1 = n
    BY <1>0, <1>2
  <2> SUFFICES RightBelow(d)
    BY <1>2
  <2> HIDE DEF d
  <2> DEFINE base == [v \in Geps |-> Def[v].base]
             T == {v \in Values : Direct[v] /\ Uses(stack[d].f, v) => Right(d, v)}
  <2>1. Geps \in SUBSET Values /\ base \in [Geps -> Values] /\ Acyclic(Geps, base)
    BY GepChains
  <2>2. ASSUME NEW v \in Values, Direct[v], Uses(stack[d].f, v), DirectRoot(v) PROVE Right(d, v)
    <3>1. Def[v].owner \in {stack[d].f, Null}
      BY <2>2 DEF Uses
    <3>2. CASE Def[v].kind = "argument" => d = 1
      BY <2>0, <2>2, <3>1, <3>2, OwnIsRight
    <3>3. CASE Def[v].kind = "argument" /\ d # 1
      <4>1. Def[v].owner = stack[d].f
        BY <3>1, <3>3, OperandsAssumption
      <4>2. d \in 2 .. Depth /\ n # 0
        BY <2>0, <3>3, <1>0
      <4>3. RightBelow(d - 1)
        BY <1>2, <2>0, <4>2
      <4> QED
        BY <2>2, <3>3, <4>1, <4>2, <4>3, ParameterIsRight
    <3> QED
      BY <3>2, <3>3
  <2>3. ASSUME NEW v \in Values \ Geps PROVE v \in T
    <3>1. Direct[v] => DirectRoot(v)
      BY DirectUnfolds, Zenon
    <3> QED
      BY <2>2, <3>1
  <2>4. ASSUME NEW v \in Geps, base[v] \in T PROVE v \in T
    <3> SUFFICES ASSUME Direct[v], Uses(stack[d].f, v) PROVE Right(d, v)
      BY <2>1
    <3>1. v \in Values /\ Def[v].kind = "gep" /\ base[v] = Def[v].base /\ Def[v].base \in Values
      BY <2>1 DEF Geps
    <3>2. ~DirectRoot(v)
      BY <3>1 DEF DirectRoot
    <3>3. Direct[Def[v].base] /\ DirectStep(v)
      BY <3>1, <3>2, DirectUnfolds, Zenon
    <3>4. Uses(stack[d].f, Def[v].base)
      BY <3>1, OperandsAssumption DEF Uses
    <3>5. Right(d, Def[v].base)
      BY <2>4, <3>1, <3>3, <3>4
    <3> QED
      BY <2>0, <3>3, <3>5, GepIsRight
  <2>5. Values \subseteq T
    <3> HIDE DEF T, base
    <3> QED
      BY <2>1, <2>3, <2>4, ChainInduction
  <2> QED
    BY <2>5 DEF RightBelow
<1>3. \A n \in 0 .. N : n \in D
  <2> HIDE DEF D, N
  <2>1. N \in Nat
    BY <1>0 DEF N
  <2> QED
    BY <1>1, <1>2, <2>1, InductionUpTo
<1> QED
  BY <1>0, <1>3

\* Nothing failed, and no function was entered while active.
Live == ~trapped /\ ~again

\* What an activation stored to, its callees included, was a global or handed to
\* it, or belongs to its own function or those called from it.
OnlyHanded ==
  \A d \in DOMAIN stack : \A v \in stack[d].wrote \ stale :
    Def[v].kind = "global" \/ v \in Handed(stack[d]) \/ Def[v].owner \notin Scope(d - 1)

\* The tree of an object says what its fields were last given, up to the stores of
\* the activations above.
TreesTell ==
  \A d \in DOMAIN stack : \A v \in Objects \ stale :
    Relevant(d, v) /\ (\A e \in d + 1 .. Depth : v \notin stack[e].wrote) =>
      \A p \in Paths : EntryAt(stack[d].trees[v], p) = memory[<<v, p>>]

\* There is no tree for an alloca of a function that is not active.
NoTreesYet ==
  \A d \in DOMAIN stack : \A v \in Objects :
    Def[v].kind = "alloca" /\ Def[v].owner \notin Scope(d) => stack[d].trees[v] = NoTree

\* A callee has every tree that its caller has.
TreesStay ==
  \A d \in 2 .. Depth : \A v \in Objects :
    stack[d].trees[v] = NoTree => stack[d - 1].trees[v] = NoTree

CallsInv == Distinct /\ PassedInv /\ OwnersInv /\ Misread
StoresInv == OnlyHanded /\ TreesTell /\ NoTreesYet /\ TreesStay
ReadInv == Live => CallsInv /\ StoresInv

\* A load finds what was last stored, because its pointer is what the walker takes
\* it for and the tree of the object there says what was stored.
LEMMA LoadsAreRight ==
  ASSUME BindInv, TreeInv, ReadInv
  PROVE  ReadsLastWritten
<1> SUFFICES ASSUME Running, ~again, NEW P \in Accessed, Plain(P), Uses(Top.f, P),
                    PlaceOf(Top, P)[1] \in Objects \ stale
             PROVE  getFieldError(Top.trees, Top.bind, P) = [entry |-> memory[PlaceOf(Top, P)], trap |-> FALSE]
  BY DEF ReadsLastWritten
<1>1. CallsInv /\ StoresInv
  BY DEF ReadInv, Live, Running
<1>2. /\ Depth \in Nat /\ DOMAIN stack = 1 .. Depth /\ Depth > 0
  BY StackFacts DEF Running
<1>3. Depth \in DOMAIN stack /\ Top = stack[Depth]
  BY <1>2 DEF Top
<1>4. P \in Values /\ Direct[P] /\ Kind[Def[P].pointee] = "scalar"
  BY DefinitionsAssumption DEF Plain
<1> DEFINE place == PlaceOf(Top, P)
<1>5. Known(Depth, P)
  <2>1. RightBelow(Depth)
    BY <1>1, <1>3, PlacesAreRight DEF CallsInv
  <2>2. Right(Depth, P)
    BY <1>3, <1>4, <2>1 DEF RightBelow
  <2>3. place[1] \in TakenFor(Top, P)
    BY DEF TakenFor
  <2> QED
    BY <1>3, <2>2, <2>3 DEF Right
<1>6. Finds(Top.bind, place, P) /\ Relevant(Depth, place[1])
  BY <1>3, <1>5 DEF Known
<1>7. GoodTrees(Top.trees)
  BY <1>3 DEF TreeInv
<1>8. /\ getFieldError(Top.trees, Top.bind, P) = [entry |-> EntryAt(Top.trees[place[1]], place[2]), trap |-> FALSE]
      /\ place[2] \in Paths
  <2> DEFINE trees == Top.trees
             bind == Top.bind
  <2>1. GoodTrees(trees) /\ Finds(bind, place, P)
    BY <1>6, <1>7
  <2> HIDE DEF place, trees, bind
  <2>2. /\ getFieldError(trees, bind, P) = [entry |-> EntryAt(trees[place[1]], place[2]), trap |-> FALSE]
        /\ place[2] \in Paths
    BY <1>4, <2>1, LoadFinds
  <2> QED
    BY <2>2 DEF trees, bind
<1>9. EntryAt(Top.trees[place[1]], place[2]) = memory[<<place[1], place[2]>>]
  <2>1. \A e \in Depth + 1 .. Depth : FALSE
    BY <1>2
  <2>2. \A p \in Paths : EntryAt(stack[Depth].trees[place[1]], p) = memory[<<place[1], p>>]
    BY <1>1, <1>3, <1>6, <2>1 DEF StoresInv, TreesTell
  <2> QED
    BY <1>3, <1>8, <2>2
<1>10. place = <<place[1], place[2]>>
  <2>1. PlacesTyped(Top) /\ P \in Values
    BY <1>1, <1>3, <1>4, PlaceOwned DEF CallsInv
  <2> DEFINE a == Top
  <2> HIDE DEF a
  <2>2. PlaceOf(a, P) \in Values \X Seq(Nat)
    BY <2>1, PlacesUnfold DEF a
  <2> QED
    BY <2>2 DEF a
<1> QED
  BY <1>8, <1>9, <1>10

\* What the walker takes a pointer for is in its scope, or no variable.
LEMMA TakenInScope ==
  ASSUME BindInv, CallsInv, NEW d \in DOMAIN stack, NEW v \in InScope(d)
  PROVE  /\ \A o \in TakenFor(stack[d], v) : Def[o].kind = "aggregate" \/ o \in InScope(d)
         /\ LET root == retrieveRootPointer(stack[d].bind, v).root
            IN  root \in InScope(d) \cup {Null} \/ Def[root].kind = "aggregate"
<1> DEFINE bind == stack[d].bind
           S == InScope(d)
           root == retrieveRootPointer(bind, v).root
<1>1. Closed(bind, S) /\ S \in SUBSET Values
  BY ScopeClosed DEF InScope, CallsInv
<1>2. root \in S \cup {Null} \/ Def[root].kind = "aggregate"
  <2>1. v \in S
    OBVIOUS
  <2> HIDE DEF bind, S
  <2> QED
    BY <1>1, <2>1, WaysInside
<1>3. PlaceOf(stack[d], v)[1] \in S
  BY PlaceOwned DEF CallsInv
<1>4. Null \notin Objects
  BY DefinitionsAssumption DEF Objects
<1> HIDE DEF root
<1>5. \A o \in {PlaceOf(stack[d], v)[1], root} \cap Objects : Def[o].kind = "aggregate" \/ o \in S
  BY <1>2, <1>3, <1>4
<1> QED
  BY <1>2, <1>5 DEF TakenFor, root

\* Metadata make a tree.
LEMMA MetadataMakeTrees == \A v \in DOMAIN Info : FromMetadata(v) # NoTree
<1> SUFFICES ASSUME NEW v \in DOMAIN Info PROVE FromMetadata(v) # NoTree
  OBVIOUS
<1> DEFINE types == CHOOSE type \in NestedTypes(v) : TRUE
<1>1. types \in NestedTypes(v)
  BY MetadataAssumption
<1>2. <<>> \in NestedIn(v) /\ types \in [NestedIn(v) -> StructTypes]
  BY <1>1 DEF NestedTypes, NestedIn
<1>3. FromMetadata(v)[<<>>] = types[<<>>]
  <2> HIDE DEF types
  <2>1. FromMetadata(v) = [p \in Paths |-> CASE p \in NestedIn(v) -> types[p]
                                [] p \in DOMAIN Info[v] \ NestedIn(v) -> Info[v][p]
                                [] OTHER -> Absent]
    BY DEF FromMetadata, types
  <2> QED
    BY <1>2, <2>1, ContentsDiffer
<1> HIDE DEF types
<1>4. FromMetadata(v)[<<>>] # Absent
  BY <1>2, <1>3, ContentsDiffer
<1> QED
  BY <1>4, ContentsDiffer DEF NoTree

\* Activations that differ in their trees and in what they wrote only.
Same(a, b) == a.f = b.f /\ a.args = b.args /\ a.bind = b.bind /\ a.places = b.places

LEMMA SameMeans ==
  ASSUME NEW a, NEW b, Same(a, b)
  PROVE  /\ \A P : PlaceOf(a, P) = PlaceOf(b, P) /\ TakenFor(a, P) = TakenFor(b, P)
         /\ Handed(a) = Handed(b) /\ StructParams(a) = StructParams(b)
<1>1. \A P : PlaceOf(a, P) = PlaceOf(b, P)
  BY SamePlaces DEF Same
<1> QED
  BY <1>1 DEF Same, TakenFor, Handed, StructParams

LEMMA PassedSame ==
  ASSUME NEW a, NEW b, NEW c, NEW d, Same(a, b), Same(c, d), Passed(b, d)
  PROVE  Passed(a, c)
<1>1. PICK x \in Calls :
    /\ x.caller = b.f /\ x.callee = d.f /\ x.args = d.args
    /\ d.bind = initArgumentBindings(b.bind, x.callee, x.args)
    /\ d.places = [k \in DOMAIN x.args |-> PlaceOf(b, x.args[k])]
  BY DEF Passed
<1>2. \A P : PlaceOf(a, P) = PlaceOf(b, P)
  BY SameMeans
<1>3. /\ x.caller = a.f /\ x.callee = c.f /\ x.args = c.args
      /\ c.bind = initArgumentBindings(a.bind, x.callee, x.args)
      /\ c.places = [k \in DOMAIN x.args |-> PlaceOf(a, x.args[k])]
  BY <1>1, <1>2 DEF Same
<1> QED
  BY <1>3 DEF Passed

\* Steps keep what is so of the activations below.
LEMMA BelowKept ==
  ASSUME BindInv, CallsInv, NEW n \in 0 .. Depth, \A d \in 1 .. n : Same(stack'[d], stack[d])
  PROVE  /\ \A d \in 0 .. n : Scope(d)' = Scope(d)
         /\ \A d, e \in 1 .. n : stack'[d].f = stack'[e].f => d = e
         /\ n > 0 => stack'[1].places = <<>> /\ stack'[1].f = stack[1].f
         /\ \A d \in 2 .. n : /\ Passed(stack'[d - 1], stack'[d])
                              /\ \A k \in DOMAIN stack'[d].places :
                                   /\ stack'[d].places[k] \in Values \X Seq(Nat)
                                   /\ Def[stack'[d].places[k][1]].owner \in Scope(d - 1)' \cup {Null}
         /\ \A d \in 1 .. n : \A v : Relevant(d, v)' <=> Relevant(d, v)
<1>1. Depth \in Nat /\ DOMAIN stack = 1 .. Depth /\ n \in Nat /\ n <= Depth
  BY StackFacts
<1>2. \A d \in 1 .. n : d \in DOMAIN stack
  BY <1>1
<1>3. \A d \in 0 .. n : Scope(d)' = Scope(d)
  <2> SUFFICES ASSUME NEW d \in 0 .. n PROVE Scope(d)' = Scope(d)
    OBVIOUS
  <2>1. \A i \in 1 .. d : i \in 1 .. n
    BY <1>1
  <2>2. \A i \in 1 .. d : stack'[i].f = stack[i].f
    BY <2>1 DEF Same
  <2> QED
    BY <2>2 DEF Scope
<1>4. \A d, e \in 1 .. n : stack'[d].f = stack'[e].f => d = e
  BY <1>2 DEF Same, CallsInv, Distinct
<1>5. n > 0 => stack'[1].places = <<>> /\ stack'[1].f = stack[1].f
  <2> SUFFICES ASSUME n > 0 PROVE stack'[1].places = <<>> /\ stack'[1].f = stack[1].f
    OBVIOUS
  <2>1. 1 \in 1 .. n /\ stack # <<>>
    BY <1>1
  <2> QED
    BY <2>1 DEF Same, CallsInv, PassedInv
<1>6. ASSUME NEW d \in 2 .. n
      PROVE  /\ Passed(stack'[d - 1], stack'[d])
             /\ \A k \in DOMAIN stack'[d].places :
                  /\ stack'[d].places[k] \in Values \X Seq(Nat)
                  /\ Def[stack'[d].places[k][1]].owner \in Scope(d - 1)' \cup {Null}
  <2>1. d \in 1 .. n /\ d - 1 \in 1 .. n /\ d \in 2 .. Depth /\ d - 1 \in 0 .. n
    BY <1>1
  <2>2. Passed(stack'[d - 1], stack'[d])
    BY <2>1, PassedSame DEF CallsInv, PassedInv
  <2>3. stack'[d].places = stack[d].places /\ Scope(d - 1)' = Scope(d - 1)
    BY <1>3, <2>1 DEF Same
  <2> QED
    BY <2>1, <2>2, <2>3 DEF CallsInv, OwnersInv
<1>7. \A d \in 1 .. n : \A v : Relevant(d, v)' <=> Relevant(d, v)
  <2> TAKE d \in 1 .. n
  <2>1. n > 0 /\ d \in 0 .. n
    BY <1>1
  <2> QED
    BY <1>3, <1>5, <2>1 DEF Relevant
<1> QED
  BY <1>3, <1>4, <1>5, <1>6, <1>7

\* Stacks that differ in the trees of activation m and in what it wrote.
Differ(after, s, m, t, w) ==
  /\ DOMAIN after = DOMAIN s /\ Len(after) = Len(s)
  /\ \A d \in DOMAIN s : /\ Same(after[d], s[d])
                         /\ after[d].trees = IF d = m THEN t ELSE s[d].trees
                         /\ after[d].wrote = IF d = m THEN w ELSE s[d].wrote

LEMMA ActivationReplaced ==
  ASSUME NEW F, NEW Q, NEW s \in Seq(Activations(F, Q)), NEW m \in DOMAIN s, NEW t, NEW w
  PROVE  Differ([s EXCEPT ![m].trees = t, ![m].wrote = w], s, m, t, w)
<1> DEFINE x == s[m]
           after == [s EXCEPT ![m].trees = t, ![m].wrote = w]
           new == [x EXCEPT !.trees = t, !.wrote = w]
<1>1. s[m] \in Activations(F, Q)
  OBVIOUS
<1>2. new.trees = t /\ new.wrote = w /\ Same(new, x)
  BY <1>1 DEF Activations, Same
<1>3. after = [s EXCEPT ![m] = new]
  OBVIOUS
<1> HIDE DEF new
<1>4. /\ DOMAIN after = DOMAIN s /\ Len(after) = Len(s)
      /\ \A d \in DOMAIN s : after[d] = IF d = m THEN new ELSE s[d]
  BY <1>3
<1>5. \A d : Same(s[d], s[d])
  BY DEF Same
<1> HIDE DEF after
<1> QED
  BY <1>2, <1>4, <1>5 DEF after, Differ

\* In particular those of the running one.
LEMMA TopReplaced ==
  ASSUME BindInv, Running, NEW t, NEW w,
         stack' = [stack EXCEPT ![Depth].trees = t, ![Depth].wrote = w]
  PROVE  Depth' = Depth /\ Differ(stack', stack, Depth, t, w)
<1>1. Depth \in DOMAIN stack /\ DOMAIN stack = 1 .. Depth
  BY StackFacts DEF Running
<1>2. PICK F, Q : stack \in Seq(Activations(F, Q))
  BY DEF BindInv, StackShape
<1> DEFINE m == Depth
           s == stack
           after == [s EXCEPT ![m].trees = t, ![m].wrote = w]
<1>3. m \in DOMAIN s /\ stack' = after /\ s \in Seq(Activations(F, Q))
  BY <1>1, <1>2
<1>4. Differ(after, s, m, t, w)
  <2> HIDE DEF m, s
  <2> QED
    BY <1>3, ActivationReplaced
<1> HIDE DEF after
<1>5. Differ(stack', stack, Depth, t, w)
  BY <1>3, <1>4
<1> QED
  BY <1>1, <1>5 DEF Differ, Depth

\* What the calls have passed stays so.
LEMMA CallsKept ==
  ASSUME BindInv, CallsInv, NEW n \in 1 .. Depth, Depth' = n, DOMAIN stack' = 1 .. n,
         \A d \in 1 .. n : Same(stack'[d], stack[d]),
         \A d \in 2 .. n : \A k \in StructParams(stack[d]) :
           ~Direct[stack[d].args[k]] => TakenFor(stack[d - 1], stack[d].args[k]) \subseteq stale'
  PROVE  CallsInv'
<1>1. Depth \in Nat /\ n \in Nat /\ n > 0 /\ n \in 0 .. Depth
  BY StackFacts
<1>2. /\ \A d \in 0 .. n : Scope(d)' = Scope(d)
      /\ \A d, e \in 1 .. n : stack'[d].f = stack'[e].f => d = e
      /\ n > 0 => stack'[1].places = <<>> /\ stack'[1].f = stack[1].f
      /\ \A d \in 2 .. n : /\ Passed(stack'[d - 1], stack'[d])
                           /\ \A k \in DOMAIN stack'[d].places :
                                /\ stack'[d].places[k] \in Values \X Seq(Nat)
                                /\ Def[stack'[d].places[k][1]].owner \in Scope(d - 1)' \cup {Null}
  BY <1>1, BelowKept
<1>3. Distinct'
  BY <1>2 DEF Distinct
<1>4. PassedInv'
  BY <1>1, <1>2 DEF PassedInv
<1>5. OwnersInv'
  BY <1>2 DEF OwnersInv
<1>6. Misread'
  <2> SUFFICES ASSUME NEW d \in 2 .. n, NEW k \in StructParams(stack'[d]), ~Direct[stack'[d].args[k]]
               PROVE  TakenFor(stack'[d - 1], stack'[d].args[k]) \subseteq stale'
    BY DEF Misread
  <2>1. d \in 1 .. n /\ d - 1 \in 1 .. n
    BY <1>1
  <2>2. /\ StructParams(stack'[d]) = StructParams(stack[d]) /\ stack'[d].args = stack[d].args
        /\ \A P : TakenFor(stack'[d - 1], P) = TakenFor(stack[d - 1], P)
    BY <2>1, SameMeans DEF Same
  <2> QED
    BY <2>2
<1> QED
  BY <1>3, <1>4, <1>5, <1>6 DEF CallsInv

\* The metadata of an alloca, read when it runs.
LEMMA EvaluateReads ==
  ASSUME BindInv, TreeInv, CallsInv, StoresInv, NEW v \in Objects, Evaluate(v)
  PROVE  CallsInv' /\ StoresInv'
<1> DEFINE n == Depth
           t == [Top.trees EXCEPT ![v] = FromMetadata(v)]
<1>1. /\ Running /\ Def[v].kind \in {"alloca", "aggregate"} /\ Def[v].owner = Top.f
      /\ v \in DOMAIN Info
      /\ stack' = [stack EXCEPT ![Depth].trees[v] = FromMetadata(v)]
      /\ memory' = Forget(v, FromMetadata(v))
      /\ stale' = IF Def[v].kind = "alloca" THEN stale \ {v} ELSE stale
  BY DEF Evaluate
<1>2. /\ n \in Nat /\ n > 0 /\ DOMAIN stack = 1 .. n /\ n \in 1 .. Depth /\ n \in DOMAIN stack
      /\ Top = stack[n]
  <2>1. Depth \in Nat /\ DOMAIN stack = 1 .. Depth /\ Depth > 0
    BY <1>1, StackFacts DEF Running
  <2> QED
    BY <2>1 DEF Top
<1>3. /\ Depth' = n /\ DOMAIN stack' = 1 .. n
      /\ \A d \in 1 .. n : /\ Same(stack'[d], stack[d])
                           /\ stack'[d].trees = IF d = n THEN t ELSE stack[d].trees
                           /\ stack'[d].wrote = stack[d].wrote
  <2>1. PICK F, Q : stack \in Seq(Activations(F, Q))
    BY DEF BindInv, StackShape
  <2>2. stack[n] \in Activations(F, Q)
    BY <1>2, <2>1
  <2>3. [stack[n] EXCEPT !.trees = t] = [stack[n] EXCEPT !.trees = t, !.wrote = stack[n].wrote]
    BY <2>2 DEF Activations
  <2>4. stack' = [stack EXCEPT ![n].trees = t, ![n].wrote = stack[n].wrote]
    BY <1>1, <1>2, <2>1, <2>3
  <2> DEFINE w == stack[n].wrote
  <2> HIDE DEF t, w
  <2>5. stack' = [stack EXCEPT ![Depth].trees = t, ![Depth].wrote = w]
    BY <2>4 DEF w
  <2>6. Depth' = Depth /\ Differ(stack', stack, Depth, t, w)
    BY <1>1, <2>5, TopReplaced
  <2> QED
    BY <1>2, <2>6 DEF Differ, w
<1>4. n \in 0 .. Depth /\ \A d \in 1 .. n : Same(stack'[d], stack[d])
  BY <1>2, <1>3
<1> HIDE DEF n, t
<1>5. /\ \A d \in 0 .. n : Scope(d)' = Scope(d)
      /\ \A d \in 1 .. n : \A u : Relevant(d, u)' <=> Relevant(d, u)
  BY <1>4, BelowKept
<1>6. v \in Values /\ Def[v].owner # Null /\ Def[v].owner \notin Scope(n - 1)
      /\ \A d \in 0 .. n - 1 : Scope(d) \subseteq Scope(n - 1)
  <2>1. v \in Values
    BY DEF Objects
  <2>2. Def[v].owner # Null
    BY <1>1, <1>2, <2>1, StackFacts, DefinitionsAssumption
  <2>3. stack[n].f \notin Scope(n - 1)
    BY <1>2, NotBelow DEF CallsInv
  <2>4. \A d \in 0 .. n - 1 : 1 .. d \subseteq 1 .. n - 1
    BY <1>2
  <2>5. \A d \in 0 .. n - 1 : Scope(d) \subseteq Scope(n - 1)
    BY <2>4 DEF Scope
  <2> QED
    BY <1>1, <1>2, <2>1, <2>2, <2>3, <2>5
<1>7. ASSUME NEW d \in 2 .. n, NEW k \in StructParams(stack[d]), ~Direct[stack[d].args[k]]
      PROVE  TakenFor(stack[d - 1], stack[d].args[k]) \subseteq stale'
  <2>1. d \in 2 .. Depth /\ d - 1 \in DOMAIN stack /\ d - 1 \in 1 .. Depth /\ d - 1 \in 0 .. n - 1 /\ d \in DOMAIN stack
    BY <1>2, n = Depth DEF n
  <2>2. TakenFor(stack[d - 1], stack[d].args[k]) \subseteq stale
    BY <1>7, <2>1 DEF CallsInv, Misread
  <2>3. stack[d].args[k] \in InScope(d - 1)
    <3>1. PICK c \in Calls : c.caller = stack[d - 1].f /\ c.args = stack[d].args
      BY <2>1 DEF CallsInv, PassedInv, Passed
    <3>2. k \in DOMAIN stack[d].args
      BY DEF StructParams
    <3>3. stack[d].args[k] \in Values /\ Def[stack[d].args[k]].owner \in {stack[d - 1].f, Null}
      <4>1. stack[d].args \in Seq(Values)
        BY <2>1, StackFacts
      <4> QED
        BY <3>1, <3>2, <4>1, CallsAssumption
    <3>4. stack[d - 1].f \in Scope(d - 1)
      BY <2>1, ScopeFacts
    <3> QED
      BY <3>3, <3>4 DEF InScope
  <2>4. \A o \in TakenFor(stack[d - 1], stack[d].args[k]) : Def[o].kind = "aggregate" \/ o \in InScope(d - 1)
    BY <2>1, <2>3, TakenInScope
  <2>5. v \notin InScope(d - 1)
    BY <1>6, <2>1 DEF InScope
  <2> QED
    BY <1>1, <2>2, <2>4, <2>5
<1>8. CallsInv'
  BY <1>2, <1>3, <1>7, CallsKept DEF n
<1>9. OnlyHanded'
  <2> SUFFICES ASSUME NEW d \in 1 .. n, NEW u \in stack'[d].wrote \ stale'
               PROVE  Def[u].kind = "global" \/ u \in Handed(stack'[d]) \/ Def[u].owner \notin Scope(d - 1)'
    BY <1>3 DEF OnlyHanded
  <2>1. d - 1 \in 0 .. n /\ d - 1 \in 0 .. n - 1 /\ d \in DOMAIN stack
    BY <1>2
  <2>2. Handed(stack'[d]) = Handed(stack[d]) /\ Scope(d - 1)' = Scope(d - 1) /\ u \in stack[d].wrote
    BY <1>3, <1>5, <2>1, SameMeans
  <2>3. CASE u = v
    BY <1>6, <2>1, <2>2, <2>3
  <2>4. CASE u # v
    BY <1>1, <2>1, <2>2, <2>4 DEF StoresInv, OnlyHanded
  <2> QED
    BY <2>3, <2>4
<1>10. \A u \in Objects : \A p \in Paths :
         memory'[<<u, p>>] = IF u = v THEN EntryAt(FromMetadata(v), p) ELSE memory[<<u, p>>]
  BY <1>1 DEF Forget
<1>11. TreesTell'
  <2> SUFFICES ASSUME NEW d \in 1 .. n, NEW u \in Objects \ stale', Relevant(d, u),
                      \A e \in d + 1 .. n : u \notin stack'[e].wrote, NEW p \in Paths
               PROVE  EntryAt(stack'[d].trees[u], p) = memory'[<<u, p>>]
    BY <1>3, <1>5 DEF TreesTell
  <2>1. CASE u = v
    <3>1. d = n
      <4> SUFFICES ASSUME d # n PROVE FALSE
        OBVIOUS
      <4>1. d \in 0 .. n - 1 /\ stack # <<>>
        BY <1>1, <1>2 DEF Running
      <4>2. Def[v].owner \notin Scope(d)
        BY <1>6, <4>1
      <4> QED
        BY <1>1, <2>1, <4>2 DEF Relevant
    <3>2. stack'[d].trees[u] = FromMetadata(v)
      <4>1. v \in DOMAIN Top.trees
        BY <1>2 DEF TreeInv, GoodTrees
      <4> QED
        BY <1>3, <2>1, <3>1, <4>1 DEF t
    <3> QED
      BY <1>10, <2>1, <3>2
  <2>2. CASE u # v
    <3>1. u \in Objects \ stale /\ d \in DOMAIN stack
      BY <1>1, <1>2, <2>2
    <3>2. \A e \in d + 1 .. n : e \in 1 .. n
      BY <1>2
    <3>3. \A e \in d + 1 .. Depth : u \notin stack[e].wrote
      BY <1>3, <3>2 DEF n
    <3>4. EntryAt(stack[d].trees[u], p) = memory[<<u, p>>]
      BY <3>1, <3>3 DEF StoresInv, TreesTell
    <3>5. stack'[d].trees[u] = stack[d].trees[u]
      <4>1. CASE d = n
        <5>1. stack'[d].trees = t
          BY <1>3, <4>1
        <5> QED
          BY <1>2, <2>2, <4>1, <5>1 DEF t
      <4>2. CASE d # n
        BY <1>3, <4>2
      <4> QED
        BY <4>1, <4>2
    <3> QED
      BY <1>10, <2>2, <3>4, <3>5
  <2> QED
    BY <2>1, <2>2
<1>12. NoTreesYet'
  <2> SUFFICES ASSUME NEW d \in 1 .. n, NEW u \in Objects, Def[u].kind = "alloca",
                      Def[u].owner \notin Scope(d)
               PROVE  stack'[d].trees[u] = NoTree
    BY <1>3, <1>5 DEF NoTreesYet
  <2>1. stack[d].trees[u] = NoTree
    BY <1>2 DEF StoresInv, NoTreesYet
  <2>2. CASE d = n
    <3>1. u # v
      <4>1. stack[n].f \in Scope(n)
        BY <1>2, ScopeFacts
      <4> QED
        BY <1>1, <1>2, <2>2, <4>1
    <3>2. stack'[d].trees = t
      BY <1>3, <2>2
    <3> QED
      BY <1>2, <2>1, <2>2, <3>1, <3>2 DEF t
  <2>3. CASE d # n
    BY <1>3, <2>1, <2>3
  <2> QED
    BY <2>2, <2>3
<1>13. TreesStay'
  <2> SUFFICES ASSUME NEW d \in 2 .. n, NEW u \in Objects, stack'[d].trees[u] = NoTree
               PROVE  stack'[d - 1].trees[u] = NoTree
    BY <1>3 DEF TreesStay
  <2>1. d \in 1 .. n /\ d - 1 \in 1 .. n /\ d - 1 # n /\ d \in 2 .. Depth
    BY <1>2 DEF n
  <2>2. stack'[d - 1].trees = stack[d - 1].trees
    BY <1>3, <2>1
  <2>3. CASE stack[d].trees[u] = NoTree
    BY <2>1, <2>2, <2>3 DEF StoresInv, TreesStay
  <2>4. CASE stack[d].trees[u] # NoTree
    <3>1. d = n
      BY <1>3, <2>1, <2>4
    <3>2. u = v /\ stack'[d].trees[u] = FromMetadata(v)
      <4>1. stack'[d].trees = t
        BY <1>3, <2>1, <3>1
      <4>2. u # v => t[u] = stack[d].trees[u]
        BY <1>2, <3>1 DEF t
      <4>3. v \in DOMAIN Top.trees
        BY <1>2 DEF TreeInv, GoodTrees
      <4> QED
        BY <2>4, <4>1, <4>2, <4>3 DEF t
    <3>3. FromMetadata(v) # NoTree
      BY <1>1, MetadataTree
    <3> QED
      BY <3>2, <3>3
  <2> QED
    BY <2>3, <2>4
<1> QED
  BY <1>8, <1>9, <1>11, <1>12, <1>13 DEF StoresInv

\* A store changes the tree of the object that the walker takes the pointer for.
LEMMA StoreReads ==
  ASSUME BindInv, TreeInv, CallsInv, StoresInv, NEW P \in Accessed, NEW e \in Errors,
         Store(P, e), ~trapped'
  PROVE  CallsInv' /\ StoresInv'
<1> DEFINE n == Depth
           bind == Top.bind
           trees == Top.trees
           result == setFieldError(trees, bind, P, e)
           place == PlaceOf(Top, P)
           root == retrieveRootPointer(bind, P).root
           t == result.trees
           w == Top.wrote \cup ({place[1]} \cap Objects)
<1>1. /\ Running /\ Uses(Top.f, P) /\ result.trap = FALSE
      /\ stack' = [stack EXCEPT ![Depth].trees = t, ![Depth].wrote = @ \cup ({place[1]} \cap Objects)]
      /\ memory' = IF ~Plain(P) THEN Forget(place[1], NoTree)
                   ELSE IF place[1] \in Objects \ stale THEN [memory EXCEPT ![place] = e]
                   ELSE memory
      /\ stale' = IF Plain(P) THEN stale ELSE stale \cup TakenFor(Top, P)
  <2>1. result.trap = trapped'
    BY DEF Store
  <2>2. Running
    BY DEF Store
  <2>3. GoodTrees(trees)
    <3>1. Depth \in DOMAIN stack
      BY <2>2, StackFacts DEF Running
    <3> QED
      BY <3>1 DEF TreeInv, Top
  <2>4. result.trap \in BOOLEAN
    <3>1. P \in Values /\ e \in Entries
      BY DefinitionsAssumption DEF Entries
    <3> HIDE DEF trees, bind
    <3> QED
      BY <2>3, <3>1, StoreKeepsTrees
  <2> QED
    BY <2>1, <2>4 DEF Store
<1>2. /\ n \in Nat /\ n > 0 /\ DOMAIN stack = 1 .. n /\ n \in 1 .. Depth /\ n \in DOMAIN stack
      /\ Top = stack[n]
  <2>1. Depth \in Nat /\ DOMAIN stack = 1 .. Depth /\ Depth > 0
    BY <1>1, StackFacts DEF Running
  <2> QED
    BY <2>1 DEF Top
<1>3. Depth' = n /\ Differ(stack', stack, n, t, w)
  <2>1. PICK F, Q : stack \in Seq(Activations(F, Q))
    BY DEF BindInv, StackShape
  <2>2. stack[n] \in Activations(F, Q)
    BY <1>2, <2>1
  <2> DEFINE new == {place[1]} \cap Objects
  <2>3. stack' = [stack EXCEPT ![Depth].trees = t, ![Depth].wrote = @ \cup new]
    BY <1>1
  <2>4. w = stack[n].wrote \cup new
    BY <1>2
  <2> HIDE DEF t, w, new
  <2>5. [stack[n] EXCEPT !.trees = t, !.wrote = @ \cup new] = [stack[n] EXCEPT !.trees = t, !.wrote = w]
    BY <2>2, <2>4 DEF Activations
  <2>6. stack' = [stack EXCEPT ![Depth].trees = t, ![Depth].wrote = w]
    BY <1>2, <2>1, <2>3, <2>5
  <2> QED
    BY <1>1, <2>6, TopReplaced
<1>4. /\ n \in 0 .. Depth /\ DOMAIN stack' = 1 .. n
      /\ \A d \in 1 .. n : /\ Same(stack'[d], stack[d])
                           /\ stack'[d].trees = IF d = n THEN t ELSE stack[d].trees
                           /\ stack'[d].wrote = IF d = n THEN w ELSE stack[d].wrote
  <2> HIDE DEF t, w
  <2> QED
    BY <1>2, <1>3 DEF Differ
<1>5. /\ P \in Values /\ e \in Nat /\ e \in Entries /\ P \in InScope(n) /\ GoodTrees(trees)
      /\ stack[n].f \notin Scope(n - 1) /\ stack[n].f \in Scope(n)
  <2>1. stack[n].f \in Scope(n)
    BY <1>2, ScopeFacts
  <2>2. stack[n].f \notin Scope(n - 1)
    BY <1>2, NotBelow DEF CallsInv
  <2> QED
    BY <1>1, <1>2, <2>1, <2>2, DefinitionsAssumption DEF InScope, Uses, TreeInv, Entries
<1> HIDE DEF n
<1>6. /\ \A d \in 0 .. n : Scope(d)' = Scope(d)
      /\ \A d \in 1 .. n : \A u : Relevant(d, u)' <=> Relevant(d, u)
  BY <1>4, BelowKept
<1>7. \A u \in Objects : /\ u # root => t[u] = trees[u]
                         /\ t[u] = NoTree => trees[u] = NoTree
  <2> HIDE DEF trees, bind
  <2>1. OthersKept(setFieldError(trees, bind, P, e).trees, trees, retrieveRootPointer(bind, P).root)
    BY <1>5, StoreElsewhere
  <2> QED
    BY <2>1 DEF OthersKept
<1>8. TakenFor(Top, P) = {place[1], root} \cap Objects
  BY DEF TakenFor
<1>9. stale \subseteq stale'
  BY <1>1
<1>10. \/ TakenFor(Top, P) \subseteq stale'
       \/ Plain(P) /\ Known(n, P) /\ place[1] \in Objects \ stale
  <2>1. CASE ~Plain(P)
    BY <1>1, <2>1
  <2>2. CASE Plain(P)
    <3>1. RightBelow(n)
      BY <1>2, PlacesAreRight DEF CallsInv
    <3>2. Right(n, P)
      BY <1>1, <1>2, <1>5, <2>2, <3>1 DEF RightBelow, Plain
    <3>3. CASE Known(n, P)
      <4>1. root = place[1] /\ place[1] \in Objects
        BY <1>2, <3>3, RootsAreObjects DEF Known, Finds
      <4> QED
        BY <1>1, <1>8, <2>2, <3>3, <4>1
    <3> QED
      BY <1>1, <1>2, <2>2, <3>2, <3>3 DEF Right
  <2> QED
    BY <2>1, <2>2
<1> HIDE DEF t, w, result
<1>11. CallsInv'
  <2>1. ASSUME NEW d \in 2 .. n, NEW k \in StructParams(stack[d]), ~Direct[stack[d].args[k]]
        PROVE  TakenFor(stack[d - 1], stack[d].args[k]) \subseteq stale'
    BY <1>9, <2>1 DEF CallsInv, Misread, n
  <2>2. n \in 1 .. Depth /\ Depth' = n /\ DOMAIN stack' = 1 .. n /\ \A d \in 1 .. n : Same(stack'[d], stack[d])
    BY <1>2, <1>3, <1>4
  <2> QED
    BY <2>1, <2>2, CallsKept
<1>12. OnlyHanded'
  <2> SUFFICES ASSUME NEW d \in 1 .. n, NEW u \in stack'[d].wrote \ stale'
               PROVE  Def[u].kind = "global" \/ u \in Handed(stack'[d]) \/ Def[u].owner \notin Scope(d - 1)'
    BY <1>4 DEF OnlyHanded
  <2>1. d - 1 \in 0 .. n /\ d \in DOMAIN stack
    BY <1>2
  <2>2. Handed(stack'[d]) = Handed(stack[d]) /\ Scope(d - 1)' = Scope(d - 1)
    BY <1>4, <1>6, <2>1, SameMeans
  <2>3. CASE u \in stack[d].wrote
    BY <1>9, <2>1, <2>2, <2>3 DEF StoresInv, OnlyHanded
  <2>4. CASE u \notin stack[d].wrote
    <3>1. d = n
      BY <1>4, <2>4
    <3>2. stack'[d].wrote = w
      BY <1>4, <3>1
    <3>3. u = place[1] /\ u \in Objects
      BY <1>2, <2>4, <3>1, <3>2 DEF w
    <3>4. Known(n, P)
      BY <1>8, <1>10, <3>3
    <3> QED
      BY <1>2, <1>5, <2>2, <3>1, <3>3, <3>4 DEF Known
  <2> QED
    BY <2>3, <2>4
<1>13. \A u \in Objects \ TakenFor(Top, P) : \A p \in Paths : memory'[<<u, p>>] = memory[<<u, p>>]
  <2> TAKE u \in Objects \ TakenFor(Top, P)
  <2> TAKE p \in Paths
  <2>1. u # place[1] /\ <<u, p>> \in Objects \X Paths
    BY <1>8
  <2>2. CASE ~Plain(P)
    BY <1>1, <2>1, <2>2 DEF Forget
  <2>3. CASE Plain(P) /\ place[1] \in Objects \ stale
    <3>1. place # <<u, p>>
      BY <2>1
    <3>2. memory' = [memory EXCEPT ![place] = e] /\ memory \in [Objects \X Paths -> Entries \cup {Absent}]
      BY <1>1, <2>3 DEF TreeInv
    <3> HIDE DEF place
    <3> QED
      BY <2>1, <3>1, <3>2
  <2>4. CASE Plain(P) /\ place[1] \notin Objects \ stale
    BY <1>1, <2>4
  <2> QED
    BY <2>2, <2>3, <2>4
<1>14. TreesTell'
  <2> SUFFICES ASSUME NEW d \in 1 .. n, NEW u \in Objects \ stale', Relevant(d, u),
                      \A i \in d + 1 .. n : u \notin stack'[i].wrote, NEW p \in Paths
               PROVE  EntryAt(stack'[d].trees[u], p) = memory'[<<u, p>>]
    BY <1>3, <1>4, <1>6 DEF TreesTell
  <2>1. u \in Objects \ stale /\ d \in DOMAIN stack
    BY <1>2, <1>9
  <2>2. \A i \in d + 1 .. Depth : u \notin stack[i].wrote
    <3> SUFFICES ASSUME NEW i \in d + 1 .. n PROVE u \notin stack[i].wrote
      BY DEF n
    <3>1. i \in 1 .. n
      BY <1>2
    <3>2. u \notin stack'[i].wrote
      OBVIOUS
    <3>3. CASE i = n
      <4>1. stack'[i].wrote = w
        BY <1>4, <3>1, <3>3
      <4> QED
        BY <1>2, <3>2, <3>3, <4>1 DEF w
    <3>4. CASE i # n
      BY <1>4, <3>1, <3>2, <3>4
    <3> QED
      BY <3>3, <3>4
  <2>3. EntryAt(stack[d].trees[u], p) = memory[<<u, p>>]
    BY <2>1, <2>2 DEF StoresInv, TreesTell
  <2>4. CASE u \notin TakenFor(Top, P)
    <3>1. stack'[d].trees[u] = stack[d].trees[u]
      <4>1. CASE d = n
        <5>1. stack'[d].trees = t
          BY <1>4, <4>1
        <5>2. u # root
          BY <1>8, <2>1, <2>4
        <5> QED
          BY <1>2, <1>7, <2>1, <4>1, <5>1, <5>2
      <4>2. CASE d # n
        BY <1>4, <4>2
      <4> QED
        BY <4>1, <4>2
    <3>2. memory'[<<u, p>>] = memory[<<u, p>>]
      BY <1>13, <2>1, <2>4
    <3> QED
      BY <2>3, <3>1, <3>2
  <2>5. CASE u \in TakenFor(Top, P)
    <3>1. Plain(P) /\ Known(n, P) /\ place[1] \in Objects \ stale
      BY <1>10, <2>5
    <3>2. Finds(bind, place, P)
      BY <1>2, <3>1 DEF Known
    <3>3. u = place[1]
      BY <1>8, <2>5, <3>2 DEF Finds
    <3>4. d = n
      <4> SUFFICES ASSUME d # n PROVE FALSE
        OBVIOUS
      <4>1. n \in d + 1 .. n /\ n \in 1 .. n
        BY <1>2
      <4>2. stack'[n].wrote = w
        BY <1>4, <4>1
      <4> QED
        BY <3>1, <3>3, <4>1, <4>2 DEF w
    <3>5. stack'[d].trees = t
      BY <1>4, <3>4
    <3>6. EntryAt(t[u], p) = IF p = place[2] THEN e ELSE EntryAt(trees[u], p)
      <4>1. Kind[Def[P].pointee] = "scalar"
        BY <3>1 DEF Plain
      <4> HIDE DEF trees, bind, place
      <4>2. Tells(setFieldError(trees, bind, P, e), trees, place, e)
        BY <1>5, <3>2, <4>1, StoreTells
      <4> QED
        BY <3>3, <4>2 DEF t, result, Tells
    <3>7. memory'[<<u, p>>] = IF p = place[2] THEN e ELSE memory[<<u, p>>]
      <4>1. memory' = [memory EXCEPT ![place] = e] /\ memory \in [Objects \X Paths -> Entries \cup {Absent}]
        BY <1>1, <3>1 DEF TreeInv
      <4>2. place = <<place[1], place[2]>>
        <5>1. PlaceOf(stack[n], P) \in Values \X Seq(Nat)
          BY <1>2, <1>5, PlaceOwned DEF CallsInv
        <5> QED
          BY <1>2, <5>1
      <4> HIDE DEF place
      <4>3. <<u, p>> = place <=> p = place[2]
        BY <3>3, <4>2
      <4>4. <<u, p>> \in Objects \X Paths
        BY <2>1
      <4> QED
        BY <4>1, <4>3, <4>4
    <3> QED
      BY <1>2, <2>3, <3>4, <3>5, <3>6, <3>7
  <2> QED
    BY <2>4, <2>5
<1>15. NoTreesYet'
  <2> SUFFICES ASSUME NEW d \in 1 .. n, NEW u \in Objects, Def[u].kind = "alloca",
                      Def[u].owner \notin Scope(d)
               PROVE  stack'[d].trees[u] = NoTree
    BY <1>4, <1>6 DEF NoTreesYet
  <2>1. stack[d].trees[u] = NoTree
    BY <1>2 DEF StoresInv, NoTreesYet
  <2>2. CASE d = n
    <3>1. u # root
      <4>1. root \in InScope(n) \cup {Null} \/ Def[root].kind = "aggregate"
        BY <1>2, <1>5, TakenInScope
      <4>2. u \in Values /\ u # Null /\ Def[u].owner # Null
        BY DefinitionsAssumption, OperandsAssumption DEF Objects
      <4> QED
        BY <2>2, <4>1, <4>2 DEF InScope
    <3>2. stack'[d].trees = t
      BY <1>4, <2>2
    <3> QED
      BY <1>2, <1>7, <2>1, <2>2, <3>1, <3>2
  <2>3. CASE d # n
    BY <1>4, <2>1, <2>3
  <2> QED
    BY <2>2, <2>3
<1>16. TreesStay'
  <2> SUFFICES ASSUME NEW d \in 2 .. n, NEW u \in Objects, stack'[d].trees[u] = NoTree
               PROVE  stack'[d - 1].trees[u] = NoTree
    BY <1>3 DEF TreesStay
  <2>1. d \in 1 .. n /\ d - 1 \in 1 .. n /\ d - 1 # n /\ d \in 2 .. Depth
    BY <1>2 DEF n
  <2>2. stack'[d - 1].trees = stack[d - 1].trees
    BY <1>4, <2>1
  <2>3. stack[d].trees[u] = NoTree
    <3>1. CASE d = n
      <4>1. stack'[d].trees = t
        BY <1>4, <2>1, <3>1
      <4> QED
        BY <1>2, <1>7, <3>1, <4>1
    <3>2. CASE d # n
      BY <1>4, <2>1, <3>2
    <3> QED
      BY <3>1, <3>2
  <2> QED
    BY <2>1, <2>2, <2>3 DEF StoresInv, TreesStay
<1> QED
  BY <1>11, <1>12, <1>14, <1>15, <1>16 DEF StoresInv

\* A call copies the caller's trees, and passes what its arguments denote.
LEMMA CallReads ==
  ASSUME BindInv, TreeInv, CallsInv, StoresInv, NEW c \in Calls, Call(c), ~again'
  PROVE  CallsInv' /\ StoresInv'
<1> DEFINE n == Depth
           f == c.callee
           trees == RetrieveArguments(Top.trees, f)
           places == [k \in DOMAIN c.args |-> PlaceOf(Top, c.args[k])]
           new == [f |-> f, args |-> c.args, trees |-> trees,
                   bind |-> initArgumentBindings(Top.bind, c.callee, c.args),
                   places |-> places, wrote |-> {}]
<1>1. /\ Running /\ c.caller = Top.f /\ stack' = Append(stack, new) /\ ~again /\ Active(f) = {}
      /\ memory' = [o \in Objects \X Paths |->
           IF Def[o[1]].kind = "alloca" /\ Def[o[1]].owner = f THEN Absent ELSE memory[o]]
      /\ stale' = stale \cup UNION {TakenFor(Top, P) : P \in {P \in Range(c.args) :
                                        Def[P].pointee \in StructTypes /\ ~Direct[P]}}
  BY DEF Call
<1>2. /\ n \in Nat /\ n > 0 /\ DOMAIN stack = 1 .. n /\ n \in 1 .. Depth /\ n \in DOMAIN stack
      /\ Top = stack[n] /\ n \in 0 .. Depth
  <2>1. Depth \in Nat /\ DOMAIN stack = 1 .. Depth /\ Depth > 0
    BY <1>1, StackFacts DEF Running
  <2> QED
    BY <2>1 DEF Top
<1>m. PICK m \in Nat : m = n + 1
  BY <1>2
<1>3. /\ new.f = f /\ new.args = c.args /\ new.trees = trees /\ new.places = places /\ new.wrote = {}
      /\ new.bind = initArgumentBindings(Top.bind, c.callee, c.args)
  OBVIOUS
<1>4. /\ Depth' = m /\ DOMAIN stack' = 1 .. m /\ stack'[m] = new
      /\ \A d \in 1 .. n : stack'[d] = stack[d]
  <2>1. PICK F, Q : stack \in Seq(Activations(F, Q))
    BY DEF BindInv, StackShape
  <2> HIDE DEF new
  <2> QED
    BY <1>1, <1>2, <1>m, <2>1 DEF Depth
<1> HIDE DEF new, places, trees
<1>5. f \in Functions /\ \A d \in 0 .. n : f \notin Scope(d)
  <2>1. \A d \in 1 .. n : stack[d].f # f
    BY <1>1, <1>2 DEF Active
  <2>2. \A d \in 0 .. n : \A i \in 1 .. d : i \in 1 .. n
    BY <1>2
  <2> QED
    BY <2>1, <2>2, CallsAssumption DEF Scope
<1>6. /\ n \in 0 .. Depth /\ \A d \in 1 .. n : Same(stack'[d], stack[d])
  BY <1>2, <1>4 DEF Same
<1>7. /\ \A d \in 0 .. n : Scope(d)' = Scope(d)
      /\ \A d, e \in 1 .. n : stack'[d].f = stack'[e].f => d = e
      /\ n > 0 => stack'[1].places = <<>> /\ stack'[1].f = stack[1].f
      /\ \A d \in 2 .. n : /\ Passed(stack'[d - 1], stack'[d])
                           /\ \A k \in DOMAIN stack'[d].places :
                                /\ stack'[d].places[k] \in Values \X Seq(Nat)
                                /\ Def[stack'[d].places[k][1]].owner \in Scope(d - 1)' \cup {Null}
      /\ \A d \in 1 .. n : \A u : Relevant(d, u)' <=> Relevant(d, u)
  <2> HIDE DEF n
  <2> QED
    BY <1>6, BelowKept
<1>8. /\ m \in Nat /\ m > 1 /\ m - 1 = n /\ \A d \in 1 .. m : d \in 1 .. n \/ d = m
      /\ \A d \in 2 .. m : d \in 2 .. n \/ d = m
      /\ 1 \in 1 .. n
  BY <1>2, <1>m
<1>9. stale \subseteq stale'
  BY <1>1
<1>10. /\ DOMAIN c.args = DOMAIN Formals[f] /\ c.args \in Seq(Values)
       /\ \A k \in DOMAIN c.args : /\ c.args[k] \in InScope(n)
                                   /\ Def[c.args[k]].pointee = Def[Formals[f][k]].pointee
  <2>1. stack[n].f \in Scope(n)
    BY <1>2, ScopeFacts
  <2>2. c.args \in Seq(Values) /\ DOMAIN c.args = DOMAIN Formals[f]
        /\ \A k \in DOMAIN c.args : /\ Def[c.args[k]].owner \in {c.caller, Null}
                                    /\ Def[c.args[k]].pointee = Def[Formals[f][k]].pointee
    BY CallsAssumption
  <2>3. \A k \in DOMAIN c.args : c.args[k] \in Values
    BY <2>2
  <2> QED
    BY <1>1, <1>2, <2>1, <2>2, <2>3 DEF InScope
<1>11. \A u \in Range(Formals[f]) : Def[u].kind = "argument" /\ Def[u].owner = f
  BY <1>5, DefinitionsAssumption DEF Range
<1>12. \A u \in Objects : trees[u] = IF u \in Range(Formals[f]) /\ u \in DOMAIN Info
                                     THEN FromMetadata(u) ELSE stack[n].trees[u]
  BY <1>2 DEF trees, RetrieveArguments
<1>13. Scope(m)' = Scope(n) \cup {f}
  <2>1. 1 .. m = 1 .. n \cup {m}
    BY <1>2, <1>m
  <2>2. \A i \in 1 .. n : stack'[i].f = stack[i].f
    BY <1>4
  <2>3. Scope(m)' = {stack'[i].f : i \in 1 .. n \cup {m}}
    BY <2>1 DEF Scope
  <2> QED
    BY <1>3, <1>4, <2>2, <2>3 DEF Scope
<1> HIDE DEF f, n
<1>14. Distinct'
  <2> SUFFICES ASSUME NEW d \in 1 .. m, NEW e \in 1 .. m, stack'[d].f = stack'[e].f PROVE d = e
    BY <1>4 DEF Distinct
  <2>1. \A i \in 1 .. n : stack'[i].f # f
    BY <1>1, <1>2, <1>4 DEF Active
  <2> QED
    BY <1>3, <1>4, <1>7, <1>8, <2>1
<1>15. PassedInv'
  <2>1. Passed(stack'[n], stack'[m])
    <3>1. /\ c.caller = stack'[n].f /\ c.callee = stack'[m].f /\ c.args = stack'[m].args
          /\ stack'[m].bind = initArgumentBindings(stack'[n].bind, c.callee, c.args)
          /\ stack'[m].places = [k \in DOMAIN c.args |-> PlaceOf(stack'[n], c.args[k])]
      BY <1>1, <1>2, <1>3, <1>4, n = Depth DEF places, f, n
    <3> QED
      BY <3>1 DEF Passed
  <2>2. \A d \in 2 .. m : Passed(stack'[d - 1], stack'[d])
    BY <1>7, <1>8, <2>1
  <2> QED
    BY <1>2, <1>4, <1>7, <2>2 DEF PassedInv
<1>16. OwnersInv'
  <2> SUFFICES ASSUME NEW d \in 2 .. m, NEW k \in DOMAIN stack'[d].places
               PROVE  /\ stack'[d].places[k] \in Values \X Seq(Nat)
                      /\ Def[stack'[d].places[k][1]].owner \in Scope(d - 1)' \cup {Null}
    BY <1>4 DEF OwnersInv
  <2>1. CASE d \in 2 .. n
    BY <1>7, <2>1
  <2>2. CASE d = m
    <3>1. k \in DOMAIN c.args /\ stack'[d].places[k] = PlaceOf(stack[n], c.args[k])
      BY <1>2, <1>3, <1>4, <2>2 DEF places
    <3>2. c.args[k] \in InScope(n)
      BY <1>10, <3>1
    <3>3. /\ PlaceOf(stack[n], c.args[k]) \in Values \X Seq(Nat)
          /\ PlaceOf(stack[n], c.args[k])[1] \in InScope(n)
      BY <1>2, <3>2, PlaceOwned DEF CallsInv
    <3>4. Scope(d - 1)' = Scope(n)
      BY <1>2, <1>7, <1>8, <2>2
    <3> QED
      BY <3>1, <3>3, <3>4 DEF InScope
  <2> QED
    BY <1>8, <2>1, <2>2
<1>17. Misread'
  <2> SUFFICES ASSUME NEW d \in 2 .. m, NEW k \in StructParams(stack'[d]), ~Direct[stack'[d].args[k]]
               PROVE  TakenFor(stack'[d - 1], stack'[d].args[k]) \subseteq stale'
    BY <1>4 DEF Misread
  <2>1. CASE d \in 2 .. n
    <3>1. d \in 1 .. n /\ d - 1 \in 1 .. n /\ d \in 2 .. Depth
      BY <1>2, <2>1 DEF n
    <3>2. stack'[d] = stack[d] /\ stack'[d - 1] = stack[d - 1]
      BY <1>4, <3>1
    <3>3. TakenFor(stack[d - 1], stack[d].args[k]) \subseteq stale
      BY <3>1, <3>2 DEF CallsInv, Misread
    <3> QED
      BY <1>9, <3>2, <3>3
  <2>2. CASE d = m
    <3>1. stack'[d] = new /\ stack'[d - 1] = Top
      BY <1>2, <1>4, <1>8, <2>2
    <3>2. k \in DOMAIN c.args /\ Def[Formals[f][k]].pointee \in StructTypes
      BY <1>3, <3>1 DEF StructParams
    <3>3. c.args[k] \in Range(c.args) /\ Def[c.args[k]].pointee \in StructTypes /\ ~Direct[c.args[k]]
      BY <1>3, <1>10, <3>1, <3>2 DEF Range
    <3> QED
      BY <1>1, <1>3, <3>1, <3>3
  <2> QED
    BY <1>8, <2>1, <2>2
<1>18. OnlyHanded'
  <2> SUFFICES ASSUME NEW d \in 1 .. m, NEW u \in stack'[d].wrote \ stale'
               PROVE  Def[u].kind = "global" \/ u \in Handed(stack'[d]) \/ Def[u].owner \notin Scope(d - 1)'
    BY <1>4 DEF OnlyHanded
  <2>1. d \in 1 .. n /\ stack'[d] = stack[d]
    BY <1>3, <1>4, <1>8
  <2>2. Scope(d - 1)' = Scope(d - 1) /\ d \in DOMAIN stack
    <3>1. d - 1 \in 0 .. n
      BY <1>2, <2>1
    <3> QED
      BY <1>2, <1>7, <2>1, <3>1
  <2> QED
    BY <1>9, <2>1, <2>2 DEF StoresInv, OnlyHanded
<1>19. \A u \in Objects : \A p \in Paths :
         memory'[<<u, p>>] = IF Def[u].kind = "alloca" /\ Def[u].owner = f THEN Absent ELSE memory[<<u, p>>]
  BY <1>1
<1>20. \A u \in Objects \ stale : Relevant(n, u) => \A p \in Paths : EntryAt(stack[n].trees[u], p) = memory[<<u, p>>]
  <2>1. \A i \in n + 1 .. Depth : FALSE
    BY <1>2 DEF n
  <2> QED
    BY <1>2, <2>1 DEF StoresInv, TreesTell
<1>21. TreesTell'
  <2> SUFFICES ASSUME NEW d \in 1 .. m, NEW u \in Objects \ stale', Relevant(d, u)',
                      \A i \in d + 1 .. m : u \notin stack'[i].wrote, NEW p \in Paths
               PROVE  EntryAt(stack'[d].trees[u], p) = memory'[<<u, p>>]
    BY <1>4 DEF TreesTell
  <2>1. u \in Objects \ stale
    BY <1>9
  <2>2. CASE d \in 1 .. n
    <3>1. Relevant(d, u) /\ stack'[d] = stack[d] /\ d \in DOMAIN stack /\ d \in 0 .. n
      BY <1>2, <1>4, <1>7, <2>2
    <3>2. \A i \in d + 1 .. Depth : i \in d + 1 .. m /\ i \in 1 .. n
      BY <1>2, <1>m, <2>2 DEF n
    <3>3. \A i \in d + 1 .. Depth : u \notin stack[i].wrote
      BY <1>4, <3>2
    <3>4. EntryAt(stack[d].trees[u], p) = memory[<<u, p>>]
      BY <2>1, <3>1, <3>3 DEF StoresInv, TreesTell
    <3>5. ~(Def[u].kind = "alloca" /\ Def[u].owner = f)
      BY <1>5, <3>1 DEF Relevant
    <3> QED
      BY <1>19, <2>1, <3>1, <3>4, <3>5
  <2>3. CASE d = m
    <3>1. \/ Def[u].kind = "global"
          \/ Def[u].kind = "alloca" /\ Def[u].owner \in Scope(n) \cup {f}
          \/ Def[u].kind = "argument" /\ Def[u].owner = stack[1].f
      BY <1>2, <1>7, <1>13, <2>3 DEF Relevant
    <3>2. stack[1].f # f
      BY <1>1, <1>2, <1>8 DEF Active
    <3>3. u \notin Range(Formals[f])
      BY <1>11, <3>1, <3>2
    <3>4. stack'[d].trees[u] = stack[n].trees[u]
      BY <1>3, <1>4, <1>12, <2>1, <2>3, <3>3
    <3>5. CASE Def[u].kind = "alloca" /\ Def[u].owner = f
      <4>1. stack[n].trees[u] = NoTree
        BY <1>2, <1>5, <2>1, <3>5 DEF StoresInv, NoTreesYet
      <4>2. EntryAt(NoTree, p) = Absent
        BY ContentsDiffer DEF EntryAt, NoTree
      <4> QED
        BY <1>19, <2>1, <3>4, <3>5, <4>1, <4>2
    <3>6. CASE ~(Def[u].kind = "alloca" /\ Def[u].owner = f)
      <4>1. Relevant(n, u)
        BY <3>1, <3>6 DEF Relevant
      <4> QED
        BY <1>19, <1>20, <2>1, <3>4, <3>6, <4>1
    <3> QED
      BY <3>5, <3>6
  <2> QED
    BY <1>8, <2>2, <2>3
<1>22. NoTreesYet'
  <2> SUFFICES ASSUME NEW d \in 1 .. m, NEW u \in Objects, Def[u].kind = "alloca",
                      Def[u].owner \notin Scope(d)'
               PROVE  stack'[d].trees[u] = NoTree
    BY <1>4 DEF NoTreesYet
  <2>1. CASE d \in 1 .. n
    <3>1. d \in 0 .. n /\ d \in DOMAIN stack /\ stack'[d] = stack[d]
      BY <1>2, <1>4, <2>1
    <3> QED
      BY <1>7, <3>1 DEF StoresInv, NoTreesYet
  <2>2. CASE d = m
    <3>1. Def[u].owner \notin Scope(n) /\ u \notin Range(Formals[f])
      BY <1>11, <1>13, <2>2
    <3>2. stack[n].trees[u] = NoTree
      BY <1>2, <3>1 DEF StoresInv, NoTreesYet
    <3> QED
      BY <1>3, <1>4, <1>12, <2>2, <3>1, <3>2
  <2> QED
    BY <1>8, <2>1, <2>2
<1>23. TreesStay'
  <2> SUFFICES ASSUME NEW d \in 2 .. m, NEW u \in Objects, stack'[d].trees[u] = NoTree
               PROVE  stack'[d - 1].trees[u] = NoTree
    BY <1>4 DEF TreesStay
  <2>1. CASE d \in 2 .. n
    <3>1. d \in 1 .. n /\ d - 1 \in 1 .. n /\ d \in 2 .. Depth
      BY <1>2, <2>1 DEF n
    <3> QED
      BY <1>4, <3>1 DEF StoresInv, TreesStay
  <2>2. CASE d = m
    <3>1. trees[u] = NoTree /\ stack'[d - 1] = stack[n]
      BY <1>2, <1>3, <1>4, <1>8, <2>2
    <3> QED
      BY <1>12, <3>1, MetadataMakeTrees
  <2> QED
    BY <1>8, <2>1, <2>2
<1> QED
  BY <1>14, <1>15, <1>16, <1>17, <1>18, <1>21, <1>22, <1>23 DEF CallsInv, StoresInv

\* What a callee was handed is, for its caller, of an argument that the walker
\* takes for what it is.
LEMMA HandedAreArguments ==
  ASSUME BindInv, CallsInv, NEW d \in 2 .. Depth, NEW u \in Objects \ stale, u \in Handed(stack[d])
  PROVE  \E P \in Range(stack[d].args) :
           /\ Known(d - 1, P) /\ PlaceOf(stack[d - 1], P)[1] = u
           /\ retrieveRootPointer(stack[d - 1].bind, P).root = u
<1> DEFINE a == stack[d]
           caller == stack[d - 1]
<1>1. d - 1 \in DOMAIN stack /\ d \in DOMAIN stack /\ a.args \in Seq(Values)
  <2>1. Depth \in Nat /\ DOMAIN stack = 1 .. Depth
    BY StackFacts
  <2>2. d - 1 \in DOMAIN stack /\ d \in DOMAIN stack
    BY <2>1
  <2> QED
    BY <2>2, StackFacts
<1>2. PICK c \in Calls :
        /\ c.caller = caller.f /\ c.callee = a.f /\ c.args = a.args
        /\ a.places = [k \in DOMAIN c.args |-> PlaceOf(caller, c.args[k])]
  BY DEF CallsInv, PassedInv, Passed
<1>3. PICK k \in DOMAIN a.places : u = a.places[k][1] /\ Def[Formals[a.f][k]].pointee \in StructTypes
  BY DEF Handed
<1> DEFINE P == a.args[k]
<1>4. k \in StructParams(a) /\ P \in Range(a.args) /\ PlaceOf(caller, P)[1] = u /\ P \in Values
      /\ Def[P].owner \in {caller.f, Null}
  BY <1>1, <1>2, <1>3, CallsAssumption DEF StructParams, Range
<1>5. u \in TakenFor(caller, P)
  BY <1>4 DEF TakenFor
<1>6. Direct[P]
  <2> SUFFICES ASSUME ~Direct[P] PROVE FALSE
    BY Zenon
  <2> QED
    BY <1>4, <1>5 DEF CallsInv, Misread
<1>7. Known(d - 1, P)
  <2>1. RightBelow(d - 1)
    BY <1>1, PlacesAreRight DEF CallsInv
  <2>2. Right(d - 1, P)
    BY <1>4, <1>6, <2>1 DEF RightBelow, Uses
  <2> QED
    BY <1>5, <2>2 DEF Right
<1> QED
  BY <1>4, <1>7 DEF Known, Finds

\* A return takes over the callee's trees of what it was handed.
LEMMA ReturnReads ==
  ASSUME BindInv, TreeInv, CallsInv, StoresInv, Return
  PROVE  CallsInv' /\ StoresInv'
<1>1. Depth \in Nat /\ Depth > 1 /\ DOMAIN stack = 1 .. Depth /\ Top = stack[Depth] /\ Depth \in DOMAIN stack
  <2>1. Depth \in Nat /\ DOMAIN stack = 1 .. Depth
    BY StackFacts
  <2> QED
    BY <2>1 DEF Return, Top
<1>2. PICK n \in Nat, m \in Nat : n = Depth /\ m = n - 1 /\ m \in 0 .. Depth
  BY <1>1
<1>3. /\ m > 0 /\ m \in DOMAIN stack /\ n \in DOMAIN stack /\ m \in 1 .. Depth /\ n \in 2 .. Depth
      /\ \A d \in 1 .. m : d \in 1 .. Depth /\ d \in DOMAIN stack
  BY <1>1, <1>2
<1> DEFINE caller == stack[m]
           callee == stack[n]
           low == SubSeq(stack, 1, m)
           t == updateStructTree(caller.trees, caller.bind, callee.trees, Range(callee.args))
           w == caller.wrote \cup callee.wrote
           roots == {retrieveRootPointer(caller.bind, P).root : P \in Range(callee.args)}
<1>4. /\ stale' = stale \cup {v \in callee.wrote \ Handed(callee) : Def[v].kind = "global"}
      /\ memory' = memory
  BY <1>1, <1>2 DEF Return
<1>5. /\ Depth' = m /\ DOMAIN stack' = 1 .. m
      /\ \A d \in 1 .. m : /\ Same(stack'[d], stack[d])
                           /\ stack'[d].trees = IF d = m THEN t ELSE stack[d].trees
                           /\ stack'[d].wrote = IF d = m THEN w ELSE stack[d].wrote
  <2>1. PICK F, Q : stack \in Seq(Activations(F, Q))
    BY DEF BindInv, StackShape
  <2>2. /\ low \in Seq(Activations(F, Q)) /\ DOMAIN low = 1 .. m /\ Len(low) = m
        /\ \A d \in 1 .. m : low[d] = stack[d]
    BY <1>1, <1>2, <1>3, <2>1 DEF Depth
  <2>3. low[m] \in Activations(F, Q) /\ low[m] = caller
    BY <1>3, <2>2
  <2>4. stack' = [low EXCEPT ![m].trees = t, ![m].wrote = @ \cup callee.wrote]
    BY <1>1, <1>2, <2>3 DEF Return
  <2> HIDE DEF low, t, w
  <2>5. [low[m] EXCEPT !.trees = t, !.wrote = @ \cup callee.wrote] = [low[m] EXCEPT !.trees = t, !.wrote = w]
    BY <2>3 DEF Activations, w
  <2>6. stack' = [low EXCEPT ![m].trees = t, ![m].wrote = w]
    BY <1>3, <2>2, <2>4, <2>5
  <2>7. m \in DOMAIN low
    BY <1>3, <2>2
  <2>8. Differ(stack', low, m, t, w)
    BY <2>2, <2>6, <2>7, ActivationReplaced
  <2> QED
    BY <2>2, <2>8 DEF Differ, Depth
<1>6. /\ \A d \in 0 .. m : Scope(d)' = Scope(d)
      /\ \A d \in 1 .. m : \A u : Relevant(d, u)' <=> Relevant(d, u)
  BY <1>2, <1>5, BelowKept
<1>7. stale \subseteq stale'
  BY <1>4
<1>8. \A u \in Objects : t[u] = IF u \in roots /\ callee.trees[u] # NoTree THEN callee.trees[u] ELSE caller.trees[u]
  BY DEF updateStructTree
<1>9. \A u \in Objects \ stale : u \in Handed(callee) =>
        /\ u \in roots
        /\ Def[u].kind = "global" \/ Def[u].owner = caller.f \/ u \in Handed(caller)
  <2> SUFFICES ASSUME NEW u \in Objects \ stale, u \in Handed(callee)
               PROVE  /\ u \in roots
                      /\ Def[u].kind = "global" \/ Def[u].owner = caller.f \/ u \in Handed(caller)
    OBVIOUS
  <2>1. PICK P \in Range(callee.args) :
           /\ Known(n - 1, P) /\ PlaceOf(stack[n - 1], P)[1] = u
           /\ retrieveRootPointer(stack[n - 1].bind, P).root = u
    BY <1>3, HandedAreArguments
  <2> QED
    BY <1>2, <2>1 DEF Known
<1>10. /\ \A d \in 0 .. m : Scope(d) \subseteq Scope(m)
       /\ caller.f \notin Scope(m - 1) /\ caller.f \in Scope(m) /\ Scope(m) \subseteq Scope(n)
       /\ stack[1].f \in Scope(m)
  <2>1. caller.f \notin Scope(m - 1)
    BY <1>3, NotBelow DEF CallsInv
  <2>2. caller.f \in Scope(m)
    BY <1>3, ScopeFacts
  <2>3. \A d \in 0 .. m : 1 .. d \subseteq 1 .. m
    OBVIOUS
  <2>4. 1 .. m \subseteq 1 .. n /\ 1 \in 1 .. m
    BY <1>2, <1>3
  <2> QED
    BY <2>1, <2>2, <2>3, <2>4 DEF Scope
<1>11. callee.wrote \in SUBSET Objects
  BY <1>3, StackFacts
<1> HIDE DEF t, w, roots
<1>12. CallsInv'
  <2>1. ASSUME NEW d \in 2 .. m, NEW k \in StructParams(stack[d]), ~Direct[stack[d].args[k]]
        PROVE  TakenFor(stack[d - 1], stack[d].args[k]) \subseteq stale'
    <3>1. d \in 2 .. Depth
      BY <1>2
    <3> QED
      BY <1>7, <2>1, <3>1 DEF CallsInv, Misread
  <2>2. \A d \in 1 .. m : Same(stack'[d], stack[d])
    BY <1>5
  <2> QED
    BY <1>3, <1>5, <2>1, <2>2, CallsKept
<1>13. \A u \in callee.wrote \ stale : Def[u].kind = "global" \/ u \in Handed(callee) \/ Def[u].owner \notin Scope(m)
  BY <1>2, <1>3 DEF StoresInv, OnlyHanded
<1>14. OnlyHanded'
  <2> SUFFICES ASSUME NEW d \in 1 .. m, NEW u \in stack'[d].wrote \ stale'
               PROVE  Def[u].kind = "global" \/ u \in Handed(stack'[d]) \/ Def[u].owner \notin Scope(d - 1)'
    BY <1>5 DEF OnlyHanded
  <2>1. d - 1 \in 0 .. m
    OBVIOUS
  <2>2. Handed(stack'[d]) = Handed(stack[d]) /\ Scope(d - 1)' = Scope(d - 1)
    BY <1>5, <1>6, <2>1, SameMeans
  <2>3. CASE u \in stack[d].wrote
    BY <1>3, <1>7, <2>2, <2>3 DEF StoresInv, OnlyHanded
  <2>4. CASE u \notin stack[d].wrote
    <3>1. d = m
      BY <1>5, <2>4
    <3>2. u \in callee.wrote \ stale /\ u \in Objects
      BY <1>5, <1>7, <1>11, <2>4, <3>1 DEF w
    <3>3. Scope(d - 1) \subseteq Scope(m)
      BY <1>10, <2>1
    <3> QED
      BY <1>9, <1>10, <1>13, <2>2, <3>1, <3>2, <3>3
  <2> QED
    BY <2>3, <2>4
<1>15. TreesTell'
  <2> SUFFICES ASSUME NEW d \in 1 .. m, NEW u \in Objects \ stale', Relevant(d, u),
                      \A i \in d + 1 .. m : u \notin stack'[i].wrote, NEW p \in Paths
               PROVE  EntryAt(stack'[d].trees[u], p) = memory[<<u, p>>]
    BY <1>4, <1>5, <1>6 DEF TreesTell
  <2>1. u \in Objects \ stale
    BY <1>7
  <2>2. CASE d # m
    <3>1. m \in d + 1 .. m /\ m \in 1 .. m
      BY <1>3, <2>2
    <3>2. u \notin w
      BY <1>5, <3>1
    <3>3. \A i \in d + 1 .. Depth : u \notin stack[i].wrote
      <4> SUFFICES ASSUME NEW i \in d + 1 .. n PROVE u \notin stack[i].wrote
        BY <1>2
      <4>1. CASE i = n
        BY <3>2, <4>1 DEF w
      <4>2. CASE i = m
        BY <3>2, <4>2 DEF w
      <4>3. CASE i # n /\ i # m
        <5>1. i \in d + 1 .. m /\ i \in 1 .. m
          BY <1>2, <4>3
        <5> QED
          BY <1>5, <4>3, <5>1
      <4> QED
        BY <4>1, <4>2, <4>3
    <3>4. EntryAt(stack[d].trees[u], p) = memory[<<u, p>>]
      BY <1>3, <2>1, <3>3 DEF StoresInv, TreesTell
    <3> QED
      BY <1>5, <2>2, <3>4
  <2>3. CASE d = m
    <3>1. stack'[d].trees[u] = IF u \in roots /\ callee.trees[u] # NoTree THEN callee.trees[u] ELSE caller.trees[u]
      BY <1>5, <1>8, <2>1, <2>3
    <3>2. EntryAt(callee.trees[u], p) = memory[<<u, p>>]
      <4>1. Relevant(n, u)
        BY <1>10, <2>3 DEF Relevant
      <4>2. \A i \in n + 1 .. Depth : FALSE
        BY <1>2
      <4> QED
        BY <1>3, <2>1, <4>1, <4>2 DEF StoresInv, TreesTell
    <3>3. CASE u \notin callee.wrote
      <4>1. \A i \in d + 1 .. Depth : u \notin stack[i].wrote
        <5> SUFFICES ASSUME NEW i \in d + 1 .. n PROVE u \notin stack[i].wrote
          BY <1>2
        <5>1. i = n
          BY <1>2, <2>3
        <5> QED
          BY <3>3, <5>1
      <4>2. EntryAt(caller.trees[u], p) = memory[<<u, p>>]
        BY <1>3, <2>1, <2>3, <4>1 DEF StoresInv, TreesTell
      <4> QED
        BY <3>1, <3>2, <4>2
    <3>4. CASE u \in callee.wrote
      <4>1. u \in Handed(callee)
        <5>1. Def[u].kind = "global" => u \in Handed(callee)
          BY <1>4, <3>4
        <5>2. Def[u].kind = "global" \/ Def[u].owner \in Scope(m)
          BY <1>10, <2>3 DEF Relevant
        <5> QED
          BY <1>13, <2>1, <3>4, <5>1, <5>2
      <4>2. u \in roots
        BY <1>9, <2>1, <4>1
      <4>3. CASE callee.trees[u] # NoTree
        BY <3>1, <3>2, <4>2, <4>3
      <4>4. CASE callee.trees[u] = NoTree
        <5>1. caller.trees[u] = NoTree
          BY <1>2, <1>3, <2>1, <4>4 DEF StoresInv, TreesStay
        <5> QED
          BY <3>1, <3>2, <4>4, <5>1
      <4> QED
        BY <4>3, <4>4
    <3> QED
      BY <3>3, <3>4
  <2> QED
    BY <2>2, <2>3
<1>16. NoTreesYet'
  <2> SUFFICES ASSUME NEW d \in 1 .. m, NEW u \in Objects, Def[u].kind = "alloca",
                      Def[u].owner \notin Scope(d)
               PROVE  stack'[d].trees[u] = NoTree
    BY <1>5, <1>6 DEF NoTreesYet
  <2>1. stack[d].trees[u] = NoTree
    BY <1>3 DEF StoresInv, NoTreesYet
  <2>2. CASE d = m
    <3>1. u \notin roots
      <4> SUFFICES ASSUME NEW P \in Range(callee.args)
                   PROVE  u # retrieveRootPointer(caller.bind, P).root
        BY DEF roots
      <4>1. PICK c \in Calls : c.caller = caller.f /\ c.args = callee.args
        BY <1>2, <1>3 DEF CallsInv, PassedInv, Passed
      <4>2. callee.args \in Seq(Values)
        BY <1>3, StackFacts
      <4>3. P \in Values /\ Def[P].owner \in {caller.f, Null}
        BY <4>1, <4>2, CallsAssumption DEF Range
      <4>4. P \in InScope(m)
        BY <1>10, <4>3 DEF InScope
      <4> DEFINE root == retrieveRootPointer(caller.bind, P).root
      <4>5. root \in InScope(m) \cup {Null} \/ Def[root].kind = "aggregate"
        BY <1>3, <4>4, TakenInScope
      <4>6. u \in Values /\ u # Null /\ Def[u].owner # Null
        BY DefinitionsAssumption, OperandsAssumption DEF Objects
      <4> HIDE DEF root
      <4>7. u # root
        BY <2>2, <4>5, <4>6 DEF InScope
      <4> QED
        BY <4>7 DEF root
    <3> QED
      BY <1>5, <1>8, <2>1, <2>2, <3>1
  <2>3. CASE d # m
    BY <1>5, <2>1, <2>3
  <2> QED
    BY <2>2, <2>3
<1>17. TreesStay'
  <2> SUFFICES ASSUME NEW d \in 2 .. m, NEW u \in Objects, stack'[d].trees[u] = NoTree
               PROVE  stack'[d - 1].trees[u] = NoTree
    BY <1>5 DEF TreesStay
  <2>1. d \in 1 .. m /\ d - 1 \in 1 .. m /\ d - 1 # m /\ d \in 2 .. Depth
    BY <1>2
  <2>2. stack'[d - 1].trees = stack[d - 1].trees
    BY <1>5, <2>1
  <2>3. stack[d].trees[u] = NoTree
    <3>1. CASE d = m
      <4>1. stack'[d].trees = t
        BY <1>5, <2>1, <3>1
      <4> QED
        BY <1>8, <3>1, <4>1
    <3>2. CASE d # m
      BY <1>5, <2>1, <3>2
    <3> QED
      BY <3>1, <3>2
  <2> QED
    BY <2>1, <2>2, <2>3 DEF StoresInv, TreesStay
<1> QED
  BY <1>12, <1>14, <1>15, <1>16, <1>17 DEF StoresInv

\* With no activations there is nothing to say.
LEMMA NothingReads == stack = <<>> => CallsInv /\ StoresInv
<1> SUFFICES ASSUME stack = <<>> PROVE CallsInv /\ StoresInv
  OBVIOUS
<1>1. DOMAIN stack = {} /\ Depth = 0 /\ 2 .. Depth = {}
  BY DEF Depth
<1> QED
  BY <1>1 DEF CallsInv, Distinct, PassedInv, OwnersInv, Misread, StoresInv, OnlyHanded, TreesTell,
              NoTreesYet, TreesStay

\* The function that runOnModule visits starts from metadata.
LEMMA VisitReads ==
  ASSUME NEW f \in Functions, Visit(f)
  PROVE  CallsInv' /\ StoresInv'
<1> DEFINE trees == RetrieveArguments(GlobalTrees, f)
<1>1. /\ stack' = <<[f |-> f, args |-> <<>>, trees |-> trees,
                     bind |-> [v \in Parameters |-> Unbound], places |-> <<>>, wrote |-> {}]>>
      /\ memory' = [o \in Objects \X Paths |-> EntryAt(trees[o[1]], o[2])]
  BY DEF Visit
<1> HIDE DEF trees
<1>2. /\ DOMAIN stack' = {1} /\ Depth' = 1 /\ 2 .. Depth' = {} /\ stack'[1].f = f
      /\ stack'[1].places = <<>> /\ stack'[1].wrote = {} /\ stack'[1].trees = trees
  BY <1>1 DEF Depth
<1>3. CallsInv'
  BY <1>2 DEF CallsInv, Distinct, PassedInv, OwnersInv, Misread
<1>4. OnlyHanded' /\ TreesStay'
  BY <1>2 DEF OnlyHanded, TreesStay
<1>5. TreesTell'
  BY <1>1, <1>2 DEF TreesTell
<1>6. NoTreesYet'
  <2> SUFFICES ASSUME NEW u \in Objects, Def[u].kind = "alloca" PROVE trees[u] = NoTree
    BY <1>2 DEF NoTreesYet
  <2>1. u \notin Range(Formals[f])
    BY DefinitionsAssumption DEF Range
  <2> QED
    BY <2>1 DEF trees, RetrieveArguments, GlobalTrees
<1> QED
  BY <1>3, <1>4, <1>5, <1>6 DEF StoresInv

\* Every step keeps the invariant.
LEMMA ReadInvStep == BindInv /\ TreeInv /\ ReadInv /\ [Next]_vars => ReadInv'
<1> SUFFICES ASSUME BindInv, TreeInv, ReadInv, [Next]_vars, Live' PROVE CallsInv' /\ StoresInv'
  BY DEF ReadInv
<1>1. ~trapped' /\ ~again'
  BY DEF Live
<1>2. Running /\ ~again => CallsInv /\ StoresInv
  BY DEF ReadInv, Live, Running
<1>3. ASSUME NEW f \in Functions, Visit(f) PROVE CallsInv' /\ StoresInv'
  BY <1>3, VisitReads
<1>4. ASSUME NEW v \in Objects, Evaluate(v) PROVE CallsInv' /\ StoresInv'
  <2>1. CallsInv /\ StoresInv
    BY <1>1, <1>2, <1>4 DEF Evaluate
  <2> QED
    BY <1>4, <2>1, EvaluateReads
<1>5. ASSUME NEW P \in Accessed, NEW e \in Errors, Store(P, e) PROVE CallsInv' /\ StoresInv'
  <2>1. CallsInv /\ StoresInv
    BY <1>1, <1>2, <1>5 DEF Store
  <2> QED
    BY <1>1, <1>5, <2>1, StoreReads
<1>6. ASSUME NEW P \in Accessed, LoadTraps(P) PROVE CallsInv' /\ StoresInv'
  BY <1>1, <1>6 DEF LoadTraps
<1>7. ASSUME NEW c \in Calls, Call(c) PROVE CallsInv' /\ StoresInv'
  <2>1. CallsInv /\ StoresInv
    BY <1>1, <1>2, <1>7 DEF Call
  <2> QED
    BY <1>1, <1>7, <2>1, CallReads
<1>8. CASE Return
  <2>1. CallsInv /\ StoresInv
    BY <1>1, <1>2, <1>8 DEF Return
  <2> QED
    BY <1>8, <2>1, ReturnReads
<1>9. CASE Leave
  <2>1. stack' = <<>>
    BY <1>9 DEF Leave
  <2>2. DOMAIN stack' = {} /\ Depth' = 0 /\ 2 .. Depth' = {}
    BY <2>1 DEF Depth
  <2> QED
    BY <2>1, <2>2 DEF CallsInv, Distinct, PassedInv, OwnersInv, Misread, StoresInv, OnlyHanded, TreesTell,
                      NoTreesYet, TreesStay
<1>10. CASE UNCHANGED vars
  <2>1. Live
    BY <1>1, <1>10 DEF vars, Live
  <2>2. CallsInv /\ StoresInv
    BY <2>1 DEF ReadInv
  <2>3. UNCHANGED <<stack, memory, stale>>
    BY <1>10 DEF vars
  <2>4. CallsInv'
    BY <2>2, <2>3 DEF CallsInv, Distinct, PassedInv, OwnersInv, Misread, Depth, Scope
  <2>5. StoresInv'
    BY <2>2, <2>3 DEF StoresInv, OnlyHanded, TreesTell, NoTreesYet, TreesStay, Relevant, Depth, Scope
  <2> QED
    BY <2>4, <2>5
<1> QED
  BY <1>3, <1>4, <1>5, <1>6, <1>7, <1>8, <1>9, <1>10 DEF Next

\* Without recursion a load through a plain pointer finds what was last stored to
\* the field, whichever function stored it and through whichever plain pointer, for
\* every program, metadata, and sequence of stores, calls and returns.
THEOREM LoadsFindLastStore == Spec => []ReadsLastWritten
<1>1. Init => ReadInv
  BY NothingReads DEF Init, ReadInv
<1>2. BindInv /\ TreeInv /\ ReadInv => ReadsLastWritten
  BY LoadsAreRight
<1> QED
  BY BindInvInit, BindInvStep, TreeInvInit, TreeInvStep, ReadInvStep, <1>1, <1>2, PTL DEF Spec
=============================================================================
