------------------------------ MODULE MCNullTrack ------------------------------
(***************************************************************************)
(* NullTrack on two diamonds in a row: 0 -> {1, 2} -> 3 -> {4, 5} -> 6.    *)
(***************************************************************************)
EXTENDS NullTrack

Lookup == [op |-> "lookup", r |-> 0]
ZeroOut(r) == [op |-> "zero", r |-> r]
Move(r, s) == [op |-> "move", r |-> r, s |-> s]
Load(r) == [op |-> "load", r |-> r]
IsNull(r, c, z) == [reg |-> r, code |-> c, zeroLeft |-> z]

Diamonds(o0, t0, o1, o2, o3, t3, o4, o5, o6) ==
  [ops  |-> [b \in Block |-> <<o0, o1, o2, o3, o4, o5, o6>>[b + 1]],
   test |-> [b \in Block |-> IF b = 0 THEN t0 ELSE IF b = 3 THEN t3 ELSE None],
   t    |-> [b \in Block |-> <<2, None, None, 5, None, None, None>>[b + 1]],
   f    |-> [b \in Block |-> <<1, 3, 3, 4, 6, 6, None>>[b + 1]]]

Few == {<< >>, <<Lookup>>, <<Load(0)>>}
Last6 == {<< >>, <<Load(0)>>, <<Load(6)>>}

\* The lookup's result stays in r0 until the first join.
OneCopy ==
  {Diamonds(<<Lookup>>, None, o1, o2, <<Move(6, 0)>>, IsNull(r, c, FALSE), o4, o5, o6) :
     o1 \in {<< >>, <<Lookup>>, <<ZeroOut(0)>>}, o2 \in {<< >>, <<Lookup>>, <<ZeroOut(0)>>},
     r \in Reg, c \in Code, o4 \in Few, o5 \in Few \cup {<<ZeroOut(0)>>}, o6 \in Last6}

\* The lookup's result is copied to r6 and tested at once.
TestedCopy ==
  LET Mid == {<< >>, <<Lookup>>, <<ZeroOut(0)>>, <<ZeroOut(6)>>, <<Move(6, 0)>>, <<Move(0, 6)>>}
  IN  {Diamonds(<<Lookup, Move(6, 0)>>, IsNull(0, c0, FALSE), o1, o2, << >>,
                IsNull(r, c, FALSE), o4, o5, o6) :
         c0 \in Code, o1 \in Mid \cup {<<Load(6)>>}, o2 \in Mid, r \in Reg, c \in Code,
         o4 \in Few, o5 \in Few, o6 \in Last6}

MCPrograms == OneCopy \cup TestedCopy

\* A second copy of an unchecked lookup result outlives a join that replaces
\* the first by 0 or by another lookup's result on one side.
MCSharedFact ==
  {Diamonds(<<Lookup, Move(6, 0)>>, None, o1, << >>, << >>, IsNull(r, "JNE", FALSE),
            << >>, o5, << >>) :
     o1 \in {<<ZeroOut(0)>>, <<Lookup>>}, r \in Reg, o5 \in {<<Load(0)>>, <<Load(6)>>}}
=============================================================================
