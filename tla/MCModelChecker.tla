--------------------------- MODULE MCModelChecker ---------------------------
(***************************************************************************)
(* Models for model_checker.py to work on, in the shape of the files under *)
(* input_files.                                                            *)
(***************************************************************************)
EXTENDS ModelChecker

Bool(s) == [symbol |-> <<s>>, type |-> "boolean", domain |-> <<>>]
Int2(s) == [symbol |-> <<s>>, type |-> "int", domain |-> <<0, 1>>]

P(name) == [neg |-> FALSE, name |-> name]
N(name) == [neg |-> TRUE, name |-> name]

a == <<"a">>
b == <<"b">>
x0 == <<"x", 0>>
x1 == <<"x", 1>>

Rule(pre, eff) == [preconditions |-> pre, effects |-> eff]

Letters == {"a", "b", "x", "TV", "True", "False"}

\* Models over one or two booleans: pinned and open initial states, zero to
\* two rules, one or two properties, with and without disjunctions.
OneBoolean ==
  [states : {<<Bool("a")>>},
   init : {<< <<{P(a)}>> >>, << <<{N(a)}>> >>},
   transitions : {<<>>, <<Rule(<< <<{N(a)}>> >>, << <<{P(a)}>> >>)>>},
   safety : {<< <<{P(a)}>> >>, << <<{N(a)}>> >>}]

TwoBooleans ==
  [states : {<<Bool("a"), Bool("b")>>},
   init : {<< <<{N(a)}>>, <<{N(b)}>> >>, << <<{P(a)}, {P(b)}>> >>,
           << <<{P(a), N(b)}>> >>},
   transitions : {<<>>,
                  <<Rule(<< <<{P(a)}>>, <<{N(b)}>> >>, << <<{P(b)}>> >>)>>,
                  <<Rule(<< <<{P(a)}>> >>, << <<{P(b), P(a)}>> >>),
                    Rule(<< <<{P(b)}, {P(a)}>> >>, << <<{N(a)}>> >>)>>},
   safety : {<< <<{N(a)}, {N(b)}>> >>, << <<{N(a)}>>, <<{N(b)}>> >>,
             << <<{P(a), P(b)}, {N(a)}>> >>}]

BooleanInputs == OneBoolean \cup TwoBooleans

\* Models with an integer atom, plain ones and ones the code stops at: a rule
\* without effects, a property over an undeclared value or over a name with a
\* digit after a letter, a name declared twice, the reserved name, an initial
\* constraint over an unknown atom, no atom at all; and plain ones whose rule or
\* property SymPy may fold to a constant.
IntInputs ==
  [states : {<<Int2("x")>>, <<Bool("a"), Int2("x")>>, <<Bool("x"), Int2("x")>>,
             <<Bool("TV"), Int2("x")>>, <<>>},
   init : {<< <<{P(x0)}>> >>, << <<{P(x0), N(x1)}>> >>, << <<{N(a)}>> >>},
   transitions : {<<>>, <<Rule(<< <<{P(x0)}>> >>, << <<{P(x1)}>> >>)>>,
                  <<Rule(<< <<{P(x0)}>> >>, <<>>)>>,
                  <<Rule(<< <<{P(b)}>> >>, << <<{P(x1)}>> >>)>>,
                  <<Rule(<< <<{P(x0)}>> >>, << <<{P(x0)}>> >>)>>,
                  <<Rule(<< <<{P(x0)}>>, <<{N(x1)}>> >>, << <<{P(x0)}>> >>)>>},
   safety : {<< <<{N(x1)}>> >>, << <<{P(<<"x", 2>>)}>> >>,
             << <<{P(<<"x1">>)}>> >>,
             << <<{N(x1)}, {N(x0)}>> >>,
             << <<{P(x1)}, {N(x1)}>> >>}]

\* Models the program's own comments and messages are compared with.
CounterInputs ==
  {[states |-> <<Bool("a")>>, init |-> << <<{N(a)}>> >>,
    transitions |-> <<Rule(<< <<{N(a)}>> >>, << <<{P(a)}>> >>)>>,
    safety |-> << <<{N(a)}>> >>]}
=============================================================================
