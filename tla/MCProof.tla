------------------------------ MODULE MCProof ------------------------------
EXTENDS Proof

Round(add, assume, constrain) ==
  [add |-> add, assume |-> assume, constrain |-> constrain]

\* Repeated literals, a tautology, clauses that become units and are skipped,
\* an inconsistent formula, failed assumptions and a failed constraint.
MCRounds == {
  << Round(<< <<1, 2, 3>>, <<-1, 2, 2>>, <<-2, 3>> >>, <<-3>>, <<>>) >>,
  << Round(<< <<1, 2>>, <<1, -2>>, <<-1, 3, 1>>, <<-1, -3>> >>, <<>>, <<>>) >>,
  << Round(<< <<-1, 2>>, <<-2, 3>> >>, << 1 >>, << -2, -3 >>),
     Round(<< <<1>>, <<-3, -2>> >>, <<>>, <<>>) >>}

MCCandidates == {<<>>, <<1>>, <<3>>, <<-2>>, <<-3>>, <<1, 3>>, <<-1, 3>>}

MCExternalVar == <<1, 64, 9000>>
=============================================================================
