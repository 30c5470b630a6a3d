---------------------------- MODULE MCPropagator ----------------------------
EXTENDS Propagator

Round(add, assume, constrain) ==
  [add |-> add, assume |-> assume, constrain |-> constrain]

Opts(chrono, always, ilb, lazy) ==
  [chrono |-> chrono, chronoalways |-> always, chronoreusetrail |-> FALSE,
   chronolevelim |-> 100, otfs |-> FALSE, shrink |-> TRUE, minimize |-> TRUE,
   eagersubsume |-> TRUE, ilb |-> ilb, ilbassumptions |-> ilb, restartreusetrail |-> FALSE,
   is_lazy |-> lazy, forgettable |-> always]

MCOptions == {Opts(0, FALSE, FALSE, FALSE), Opts(1, TRUE, FALSE, FALSE),
              Opts(1, FALSE, TRUE, FALSE), Opts(0, FALSE, FALSE, TRUE)}

\* The propagator may propagate 2 only after 5 was assumed, on a level above its
\* reason's; so is what is propagated from it, and a conflict of 2 and 3 does not
\* reach -4.
Unreached == << Round(<< <<-2, -4>> >>, << 1, 5, 3 >>, {}) >>

MCRounds == {
  << Round(<< <<1, 3>> >>, << 1, 4, 3 >>, {}), Round(<<>>, << 3, 4, 1 >>, {}) >>,
  Unreached,
  << Round(<< <<-2, 3>> >>, << 1, 4 >>, {}) >>,
  << Round(<< <<1, 4>> >>, << -2, -3, 4 >>, {}) >>}

MCTheory == << {-1, 2}, {-2, -3} >>

\* Five variables are only needed where literals may be kept out of order.
MCInit == PropagatorInit /\ (input = Unreached => opts.chronoalways)

MCSpec ==
  MCInit /\ [][PropagatorNext]_allVars /\ WF_allVars(PropagatorSolving)
=============================================================================
