------------------------------- MODULE MCFlip -------------------------------
EXTENDS Flip

Round(add, assume, constrain) ==
  [add |-> add, assume |-> assume, constrain |-> constrain]

Opts(chrono, always, otfs, ilb) ==
  [chrono |-> chrono, chronoalways |-> always, chronoreusetrail |-> TRUE,
   chronolevelim |-> 100, otfs |-> otfs, shrink |-> TRUE, minimize |-> TRUE,
   eagersubsume |-> TRUE, ilb |-> ilb, ilbassumptions |-> ilb, restartreusetrail |-> TRUE]

MCOptions == {Opts(1, FALSE, FALSE, FALSE), Opts(1, TRUE, TRUE, TRUE), Opts(0, FALSE, FALSE, TRUE)}

MCRounds == {
  << Round(<< <<1, 2, 3>>, <<-1, 2>> >>, <<>>, {}),
     Round(<< <<-2, -3>>, <<-1, -2, 3>> >>, << 3 >>, {}) >>,
  << Round(<< <<1, 2, 3>> >>, << -1 >>, {}),
     Round(<<>>, << -1, 3 >>, {{2, -3}}), Round(<< <<-1, 2>> >>, <<>>, {}) >>,
  << Round(<< <<1, 2, 3>>, <<1, 2, 4>> >>, << -2, -3 >>, {}) >>,
  << Round(<< <<-1, 2, 3>>, <<1, -2>> >>, <<>>, {}), Round(<<>>, <<>>, {}),
     Round(<< <<-2, 4>> >>, <<>>, {}) >>,
  << Round(<< <<1, 2>>, <<1, -2, 3>>, <<-1, 2, 3>>, <<-1, -2, 3>> >>, <<>>, {}) >>}
=============================================================================
