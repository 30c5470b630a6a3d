------------------------------ MODULE MCSearch ------------------------------
EXTENDS Search

Round(add, assume, constrain) ==
  [add |-> add, assume |-> assume, constrain |-> constrain]

Opts(chrono, always, otfs, shrink, ilb) ==
  [chrono |-> chrono, chronoalways |-> always, chronoreusetrail |-> TRUE,
   chronolevelim |-> 100, otfs |-> otfs, shrink |-> shrink, minimize |-> TRUE,
   eagersubsume |-> TRUE, ilb |-> ilb, ilbassumptions |-> ilb, restartreusetrail |-> TRUE]

MCOptions == {Opts(c, FALSE, f, f, FALSE) : c \in 0..2, f \in BOOLEAN}
             \cup {Opts(1, TRUE, TRUE, TRUE, b) : b \in BOOLEAN}
             \cup {Opts(0, FALSE, FALSE, TRUE, TRUE)}

MCRounds == {
  << Round(<< <<1, 2, 3>>, <<-1, 2>>, <<-2, 3>>, <<-3, 1>>, <<-1, -2, -3>> >>, <<>>, {}) >>,
  << Round(<< <<1, 2, 3>>, <<-1, 2, 4>>, <<-2, 3>>, <<-1, -3, 4>>, <<-3, -4>> >>, <<>>, {}) >>,
  << Round(<< <<-2, 4>>, <<-3, -4, -2, 5>>, <<-3, -1, -5>>, <<-6, 5>>, <<-6, -5>>,
              <<6, 1, 3>> >>, << 2 >>, {}) >>,
  << Round(<< <<1, 2, 3>>, <<-1, 2, 4>> >>, << 1, -3 >>, {{2, 4}}),
     Round(<< <<-2, 1, -4>>, <<-1, 3>>, <<-4, 3>> >>, << -3 >>, {{1, 4}}) >>,
  << Round(<< <<1, 2, 3>>, <<-1, 2, -4>>, <<-2, 3, 4>> >>, << -3 >>, {}),
     Round(<< <<-2, 1>>, <<-1, 2>>, <<2, 3>> >>, << -2, -3 >>, {{3, 4}}) >>,
  << Round(<< <<1, 2, 3>>, <<-1, -2>> >>, <<>>, {}),
     Round(<< <<-2, -3, 1>>, <<1, 2>> >>, << 3 >>, {}) >>,
  << Round(<< <<-1, 2>>, <<-1, -2, 3>>, <<-2, -3>> >>, << 1, 2 >>, {}),
     Round(<< <<1>> >>, <<>>, {}) >>,
  << Round(<< <<-1, 2>> >>, << 1, 3 >>, {}), Round(<<>>, << 1, 2, 3 >>, {}) >>}

\* A trail that is used again by a solve whose clauses are added after its
\* assumptions are made.
MCMixedOptions == {Opts(1, FALSE, FALSE, FALSE, TRUE)}

MCMixedRounds == {
  << Round(<< <<3, 4, 5>> >>, << 1, 2 >>, {}), Round(<< <<-3, -1>> >>, << 1, 3, 2 >>, {}) >>}
=============================================================================
