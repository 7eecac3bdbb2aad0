---------------------------- MODULE MCApplication ----------------------------
(* A market source with an event that has book levels and one number the    *)
(* log does not keep, a transaction source, and a timer that is due later.  *)
EXTENDS Application

Btc == << <<1>>, <<1>>, <<1>>, <<1>>, <<1>>, <<1000000>>, <<1000>> >>

MCSources ==
  << << << <<Market>>, <<7>>, <<0>> >> \o Btc
        \o << <<1234567890>>, <<15000000>>, <<1234567890>>, <<>>,
              << << <<420000000, 15000000>> >> >>, << << <<1234567890, 15000000>> >> >>,
              <<12>>, <<13>>, <<14>> >> >>,
     << << <<Transaction>>, <<8>>, <<1>>, <<1>>, <<1>>, <<1>>, <<1000000>>, <<>>, <<1>>, <<0>>, <<0>> >> >> >>

MCTimers == {[id |-> 2, due |-> 2]}
=============================================================================
