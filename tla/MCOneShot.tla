----------------------------- MODULE MCOneShot ------------------------------
(* Lists of messages short enough for every order of answers, long enough   *)
(* for two chains of on_publish and for a message behind them.              *)
EXTENDS OneShot

Lists == {<<0>>, <<1>>, <<0, 1>>, <<1, 1>>, <<1, 1, 0, 1>>}
TwoTopics == <<"old", "live">>
Either == BOOLEAN
=============================================================================
