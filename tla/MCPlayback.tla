------------------------------ MODULE MCPlayback ------------------------------
(* Playback on a small instance: two controls, two files and one that is    *)
(* gone, two stored captures.                               *)
EXTENDS Playback

CONSTANTS file1, file2, gone, capture1, capture2

MCControls  == <<"filters", "aggregation">>
MCDeferred  == {"aggregation"}
MCBounds    == (capture1 :> <<1, 3>>) @@ (capture2 :> <<5, 6>>)
=============================================================================
