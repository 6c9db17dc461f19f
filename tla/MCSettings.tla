------------------------------- MODULE MCSettings -------------------------------
(* A camera of two settings, where the second changes with the first in the     *)
(* order of the file fetched before it.                                         *)
EXTENDS CameraSettings

MCTwoSettings ==
    [params     |-> <<"exp", "iso">>,
     options    |-> [CAM_MODE |-> {}, exp |-> {"auto", "manual"}, iso |-> {"100"}],
     exclusions |-> {},
     ranges     |-> {},
     updates    |-> {<<"iso", "exp">>},
     controls   |-> {"exp", "iso"}]
================================================================================
