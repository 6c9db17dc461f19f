-------------------------------- MODULE MCViews --------------------------------
(* TLC instances: missions of items with and without a position, and a     *)
(* camera whose exposure mode decides about the sensitivity.               *)
EXTENDS UserViews

MCMissions ==
    {<<{"position", "camera"}, {"position", "loiter"}>>, <<{"loiter"}, {"position"}>>,
     <<{"camera"}>>}

MCDefinition ==
    [params     |-> <<"CAM_MODE", "exp", "iso">>,
     options    |-> [CAM_MODE |-> {"video"}, exp |-> {"auto", "manual"},
                     iso |-> {"100"}],
     exclusions |-> {<<"exp", "auto", "iso">>},
     ranges     |-> {<<"CAM_MODE", "video", "iso", "100">>},
     updates    |-> {<<"exp", "iso">>},
     controls   |-> {"CAM_MODE", "exp", "iso"}]
===============================================================================
