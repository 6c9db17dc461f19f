-------------------------------- MODULE MCCalls --------------------------------
(* TLC instances: settings that termios knows only with extensions.        *)
EXTENDS BlockingCalls

PortSettings ==
    {<<"baud", 128000>>, <<"parity", "mark">>, <<"parity", "odd">>, <<"parity", "even">>}
===============================================================================
