------------------------------- MODULE MCIo --------------------------------
EXTENDS Io

MCInitial == <<1, 2, 3, 4>>
MCOpenFlags == {{"read"}, {"read", "write"}, {"read", "write", "create"}}
MCPayloads == {<<7, 8>>}
MCTargets == {<<"set", 3>>, <<"cur", 0 - 1>>, <<"end", 1>>}
=============================================================================
