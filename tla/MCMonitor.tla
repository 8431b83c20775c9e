------------------------------ MODULE MCMonitor ------------------------------
(***************************************************************************)
(* Small instances of Monitor: bytes are 0..9, of which 6, 7 and 8 are     *)
(* letters, 6 a digit and 9 the slash; a token is one letter, a name at    *)
(* most three, where the third leaves no room for the 0.                   *)
(***************************************************************************)
EXTENDS Monitor

CONSTANTS c1, c2

DefaultAdmin == [user |-> <<6>>, token |-> <<6>>]
DefaultUser == [user |-> <<6>>, pass |-> <<7>>]

Req(token, target, n, s) ==
    [ver |-> 1, token |-> token, type |-> config, target |-> target, name |-> n, secret |-> s]
Get(token) == [Req(token, 0, <<0>>, <<>>) EXCEPT !.type = get]

\* One client is about users, paths and sizes, the other about administrators and refusals.
UserRequests ==
    {Req(<<6>>, add_pop3, <<7>>, <<8>>), Req(<<6>>, add_pop3, <<7, 8>>, <<>>),
     Req(<<6>>, add_pop3, <<7, 8, 7>>, <<8>>),
     Req(<<6>>, remove_pop3, <<7>>, <<>>), Req(<<6>>, remove_pop3, <<6>>, <<>>),
     Req(<<6>>, config_maildir, <<7, 7, 7, 7, 7, 7, 7, 7, 9>>, <<>>),
     Req(<<6>>, config_maildir, <<7, 7, 7, 7, 7, 7, 7, 7, 7, 9>>, <<>>),
     Req(<<6>>, config_buf_size, <<6>>, <<>>)}
AdminRequests ==
    {Req(<<6>>, add_admin, <<7, 8, 7>>, <<7>>), Req(<<6>>, add_admin, <<7>>, <<8>>),
     Req(<<6>>, add_admin, <<6>>, <<7>>),
     Req(<<6>>, remove_admin, <<7>>, <<>>), Req(<<8>>, add_pop3, <<7, 8>>, <<8>>),
     Get(<<6>>), Get(<<7>>), [Get(<<6>>) EXCEPT !.name = <<>>],
     [Get(<<6>>) EXCEPT !.ver = 2], [Get(<<6>>) EXCEPT !.type = 2],
     [Get(<<6>>) EXCEPT !.target = 3], Req(<<6>>, 6, <<7>>, <<>>),
     Req(<<6>>, add_admin, <<7, 9>>, <<7>>), Req(<<6>>, remove_pop3, <<>>, <<>>)}

Everything == [c \in Conns |-> IF c = c1 THEN UserRequests ELSE AdminRequests]

\* A second administrator comes, and the first one is removed.
Removal ==
    [c \in Conns |-> {Req(<<6>>, add_admin, <<7>>, <<8>>), Req(<<6>>, remove_admin, <<6>>, <<>>)}]
=============================================================================
