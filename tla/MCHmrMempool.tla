---------------------------- MODULE MCHmrMempool ----------------------------
(* The client's messages in units of 24 bytes, rounded up: NORMAL 28, WRITE *)
(* 41 and FINISH 28 bytes from main, MR 56 bytes, twice, from epoll.        *)
EXTENDS HmrMempool

ClientLengths ==
  [main |-> <<2, 2, 2, 2>>, epoll |-> <<3, 3>>]
=============================================================================
