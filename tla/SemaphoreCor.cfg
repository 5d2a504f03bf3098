CONSTANTS
  Clients = {c1, c2, c3}
  Initial = 3
  Requests <- MCRequests

SPECIFICATION FairSpec

INVARIANT TypeOK
INVARIANT DequeIsParked
INVARIANT HeadIsBlocked
INVARIANT Conservation

PROPERTY ParkedIsServed
