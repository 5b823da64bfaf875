SPECIFICATION Spec
CONSTANTS
  Accounts = {ann, bob}
  Usernames = {first, second}
  None = none
  PerSecond = 2
  ClockSkew = 1
  Drift = 1
  MaxTime = 3
  MaxSigned = 3
  MaxVisits = 2
SYMMETRY Symmetry
INVARIANTS TypeOK SeatsForTheInvited OneSeatEach ProfileIsLastSigned
PROPERTY ClaimedByNewestName
CONSTRAINT FewAtOnce
