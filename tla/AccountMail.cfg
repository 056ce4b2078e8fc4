SPECIFICATION FairSpec
CONSTANTS
  u1 = u1  h1 = h1  h2 = h2  w1 = w1  w2 = w2
  Users = {u1}
  Calls = {h1, h2}
  Workers = {w1, w2}
  QueueSize = 1
  NoMail = NoMail
  MaxLinks = 2
INVARIANTS LinksActAsIssued LastMailHasLiveLink
PROPERTIES AcceptedMailIsHandedOver AcceptedMailIsKept
