CONSTANTS
  Tenders = {pursued, other}
  PursuedTender = pursued
  Pursued = {pursued}
  Bidders <- MCBidders
  MaxSetbacks = 1
SPECIFICATION FairSpec
INVARIANTS TypeOK CutoffPrecedesAwards AnnouncedAtFirstSight
PROPERTIES SessionsEnd PursuedAwardIsStored
