CONSTANTS
  Tenders = {pursued}
  PursuedTender = pursued
  Pursued = {pursued}
  Bidders <- MCBidders
  MaxSetbacks = 0
SPECIFICATION FairSpec
PROPERTY OutcomeIsCompleted
CHECK_DEADLOCK FALSE
