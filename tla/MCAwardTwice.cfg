CONSTANTS
  Tenders = {pursued}
  PursuedTender = pursued
  Pursued = {pursued}
  Bidders <- MCBidders
  MaxSetbacks = 0
SPECIFICATION Spec
INVARIANT AwardedOnce
CHECK_DEADLOCK FALSE
