CONSTANTS
  Baskets = {b1}
  Price = 100
  Discounts <- SomeDiscounts
  MaxUses = 1
SPECIFICATION PromoSpec
INVARIANT
  TotalIsCharge
CHECK_DEADLOCK FALSE
