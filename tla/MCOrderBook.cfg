SPECIFICATION Spec
CONSTANTS
  Tolerance = 1
  OrderIds <- MCOrderIds
  Prices <- MCPrices
  Quantities <- MCQuantities
  MaxAdds = 3
INVARIANTS
  TypeOK
  BookConsistent
  BestIsPriceTimeFirst
PROPERTIES
  ImplementsPriceTimeBook
