SPECIFICATION TradingSpec
CONSTANTS
  Symbols = {"AAPL"}
  Prices = {1, 2}
  Sizes = {0, 3}
  Amounts = {0, 2}
  MaxMessages = 3
  MaxSize = 2
  SpreadThresholds = {0, 1}
  ImbalanceThresholds = {3}
  MaxOrders = 3
INVARIANT AverageBetweenPrices
PROPERTY OrdersAreFillable
