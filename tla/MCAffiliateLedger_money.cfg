SPECIFICATION Spec
CONSTANTS
  c1 = c1
  c2 = c2
  usd = usd
  eur = eur
  Workers = {w1, w2}
  Commissions = {c1, c2}
  CommissionOf <- TwoCurrencies
  Payouts = {p1, p2, p3}
  Currencies = {usd, eur}
  Amounts = {1, 2}
  CreateKeys = {k1, k2, k3}
  Keys = {e1, e2}
  MaxProcessing = 2
  None = None
  Idle = Idle
SYMMETRY Interchangeable
INVARIANTS
  NoOverdraw
  PaidExactlyOnce
  ReversedAtMostOnce
  ProcessingBounded
PROPERTIES
  PayoutFinal
  ImplementsWallet
CHECK_DEADLOCK FALSE
