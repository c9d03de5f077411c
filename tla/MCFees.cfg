SPECIFICATION Spec
CONSTANTS
  sender = sender
  contract = contract
  fresh = fresh
  Acct = {sender, contract, fresh}
  Senders = {sender, contract}
  Contracts = {contract, fresh}
  NewAccts = {fresh}
  Miner = contract
  BaseFee = 1
  MaxFees = {2}
  Tips = {0, 2}
  Prices = {2}
  GasLimits = {1}
  Amounts = {0, 1}
  Funds = {0, 3}
  Kinds = {"call", "create"}
  MaxDepth = 3
  MaxFrames = 3
INVARIANT Conserved
INVARIANT TypeOK
INVARIANT RevertPaysFees
CHECK_DEADLOCK FALSE
