\* Two keys, the wallet's or another's, for one stock and two addresses.
SPECIFICATION WalletSpec
CONSTANTS
    gold = gold
    addr1 = addr1
    addr2 = addr2
    k1 = k1
    k2 = k2
    Name = {gold, addr1, addr2}
    Address = {addr1, addr2}
    EmptyName = EmptyName
    Key = {k1, k2}
    NoKey = NoKey
    Unregistered = Unregistered
    EncodeAddress <- MCEncodeAddress
    MaxAmount = 1
    Stock = {gold}
    Payee = {addr1, EmptyName}
    Generator = {EmptyName, addr1}
    MaxCommands = 2
    MaxPending = 1
INVARIANTS
    SupplyInv
    NoCounterfeit
    WalletSound
PROPERTIES
    SureApplies
    SignedIsEnough
