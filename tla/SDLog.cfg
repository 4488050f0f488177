\* One key holder and one stock besides its address: the longest logs.
SPECIFICATION Spec
CONSTANTS
    gold = gold
    addr1 = addr1
    addr2 = addr2
    k1 = k1
    k2 = k2
    Name = {gold, addr1}
    Address = {addr1}
    EmptyName = EmptyName
    Key = {k1}
    NoKey = NoKey
    Unregistered = Unregistered
    EncodeAddress <- MCEncodeAddress
    MaxAmount = 2
    Generator = {EmptyName, addr1}
    MaxLog = 6
INVARIANTS
    LogSound
    History
PROPERTIES
    ImplementsLedger
