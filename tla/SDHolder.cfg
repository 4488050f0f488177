\* Two key holders: who may change a name or spend from an account.
SPECIFICATION Spec
CONSTANTS
    gold = gold
    addr1 = addr1
    addr2 = addr2
    k1 = k1
    k2 = k2
    Name = {gold, addr1, addr2}
    Address = {addr1, addr2}
    EmptyName = EmptyName
    Key = {k1, k2}
    NoKey = NoKey
    Unregistered = Unregistered
    EncodeAddress <- MCEncodeAddress
    MaxAmount = 2
    Generator = {EmptyName, addr1}
    MaxLog = 5
PROPERTY HolderApproves
