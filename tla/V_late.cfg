CONSTANTS
    l1 = l1
    l2 = l2
    l3 = l3
    l4 = l4
    a = a
    b = b
    addr = addr
    big = big
    NoPort = NoPort
    Names = {a, b, addr, big}
    KindOf <- MCKindOf
    Lookups = {l1, l2}
    NameOf <- TwoDomains
    DnsAddrs = {""}
    Ports = {1, 2}
    ReusePorts = TRUE
SPECIFICATION Spec
INVARIANT AnswerForName
