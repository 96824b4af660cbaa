CONSTANTS
    Names = {"connect", "get", "post", "host", "via", "http", "x", ""}
    ProxyHeaders = {"via"}
    Requests <- MCRequests
SPECIFICATION Spec
INVARIANTS DispatchedAsAsked OnlyListedHeadersGo
