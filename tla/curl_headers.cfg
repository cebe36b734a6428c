SPECIFICATION CurlSpec
CONSTANTS
    Number = {n1, n2}
    Headers = {h1, h2}
    NoHeaders = NoHeaders
    NotAList = NotAList
    Uncached = Uncached
INVARIANTS CurlTypeOK HeadersAreTheScripts
