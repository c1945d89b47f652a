SPECIFICATION FairSpec
CONSTANTS
    Conn = {c1, c2}
    NoConn = NoConn
    MaxBackoff = 1
    MaxKey = 1
    MaxHalfOpen = 1
    Environments <- Each
INVARIANTS AgentAlwaysTrying OldKeyRejected StatusIsReal RecordsAgree RelayServesLiveAgent
PROPERTIES AgentServed ClientSpec
