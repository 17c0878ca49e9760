CONSTANTS
    Client = Client
    Server = Server
    None = None
    W = 16
    GNRC_TCP_MSS = 2
    GNRC_TCP_DEFAULT_WINDOW = 2
    GNRC_TCP_TCB_MBOX_SIZE = 8
    Iss <- MCIss
    Scenarios <- MCScenarios
    GNRC_PKTBUF_SIZE = 64
    Alignment = 2
    UnusedSize = 4
    SnipSize = 10
    IovecSize = 4
    DataSizes = {0, 3}
    MaxUsers = 2
    MixedDuplicates = TRUE
    Senders = {"a", "b"}
    Datagrams <- MCDatagrams
    Traffic <- MCTraffic
    Unit = 2
    Frag1Hdr = 1
    FragNHdr = 2
    max_frag_size = 4
    SIXLOWPAN_FRAG_MAX_LEN = 8
    GNRC_SIXLOWPAN_MSG_QUEUE_SIZE = 1
    RBUF_SIZE = 2
    RBUF_INT_SIZE = 3
    Repeats = FALSE
    FRAG_SND = FRAG_SND
    NoEntry = NoEntry
    Components = {"pktbuf"}
SPECIFICATION MCSpec
INVARIANT UsersAreCounted
