SPECIFICATION Spec
CONSTANTS
    Names = {"packetBlaster", "clasBlaster", "clasBlasterNTP", "packetBlasterOld", "packetBlasterSmall", "udp_send_order", "udp_rcv_order", "packetAnalyzer", "packetBlastee", "packetBlasteeEtMT", "packetBlasteeEtMTPRT", "packetBlasteeFastDirect", "packetBlasteeFullNewMP", "packetBlasteeFastMP", "simpleSender", "simpleServerSender", "simpleConsumer", "simpleServerConsumer", "simpleServer", "lbreserve", "lbfree", "lbgeturi", "lbmonitor", "lbaddsenders", "lbremovesenders"}
    MaxOptions = 2
INVARIANT OrderIrrelevant
INVARIANT SettingsFitMain
CHECK_DEADLOCK FALSE
