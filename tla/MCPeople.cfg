CONSTANTS
    ann = ann  bob = bob  cy = cy
    Person <- MCPerson
    Founders <- MCFounders
    Watcher = {cy}
    Scenes <- MCScenes
    Remote = {cy}
    QueueLimit = 1
    MailMessage = {m1}
    MailSender = {s1, s2}
    MailAttempts = 3
    MailBatch = 2
    MailFaults = 2
SPECIFICATION MCSpec
INVARIANTS OneMailEach
PROPERTIES AccessIsKept AccessIsSeen EveryMailEnds
\* the requests are bounded, and a system with nothing to do may stop
CHECK_DEADLOCK FALSE
