SPECIFICATION ControlSpec
CONSTANTS
    Modes = {"machine"}
    Configs = {"a"}
    Landing = {}
    KernelHash <- KernelHashOf
    UserIds = {1, 2}
    None = None
    EventCap = 1
    StatusCap = 1
    MaxEpochs = 1
    MaxVersions = 4
    MaxCerts = 0
    MaxLinks = 2
PROPERTY MailboxBaseIsCurrent
