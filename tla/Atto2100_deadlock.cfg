SPECIFICATION Spec
CONSTANTS
    Controller = Controller
    Mailbox = Mailbox
    Diagnostics = Diagnostics
    Gui = Gui
    Owner = Owner
    worker = worker
    Clients <- Worker
    MaxRequests = 2
    MaxCalls = 2
INVARIANT NoCircularWait
CHECK_DEADLOCK FALSE
